-------------------------- MODULE SupervisorProofs --------------------------
(***************************************************************************)
(* Proofs about the supervisor, for every number of generations and boots, *)
(* every crash-loop threshold and every set of faults: the types, the exit *)
(* events, the restart an operator asked for, and what a bot that is gone  *)
(* leaves behind (SupInv); then, on top of that, the rows, and, with the   *)
(* faults that break it excluded, which bots serve Discord (AgreeInv).     *)
(***************************************************************************)
EXTENDS Supervisor, FiniteSetTheorems, TLAPS

SupType ==
  [phase : Phases, expectedStop : BOOLEAN, pendingRestart : BOOLEAN,
   recent : Nat, child : 0..MaxGenerations, gen : 0..MaxGenerations,
   timers : SUBSET Timers, since : 0..MaxGenerations]

RowType == [Gens -> [status : {"none"} \cup Open \cup Ended, pid : BOOLEAN]]
BotType == [Gens -> {"none", "absent", "dead"} \cup Living]
AgentsType == [Gens -> {"none", "young", "old"}]

AtRest(s) == s.phase \in {"Stopped", "Backoff", "Failed"}

\* A generation beyond the last has no row, process or agent, and the service
\* knows of none.
Bounded ==
  /\ sup.gen <= last /\ sup.child <= last /\ sup.since <= last
  /\ \A g \in Gens : g > last =>
       row[g].status = "none" /\ bot[g] = "none" /\ agents[g] = "none"

\* What lives of the bots this run of the main server spawned is the current
\* generation's, and the machine is not at rest then: that is why an exit that
\* is not yet delivered can only be the current one's.
LiveIsCurrent ==
  main # "down" =>
    \A g \in Gens : g > sup.since =>
      /\ bot[g] \in Living => g = sup.gen /\ g = sup.child /\ ~AtRest(sup)
      /\ agents[g] = "young" => g = sup.gen /\ ~AtRest(sup)

\* An exit waiting to be delivered is that of a dead child of this run, and the
\* current generation's.
ExitsAreOwn ==
  \A g \in exits : /\ main # "down" /\ g > sup.since /\ bot[g] = "dead"
                   /\ g = sup.gen /\ g = sup.child /\ ~AtRest(sup)

\* A pending restart is for the next exit only.
RestartIsExpected == sup.pendingRestart => sup.phase = "Stopping" /\ sup.expectedStop

\* A row of an earlier run is open only until the reconciliation gets to it.
EarlierRows ==
  main # "down" =>
    /\ rec.at = "done" => rec.todo = {}
    /\ \A g \in Gens : row[g].status \in Open /\ g <= sup.since => g \in rec.todo

\* A row of this run is running only while its process lives or its exit waits.
OwnRows ==
  main # "down" =>
    \A g \in Gens : row[g].status = "running" /\ g > sup.since =>
      bot[g] \in Living \/ g \in exits

SupInv ==
  /\ TypeOK /\ Bounded /\ LiveIsCurrent /\ ExitsAreOwn
  /\ RestartIsExpected /\ EarlierRows /\ OwnRows

-----------------------------------------------------------------------------
(***************************************************************************)
(* What the parts of the actions do.                                       *)
(***************************************************************************)

\* The type invariant, with the types named.
LEMMA TypeParts ==
  TypeOK <=>
    /\ main \in {"down", "up", "closing"} /\ boots \in 0..MaxBoots
    /\ sup \in SupType
    /\ rec \in [at : {"done", "check", "identify", "kill"},
                todo : SUBSET Gens, known : SUBSET Gens]
    /\ last \in 0..MaxGenerations
    /\ row \in RowType /\ bot \in BotType
    /\ signalled \subseteq Gens /\ exits \subseteq Gens
    /\ agents \in AgentsType
BY DEF TypeOK, SupType, RowType, BotType, AgentsType

\* A process is as it was, or it has ended and its exit is on the way if this run
\* of the main server spawned it.
Ended1(h) ==
  \/ bot'[h] = bot[h] /\ (h \in exits' <=> h \in exits)
  \/ /\ bot[h] \in Living /\ bot'[h] = "dead"
     /\ h \in exits' <=> (h \in exits \/ (main # "down" /\ h > sup.since))

ProcStep ==
  /\ bot' \in BotType /\ exits' \subseteq Gens
  /\ \A h \in Gens : Ended1(h)

LEMMA DiesIsProcStep ==
  ASSUME TypeOK, NEW g \in Gens, bot[g] \in Living, Dies(g)
  PROVE  ProcStep
BY DEF TypeOK, Dies, ProcStep, Ended1, BotType, Living

LEMMA SigtermIsProcStep ==
  ASSUME TypeOK, NEW g, Sigterm(g)
  PROVE  ProcStep /\ signalled' \subseteq Gens
<1>1. CASE g \in Gens /\ bot[g] = "booting" /\ Dies(g) /\ UNCHANGED signalled
  BY <1>1, DiesIsProcStep DEF TypeOK, Living
<1>2. CASE g \in Gens /\ signalled' = signalled \cup {g} /\ UNCHANGED <<bot, exits>>
  BY <1>2 DEF TypeOK, ProcStep, Ended1, BotType
<1>3. CASE UNCHANGED procVars
  BY <1>3 DEF TypeOK, ProcStep, Ended1, BotType, procVars
<1> QED
  BY <1>1, <1>2, <1>3 DEF Sigterm

LEMMA SigkillIsProcStep ==
  ASSUME TypeOK, NEW g, Sigkill(g)
  PROVE  ProcStep /\ signalled' \subseteq Gens
<1>1. CASE g \in Gens /\ bot[g] \in Living /\ Dies(g) /\ UNCHANGED signalled
  BY <1>1, DiesIsProcStep DEF TypeOK
<1>2. CASE UNCHANGED procVars
  BY <1>2 DEF TypeOK, ProcStep, Ended1, BotType, procVars
<1> QED
  BY <1>1, <1>2 DEF Sigkill

LEMMA NoProcStep ==
  ASSUME TypeOK, UNCHANGED <<bot, exits>>
  PROVE  ProcStep
BY DEF TypeOK, ProcStep, Ended1, BotType

\* A row is as it was, or was open and is not running now.
RowStep(r) ==
  /\ r \in RowType
  /\ \A h \in Gens : \/ r[h] = row[h]
                     \/ /\ row[h].status \in Open
                        /\ r[h].status # "running" /\ r[h].status # "none"

LEMMA FinalizeIsRowStep ==
  ASSUME TypeOK, NEW g, NEW status \in Ended
  PROVE  /\ RowStep(Finalize(g, status))
         /\ g \in Gens => Finalize(g, status)[g].status \notin Open
         /\ \A h \in Gens : Finalize(g, status)[h].status \in Open => IsOpen(h)
BY DEF TypeOK, Finalize, IsOpen, RowStep, RowType, Ended, Open

LEMMA MarkStoppingIsRowStep ==
  ASSUME TypeOK, NEW g
  PROVE  /\ RowStep(MarkStopping(g))
         /\ \A h \in Gens : MarkStopping(g)[h].status \in Open => IsOpen(h)
BY DEF TypeOK, MarkStopping, IsOpen, RowStep, RowType, Ended, Open

LEMMA SameRows ==
  ASSUME TypeOK
  PROVE  RowStep(row) /\ \A h \in Gens : row[h].status \in Open => IsOpen(h)
BY DEF TypeOK, RowStep, RowType, IsOpen

\* An unexpected exit leaves the machine at rest.
LEMMA CrashedFields ==
  ASSUME NEW s \in SupType
  PROVE  /\ Crashed(s) \in SupType
         /\ Crashed(s).phase \in {"Failed", "Backoff"}
         /\ Crashed(s).gen = s.gen /\ Crashed(s).child = s.child
         /\ Crashed(s).since = s.since
         /\ Crashed(s).pendingRestart = s.pendingRestart
         /\ Crashed(s).expectedStop = FALSE
<1> DEFINE looping == s.recent + 1 >= Threshold
           t == s.timers \ {"startDeadline", "livenessPoll", "stableWindow"}
           recent == s.recent + 1
           phase == IF looping THEN "Failed" ELSE "Backoff"
           timers == IF looping THEN t ELSE t \cup {"backoff"}
<1>1. recent \in Nat /\ phase \in {"Failed", "Backoff"} /\ timers \in SUBSET Timers
  BY DEF SupType, Timers
<1>2. Crashed(s) = [s EXCEPT !.recent = recent, !.expectedStop = FALSE,
                             !.phase = phase, !.timers = timers]
  BY DEF Crashed
<1> HIDE DEF recent, phase, timers
<1> QED
  BY <1>1, <1>2 DEF SupType, Phases

\* A launch makes the next generation the current one; it lives only if the
\* machine is in Starting with that child.
Launched(s, r) ==
  /\ last' = last + 1 /\ last' \in Gens
  /\ sup' \in SupType /\ sup'.gen = last' /\ sup'.since = s.since
  /\ sup'.pendingRestart = s.pendingRestart
  /\ bot' \in BotType /\ row' \in RowType
  /\ row'[last'].status \in {"starting", "crashed"}
  /\ \/ sup'.phase = "Starting" /\ sup'.child = last' /\ bot'[last'] \in {"booting", "absent"}
     \/ /\ sup'.child = s.child /\ bot'[last'] = "absent"
        /\ row'[last'].status = "crashed"
  /\ \A h \in Gens \ {last'} : bot'[h] = bot[h] /\ row'[h] = r[h]

LEMMA LaunchEffect ==
  ASSUME TypeOK, NEW s \in SupType, NEW r \in RowType, Launch(s, r)
  PROVE  Launched(s, r)
<1> DEFINE g  == last + 1
           s1 == [s EXCEPT !.phase = "Starting", !.expectedStop = FALSE, !.gen = g]
           arm(u) == [u EXCEPT !.timers = @ \cup {"startDeadline", "livenessPoll"}]
<1>0. last' = g /\ g \in Gens /\ last \in 0..MaxGenerations /\ bot \in BotType
  BY DEF Launch, TypeOK, BotType
<1>1. /\ s1 \in SupType /\ s1.phase = "Starting" /\ s1.gen = g /\ s1.since = s.since
      /\ s1.child = s.child /\ s1.pendingRestart = s.pendingRestart
  <2>1. g \in 0..MaxGenerations
    BY <1>0, SupervisorAssumption DEF Gens
  <2> HIDE DEF g
  <2> QED
    BY <2>1 DEF SupType, Phases
<1>2. ASSUME NEW u \in SupType
      PROVE  /\ arm(u) \in SupType /\ arm(u).phase = u.phase /\ arm(u).gen = u.gen
             /\ arm(u).since = u.since /\ arm(u).child = u.child
             /\ arm(u).pendingRestart = u.pendingRestart
  BY <1>2 DEF SupType, Timers
<1>3. CASE /\ bot' = [bot EXCEPT ![g] = "booting"] \/ bot' = [bot EXCEPT ![g] = "absent"]
           /\ row' = [r EXCEPT ![g] = [status |-> "starting", pid |-> FALSE]]
           /\ sup' = arm([s1 EXCEPT !.child = g])
  <2> DEFINE s2 == [s1 EXCEPT !.child = g]
  <2>1. /\ s2 \in SupType /\ s2.phase = "Starting" /\ s2.gen = g /\ s2.since = s.since
        /\ s2.child = g /\ s2.pendingRestart = s.pendingRestart
    <3>1. g \in 0..MaxGenerations
      BY <1>0, SupervisorAssumption DEF Gens
    <3> HIDE DEF g, s1
    <3> QED
      BY <3>1, <1>1 DEF SupType
  <2>2. /\ sup' \in SupType /\ sup'.phase = "Starting" /\ sup'.gen = g /\ sup'.since = s.since
        /\ sup'.child = g /\ sup'.pendingRestart = s.pendingRestart
    BY <2>1, <1>2, <1>3
  <2> HIDE DEF s1, arm
  <2>3. bot' \in BotType /\ bot'[g] \in {"booting", "absent"}
        /\ \A h \in Gens \ {g} : bot'[h] = bot[h]
    BY <1>3, <1>0 DEF BotType, Living
  <2>4. row' \in RowType /\ row'[g].status = "starting"
        /\ \A h \in Gens \ {g} : row'[h] = r[h]
    BY <1>3, <1>0 DEF RowType, Open
  <2> QED
    BY <2>2, <2>3, <2>4, <1>0 DEF Launched
<1>4. CASE /\ bot' = [bot EXCEPT ![g] = "absent"]
           /\ row' = [r EXCEPT ![g] = [status |-> "crashed", pid |-> FALSE]]
           /\ sup' = arm(Crashed(s1))
  <2>1. Crashed(s1) \in SupType
    BY <1>1, CrashedFields
  <2>2. /\ sup' \in SupType /\ sup'.gen = g /\ sup'.since = s.since
        /\ sup'.child = s.child /\ sup'.pendingRestart = s.pendingRestart
    BY <2>1, <1>1, <1>2, <1>4, CrashedFields
  <2> HIDE DEF s1, arm
  <2>3. bot' \in BotType /\ bot'[g] = "absent"
        /\ \A h \in Gens \ {g} : bot'[h] = bot[h]
    BY <1>4, <1>0 DEF BotType, Living
  <2>4. row' \in RowType /\ row'[g].status = "crashed"
        /\ \A h \in Gens \ {g} : row'[h] = r[h]
    BY <1>4, <1>0 DEF RowType, Ended
  <2> QED
    BY <2>2, <2>3, <2>4, <1>0 DEF Launched
<1> QED
  BY <1>3, <1>4 DEF Launch

-----------------------------------------------------------------------------
(***************************************************************************)
(* Two ways to keep the invariant: without a launch, and with one.         *)
(***************************************************************************)

\* Agents only end or age.
AgentStep ==
  /\ agents' \in AgentsType
  /\ \A h \in Gens : \/ agents'[h] = agents[h]
                     \/ agents[h] # "none" /\ agents'[h] # "young"

\* The rows still open of earlier runs are still to be reconciled.
RecStep ==
  /\ rec'.at = "done" => rec'.todo = {}
  /\ \A h \in Gens : h \in rec.todo /\ row'[h].status \in Open => h \in rec'.todo

LEMMA NoAgentStep == ASSUME TypeOK, UNCHANGED agents PROVE AgentStep
BY DEF TypeOK, AgentStep, AgentsType

LEMMA ReapStep ==
  ASSUME TypeOK, NEW g, agents' = Reap(g)
  PROVE  AgentStep /\ (g \in Gens => agents'[g] # "young")
BY DEF TypeOK, AgentStep, AgentsType, Reap

LEMMA NoRecStep ==
  ASSUME SupInv, main # "down", UNCHANGED rec
  PROVE  RecStep
BY DEF SupInv, EarlierRows, RecStep

\* The current generation stays, nothing comes to life, no row becomes running.
LEMMA Quiet ==
  ASSUME SupInv, TypeOK', RestartIsExpected',
         main' = "down" <=> main = "down", last' = last,
         ProcStep, RowStep(row'), AgentStep,
         main # "down" => RecStep,
         sup'.gen = sup.gen, sup'.child = sup.child, sup'.since = sup.since,
         AtRest(sup') => AtRest(sup)
  PROVE  SupInv'
<1>1. Bounded'
  BY DEF SupInv, TypeOK, Bounded, ProcStep, Ended1, RowStep, AgentStep, Living, Open, Gens
<1>2. LiveIsCurrent'
  BY DEF SupInv, LiveIsCurrent, ProcStep, Ended1, AgentStep, Living
<1>3. ExitsAreOwn'
  BY DEF SupInv, TypeOK, ExitsAreOwn, LiveIsCurrent, ProcStep, Ended1, Living
<1>4. EarlierRows'
  BY DEF SupInv, EarlierRows, RecStep, RowStep
<1>5. OwnRows'
  BY DEF SupInv, OwnRows, RowStep, ProcStep, Ended1
<1> QED
  BY <1>1, <1>2, <1>3, <1>4, <1>5 DEF SupInv

\* Nothing this run spawned lives when the next generation is launched.
NothingLives(r) ==
  /\ exits' = {}
  /\ \A h \in Gens : h > sup.since =>
       bot[h] \notin Living /\ agents'[h] # "young" /\ r[h].status # "running"

LEMMA NextGeneration ==
  ASSUME SupInv, TypeOK', main # "down", main' = main,
         NEW s, NEW r, Launched(s, r), RowStep(r), NothingLives(r), AgentStep, RecStep,
         s.since = sup.since, s.child = sup.child, s.pendingRestart = FALSE
  PROVE  SupInv'
<1>0. /\ last \in 0..MaxGenerations /\ sup.since \in 0..MaxGenerations
      /\ sup.child \in 0..MaxGenerations
  BY TypeParts DEF SupInv, SupType
<1>1. Bounded'
  <2>1. sup'.gen <= last' /\ sup'.child <= last' /\ sup'.since <= last'
    BY <1>0 DEF SupInv, Bounded, Launched
  <2>2. \A g \in Gens : g > last' =>
          row'[g].status = "none" /\ bot'[g] = "none" /\ agents'[g] = "none"
    BY <1>0 DEF SupInv, Bounded, Launched, RowStep, AgentStep, Gens, Open
  <2> QED
    BY <2>1, <2>2 DEF Bounded
<1>2. LiveIsCurrent'
  <2>1. ASSUME NEW g \in Gens, g > sup'.since
        PROVE  /\ bot'[g] \in Living => g = sup'.gen /\ g = sup'.child /\ ~AtRest(sup')
               /\ agents'[g] # "young"
    BY <2>1 DEF Launched, NothingLives, Living, AtRest
  <2> QED
    BY <2>1 DEF LiveIsCurrent
<1>3. ExitsAreOwn'
  BY DEF ExitsAreOwn, NothingLives
<1>4. RestartIsExpected'
  BY DEF Launched, RestartIsExpected
<1>5. EarlierRows'
  <2>1. ASSUME NEW g \in Gens, row'[g].status \in Open, g <= sup'.since
        PROVE  g \in rec'.todo
    <3>1. g # last' /\ row'[g] = r[g]
      BY <2>1, <1>0 DEF Launched, SupInv, Bounded, Gens
    <3>2. row[g].status \in Open
      BY <3>1, <2>1 DEF RowStep
    <3>3. g \in rec.todo
      BY <3>2, <2>1 DEF SupInv, EarlierRows, Launched
    <3> QED
      BY <3>3, <2>1 DEF RecStep
  <2> QED
    BY <2>1 DEF EarlierRows, RecStep
<1>6. OwnRows'
  BY DEF Launched, NothingLives, OwnRows
<1> QED
  BY <1>1, <1>2, <1>3, <1>4, <1>5, <1>6 DEF SupInv

\* At rest nothing this run spawned lives.
LEMMA AtRestNothingLives ==
  ASSUME SupInv, main # "down", AtRest(sup), UNCHANGED <<exits, agents>>
  PROVE  NothingLives(row) /\ exits = {}
BY DEF SupInv, TypeOK, NothingLives, LiveIsCurrent, ExitsAreOwn, OwnRows

-----------------------------------------------------------------------------
(***************************************************************************)
(* The main server's actions.                                              *)
(***************************************************************************)

LEMMA InitialSupType == ASSUME NEW n \in 0..MaxGenerations PROVE InitialSup(n) \in SupType
BY SupervisorAssumption DEF InitialSup, SupType, Phases

LEMMA MainBootStep == ASSUME SupInv, MainBoot PROVE SupInv'
<1>1. last \in 0..MaxGenerations /\ boots \in Nat /\ boots < MaxBoots
  BY SupervisorAssumption DEF SupInv, TypeOK, MainBoot
<1>2. sup' \in SupType /\ sup' = InitialSup(last)
  BY <1>1, InitialSupType DEF MainBoot
<1>3. TypeOK'
  BY <1>1, <1>2, TypeParts, SupervisorAssumption
  DEF SupInv, TypeOK, MainBoot, SupType
<1>4. Bounded'
  BY <1>1, <1>2 DEF SupInv, Bounded, MainBoot, InitialSup
<1>5. \A g \in Gens : g > last => bot[g] = "none" /\ agents[g] = "none" /\ row[g].status = "none"
  BY DEF SupInv, Bounded
<1>6. LiveIsCurrent' /\ ExitsAreOwn' /\ OwnRows' /\ RestartIsExpected'
  BY <1>2, <1>5 DEF MainBoot, InitialSup, LiveIsCurrent, ExitsAreOwn, OwnRows,
    RestartIsExpected, Living
<1>7. EarlierRows'
  BY DEF MainBoot, EarlierRows, IsOpen
<1> QED
  BY <1>3, <1>4, <1>6, <1>7 DEF SupInv

LEMMA MainDiesStep == ASSUME SupInv, MainDies PROVE SupInv'
<1>1. last \in 0..MaxGenerations
  BY DEF SupInv, TypeOK
<1>2. sup' \in SupType /\ sup' = InitialSup(last)
  BY <1>1, InitialSupType DEF MainDies
<1>3. TypeOK'
  BY <1>2 DEF SupInv, TypeOK, MainDies, SupType, NotReconciling
<1>4. Bounded'
  BY <1>1, <1>2 DEF SupInv, Bounded, MainDies, InitialSup
<1> QED
  BY <1>2, <1>3, <1>4 DEF SupInv, MainDies, InitialSup, LiveIsCurrent, ExitsAreOwn,
    OwnRows, RestartIsExpected, EarlierRows

LEMMA MainClosesStep == ASSUME SupInv, MainCloses PROVE SupInv'
<1>1. ProcStep /\ signalled' \subseteq Gens
  BY SigtermIsProcStep, NoProcStep DEF SupInv, TypeOK, MainCloses, procVars
<1>2. sup \in SupType
  BY TypeParts DEF SupInv
<1>3. /\ sup' \in SupType /\ sup'.gen = sup.gen /\ sup'.child = sup.child
      /\ sup'.since = sup.since /\ sup'.phase = sup.phase
      /\ sup'.pendingRestart = sup.pendingRestart
      /\ sup'.expectedStop = sup.expectedStop \/ sup'.expectedStop
  BY <1>2 DEF MainCloses, SupType
<1>4. TypeOK'
  BY <1>1, <1>3 DEF SupInv, TypeOK, MainCloses, ProcStep, BotType, SupType
<1>5. RestartIsExpected'
  BY <1>3 DEF SupInv, RestartIsExpected
<1>6. RowStep(row') /\ AgentStep
  BY SameRows, NoAgentStep DEF SupInv, MainCloses
<1>7. RecStep
  BY NoRecStep DEF MainCloses
<1> QED
  BY <1>1, <1>3, <1>4, <1>5, <1>6, <1>7, Quiet DEF MainCloses, AtRest

\* A step of the machine that changes its fields and sends no signal.
LEMMA FieldsStep ==
  ASSUME SupInv, main # "down",
         UNCHANGED <<main, boots, rec, last, row, procVars, agents>>,
         sup' \in SupType, sup'.gen = sup.gen, sup'.child = sup.child,
         sup'.since = sup.since, sup'.pendingRestart = sup.pendingRestart,
         \/ sup'.phase = sup.phase /\ sup'.expectedStop = sup.expectedStop
         \/ sup.phase = "Starting" /\ sup'.phase = "Running"
  PROVE  SupInv'
<1>1. TypeOK'
  BY DEF SupInv, TypeOK, SupType, procVars
<1>2. RestartIsExpected'
  BY DEF SupInv, RestartIsExpected
<1>3. ProcStep /\ RowStep(row') /\ AgentStep /\ RecStep
  BY NoProcStep, SameRows, NoAgentStep, NoRecStep DEF SupInv, procVars
<1> QED
  BY <1>1, <1>2, <1>3, Quiet DEF AtRest

LEMMA LivenessPollStep == ASSUME SupInv, LivenessPoll PROVE SupInv'
<1>1. sup \in SupType
  BY TypeParts DEF SupInv
<1>2. ASSUME NEW timers \in SUBSET Timers
      PROVE  [sup EXCEPT !.phase = "Running", !.timers = timers] \in SupType
  BY <1>1 DEF SupType, Phases
<1>3. CASE sup.phase = "Starting" /\ row[sup.gen].status = "running"
  <2> DEFINE timers == (sup.timers \ {"startDeadline", "livenessPoll"}) \cup {"stableWindow"}
  <2>1. timers \in SUBSET Timers
    BY <1>1 DEF SupType, Timers
  <2>2. sup' = [sup EXCEPT !.phase = "Running", !.timers = timers]
    BY <1>3 DEF LivenessPoll
  <2>3. sup' \in SupType
    BY <1>2, <2>1, <2>2
  <2> QED
    BY <1>1, <1>3, <2>2, <2>3, FieldsStep DEF LivenessPoll, Due, Idle, SupType
<1>4. CASE sup' = Lapses("livenessPoll")
  BY <1>1, <1>4, FieldsStep DEF LivenessPoll, Due, Idle, Lapses, SupType
<1> QED
  BY <1>3, <1>4 DEF LivenessPoll

LEMMA StableWindowElapsedStep == ASSUME SupInv, StableWindowElapsed PROVE SupInv'
<1>1. sup \in SupType
  BY TypeParts DEF SupInv
<1> QED
  BY <1>1, FieldsStep DEF StableWindowElapsed, Due, Idle, Lapses, SupType

LEMMA WindowPassesStep == ASSUME SupInv, WindowPasses PROVE SupInv'
<1>1. sup \in SupType
  BY TypeParts DEF SupInv
<1>2. sup' \in SupType /\ sup' = [sup EXCEPT !.recent = sup.recent - 1]
  BY <1>1 DEF WindowPasses, SupType
<1>3. TypeOK'
  BY <1>2 DEF SupInv, TypeOK, WindowPasses, SupType, procVars
<1>4. /\ sup'.gen = sup.gen /\ sup'.child = sup.child /\ sup'.since = sup.since
      /\ sup'.phase = sup.phase /\ sup'.expectedStop = sup.expectedStop
      /\ sup'.pendingRestart = sup.pendingRestart
  BY <1>1, <1>2 DEF SupType
<1>5. RestartIsExpected'
  BY <1>4 DEF SupInv, RestartIsExpected
<1>6. ProcStep /\ RowStep(row') /\ AgentStep /\ (main # "down" => RecStep)
  BY NoProcStep, SameRows, NoAgentStep, NoRecStep DEF SupInv, procVars, WindowPasses
<1> QED
  BY <1>3, <1>4, <1>5, <1>6, Quiet DEF AtRest, WindowPasses

\* A step of a timeout: Stopping begins or goes on, the bot is signalled.
LEMMA StopStep ==
  ASSUME SupInv, main # "down", UNCHANGED <<main, boots, rec, last>>,
         sup' \in SupType, sup'.gen = sup.gen, sup'.child = sup.child,
         sup'.since = sup.since, AtRest(sup') => AtRest(sup), RestartIsExpected',
         ProcStep, signalled' \subseteq Gens, RowStep(row'), AgentStep
  PROVE  SupInv'
<1>1. TypeOK'
  BY DEF SupInv, TypeOK, SupType, ProcStep, BotType, RowStep, RowType, AgentStep, AgentsType
<1>2. RecStep
  BY NoRecStep
<1> QED
  BY <1>1, <1>2, Quiet

LEMMA StartTimeoutStep == ASSUME SupInv, StartTimeout PROVE SupInv'
<1>1. sup \in SupType /\ TypeOK
  BY TypeParts DEF SupInv
<1>2. main # "down" /\ UNCHANGED <<main, boots, rec, last>> /\ AgentStep
  BY <1>1, NoAgentStep DEF StartTimeout, Due, Idle
<1>3. /\ RowStep(row') /\ ProcStep /\ signalled' \subseteq Gens
  BY <1>1, SigtermIsProcStep, NoProcStep, MarkStoppingIsRowStep, SameRows
  DEF StartTimeout, TypeOK, procVars
<1>4. /\ sup' \in SupType /\ sup'.gen = sup.gen /\ sup'.child = sup.child
      /\ sup'.since = sup.since /\ sup'.pendingRestart = sup.pendingRestart
      /\ \/ sup'.phase = sup.phase /\ sup'.expectedStop = sup.expectedStop
         \/ sup.phase = "Starting" /\ sup'.phase = "Stopping"
  <2>1. CASE sup.phase = "Starting"
    <3> DEFINE soon == sup.recent + 1 < Threshold
               timers == (sup.timers \ {"startDeadline"}) \cup {"grace"}
    <3>1. /\ sup.recent + 1 \in Nat /\ soon \in BOOLEAN /\ timers \in SUBSET Timers
      BY <1>1, SupervisorAssumption DEF SupType, Timers
    <3>2. sup' = [sup EXCEPT !.timers = timers, !.phase = "Stopping",
                             !.recent = sup.recent + 1, !.expectedStop = soon]
      BY <1>1, <2>1 DEF StartTimeout, Lapses, SupType
    <3> HIDE DEF soon, timers
    <3> QED
      BY <1>1, <2>1, <3>1, <3>2 DEF SupType, Phases
  <2>2. CASE sup.phase # "Starting"
    BY <1>1, <2>2 DEF StartTimeout, Lapses, SupType
  <2> QED
    BY <2>1, <2>2
<1>5. RestartIsExpected'
  BY <1>4 DEF SupInv, RestartIsExpected
<1> QED
  BY <1>2, <1>3, <1>4, <1>5, StopStep DEF AtRest

LEMMA GraceTimeoutStep == ASSUME SupInv, GraceTimeout PROVE SupInv'
<1>1. sup \in SupType /\ TypeOK
  BY TypeParts DEF SupInv
<1>2. main # "down" /\ UNCHANGED <<main, boots, rec, last>> /\ RowStep(row')
  BY <1>1, SameRows DEF GraceTimeout, Due, Idle
<1>3. ProcStep /\ signalled' \subseteq Gens /\ AgentStep
  BY <1>1, SigkillIsProcStep, NoProcStep, ReapStep, NoAgentStep
  DEF GraceTimeout, TypeOK, procVars
<1>4. /\ sup' \in SupType /\ sup'.gen = sup.gen /\ sup'.child = sup.child
      /\ sup'.since = sup.since /\ sup'.pendingRestart = sup.pendingRestart
      /\ sup'.phase = sup.phase /\ sup'.expectedStop = sup.expectedStop
  <2>1. PICK timers \in SUBSET Timers : sup' = [sup EXCEPT !.timers = timers]
    <3>1. sup.timers \ {"grace"} \in SUBSET Timers
          /\ (sup.timers \ {"grace"}) \ {"livenessPoll", "stableWindow"} \in SUBSET Timers
      BY <1>1 DEF SupType
    <3> QED
      BY <1>1, <3>1 DEF GraceTimeout, Lapses, SupType
  <2> QED
    BY <1>1, <2>1 DEF SupType
<1>5. RestartIsExpected'
  BY <1>4 DEF SupInv, RestartIsExpected
<1> QED
  BY <1>2, <1>3, <1>4, <1>5, StopStep DEF AtRest

LEMMA StartRequestedStep == ASSUME SupInv, StartRequested PROVE SupInv'
<1>1. sup \in SupType /\ row \in RowType /\ TypeOK
  BY TypeParts DEF SupInv
<1>2. /\ main # "down" /\ UNCHANGED <<main, boots, signalled, exits, agents>>
      /\ rec.todo = {} /\ rec' = NotReconciling
  BY DEF StartRequested
<1>3. RowStep(row) /\ AgentStep /\ RecStep
  BY <1>1, <1>2, SameRows, NoAgentStep DEF RecStep, NotReconciling
<1>4. CASE MayStart(sup) /\ Launch(sup, row)
  <2>1. Launched(sup, row)
    BY <1>1, <1>4, LaunchEffect
  <2>2. TypeOK'
    BY <1>1, <1>2, <2>1, TypeParts
    DEF TypeOK, Launched, SupType, RowType, BotType, NotReconciling, Gens
  <2>3. AtRest(sup) /\ sup.pendingRestart = FALSE
    BY <1>1, <1>4 DEF MayStart, AtRest, SupInv, RestartIsExpected, SupType
  <2>4. NothingLives(row)
    BY <1>2, <2>3, AtRestNothingLives
  <2> QED
    BY <1>2, <1>3, <2>1, <2>2, <2>3, <2>4, NextGeneration
<1>5. CASE ~MayStart(sup) /\ UNCHANGED <<sup, last, row, bot>>
  <2>1. TypeOK' /\ RestartIsExpected' /\ RowStep(row') /\ ProcStep
    BY <1>1, <1>2, <1>3, <1>5, NoProcStep
    DEF SupInv, TypeOK, NotReconciling, RestartIsExpected
  <2> QED
    BY <1>2, <1>3, <1>5, <2>1, Quiet DEF AtRest
<1> QED
  BY <1>4, <1>5 DEF StartRequested

\* A launch out of a phase at rest, the fields s differing in timers and intent.
LEMMA RestLaunch ==
  ASSUME SupInv, main # "down", AtRest(sup),
         UNCHANGED <<main, boots, rec, signalled, exits, agents>>,
         NEW s \in SupType, s.since = sup.since, s.child = sup.child,
         s.pendingRestart = FALSE, Launch(s, row)
  PROVE  SupInv'
<1>1. row \in RowType /\ TypeOK
  BY TypeParts DEF SupInv
<1>2. Launched(s, row)
  BY <1>1, LaunchEffect
<1>3. RowStep(row) /\ AgentStep /\ RecStep /\ NothingLives(row)
  BY <1>1, SameRows, NoAgentStep, NoRecStep, AtRestNothingLives
<1>4. TypeOK'
  BY <1>1, <1>2 DEF TypeOK, Launched, SupType, RowType, BotType, Gens
<1> QED
  BY <1>2, <1>3, <1>4, NextGeneration

LEMMA BackoffElapsedStep == ASSUME SupInv, BackoffElapsed PROVE SupInv'
<1> DEFINE s == Lapses("backoff")
<1>1. sup \in SupType
  BY TypeParts DEF SupInv
<1>2. /\ s \in SupType /\ s.since = sup.since /\ s.child = sup.child /\ s.gen = sup.gen
      /\ s.pendingRestart = sup.pendingRestart /\ s.phase = sup.phase
      /\ s.expectedStop = sup.expectedStop
  BY <1>1 DEF Lapses, SupType
<1> HIDE DEF s
<1>3. CASE sup.phase = "Backoff" /\ Launch(s, row)
  <2>1. s.pendingRestart = FALSE /\ AtRest(sup)
    BY <1>1, <1>2, <1>3 DEF SupInv, RestartIsExpected, AtRest, SupType
  <2> QED
    BY <1>2, <1>3, <2>1, RestLaunch DEF BackoffElapsed, Due, Idle
<1>4. CASE sup' = s /\ UNCHANGED <<last, row, bot>>
  BY <1>2, <1>4, FieldsStep DEF BackoffElapsed, Due, Idle, procVars
<1> QED
  BY <1>3, <1>4 DEF BackoffElapsed, s

LEMMA RequestRestartStep == ASSUME SupInv, RequestRestart PROVE SupInv'
<1>1. sup \in SupType /\ TypeOK
  BY TypeParts DEF SupInv
<1>2. main # "down" /\ UNCHANGED <<main, boots, rec, agents>> /\ AgentStep
  BY <1>1, NoAgentStep DEF RequestRestart
<1>3. CASE sup.phase \in {"Starting", "Running"}
  <2> DEFINE timers == {"grace"} \cup IF sup.phase = "Starting"
                                      THEN sup.timers \ {"startDeadline", "livenessPoll"}
                                      ELSE sup.timers
  <2>1. timers \in SUBSET Timers
    BY <1>1 DEF SupType, Timers
  <2>2. /\ sup' = [sup EXCEPT !.phase = "Stopping", !.expectedStop = TRUE,
                              !.pendingRestart = TRUE, !.timers = timers]
        /\ row' = MarkStopping(sup.gen) /\ Sigterm(sup.child) /\ UNCHANGED last
    BY <1>3 DEF RequestRestart
  <2> HIDE DEF timers
  <2>3. /\ sup' \in SupType /\ sup'.gen = sup.gen /\ sup'.child = sup.child
        /\ sup'.since = sup.since /\ sup'.phase = "Stopping" /\ sup'.expectedStop
    BY <1>1, <2>1, <2>2 DEF SupType, Phases
  <2>4. ProcStep /\ signalled' \subseteq Gens /\ RowStep(row')
    BY <1>1, <2>2, SigtermIsProcStep, MarkStoppingIsRowStep
  <2> QED
    BY <1>2, <2>2, <2>3, <2>4, StopStep DEF AtRest, RestartIsExpected
<1>4. CASE /\ sup.phase \in {"Backoff", "Stopped", "Failed"}
           /\ Launch(IF sup.phase = "Backoff"
                     THEN Restarted([sup EXCEPT !.timers = @ \ {"backoff"}]) ELSE sup, row)
           /\ UNCHANGED <<signalled, exits>>
  <2> DEFINE s == IF sup.phase = "Backoff"
                  THEN Restarted([sup EXCEPT !.timers = @ \ {"backoff"}]) ELSE sup
  <2>1. AtRest(sup) /\ sup.pendingRestart = FALSE
    BY <1>1, <1>4 DEF SupInv, RestartIsExpected, AtRest, SupType
  <2>2. /\ s \in SupType /\ s.since = sup.since /\ s.child = sup.child
        /\ s.pendingRestart = FALSE
    BY <1>1, <2>1 DEF Restarted, SupType
  <2> HIDE DEF s
  <2>3. Launch(s, row)
    BY <1>4 DEF s
  <2> QED
    BY <1>2, <1>4, <2>1, <2>2, <2>3, RestLaunch
<1> QED
  BY <1>3, <1>4 DEF RequestRestart

\* The exit that is delivered is the last, and its generation is finalized and
\* reaped: nothing this run spawned is left.
LEMMA ExitIsLast ==
  ASSUME SupInv, NEW g \in exits, exits' = exits \ {g}, NEW status \in Ended,
         agents' = Reap(sup.gen)
  PROVE  /\ main # "down" /\ ~AtRest(sup) /\ g = sup.gen /\ g \in Gens
         /\ RowStep(Finalize(sup.gen, status)) /\ AgentStep
         /\ NothingLives(Finalize(sup.gen, status))
<1> DEFINE r == Finalize(sup.gen, status)
<1>1. TypeOK /\ g \in Gens /\ g = sup.gen /\ bot[g] = "dead" /\ main # "down" /\ ~AtRest(sup)
  BY DEF SupInv, ExitsAreOwn, TypeOK
<1>2. exits' = {}
  BY <1>1 DEF SupInv, ExitsAreOwn
<1>3. RowStep(r) /\ r[g].status \notin Open
  BY <1>1, FinalizeIsRowStep
<1>4. AgentStep /\ agents'[g] # "young"
  BY <1>1, ReapStep
<1> HIDE DEF r
<1>5. ASSUME NEW h \in Gens, h > sup.since
      PROVE  bot[h] \notin Living /\ agents'[h] # "young" /\ r[h].status # "running"
  <2>1. CASE h = g
    BY <1>1, <1>3, <1>4, <2>1 DEF Living, Open
  <2>2. CASE h # g
    <3>1. bot[h] \notin Living /\ agents[h] # "young" /\ row[h].status # "running"
      BY <1>1, <1>5, <2>2 DEF SupInv, LiveIsCurrent, OwnRows, ExitsAreOwn
    <3> QED
      BY <3>1, <1>3, <1>4 DEF RowStep, AgentStep
  <2> QED
    BY <2>1, <2>2
<1> QED
  BY <1>1, <1>2, <1>3, <1>4, <1>5 DEF r, NothingLives

\* The exit is delivered and no generation follows.
LEMMA ExitEnds ==
  ASSUME SupInv, NEW g \in exits, exits' = exits \ {g}, NEW status \in Ended,
         agents' = Reap(sup.gen), row' = Finalize(sup.gen, status),
         UNCHANGED <<main, boots, rec, last, bot, signalled>>,
         sup' \in SupType, sup'.gen = sup.gen, sup'.child = sup.child,
         sup'.since = sup.since, RestartIsExpected'
  PROVE  SupInv'
<1>1. /\ main # "down" /\ RowStep(row') /\ AgentStep /\ NothingLives(row')
  BY ExitIsLast
<1>2. RecStep
  BY <1>1, NoRecStep
<1>3. TypeOK'
  BY <1>1 DEF SupInv, TypeOK, SupType, RowStep, RowType, AgentStep, AgentsType
<1>4. Bounded'
  BY <1>1 DEF SupInv, TypeOK, Bounded, RowStep, AgentStep, Open
<1>5. LiveIsCurrent' /\ ExitsAreOwn' /\ OwnRows'
  BY <1>1 DEF LiveIsCurrent, ExitsAreOwn, OwnRows, NothingLives
<1>6. EarlierRows'
  BY <1>1, <1>2 DEF SupInv, EarlierRows, RecStep, RowStep
<1> QED
  BY <1>3, <1>4, <1>5, <1>6 DEF SupInv

LEMMA ExitObservedStep == ASSUME SupInv, NEW g \in Gens, ExitObserved(g) PROVE SupInv'
<1> DEFINE timers0 == sup.timers \ {"grace", "livenessPoll", "stableWindow"}
           quiet == [sup EXCEPT !.expectedStop = FALSE, !.timers = timers0]
<1>1. sup \in SupType /\ TypeOK /\ RestartIsExpected
  BY TypeParts DEF SupInv
<1>2. /\ g \in exits /\ exits' = exits \ {g}
      /\ UNCHANGED <<main, boots, rec, signalled>>
  BY DEF ExitObserved
<1>3. main # "down" /\ ~AtRest(sup) /\ g = sup.gen
  BY <1>1, <1>2 DEF SupInv, ExitsAreOwn
<1>4. agents' = Reap(sup.gen)
  BY <1>1, <1>3 DEF ExitObserved, AtRest, SupType, Phases
<1>5. /\ "stopped" \in Ended /\ CrashStatus(sup) \in Ended
  BY DEF Ended, CrashStatus
<1>6. /\ timers0 \in SUBSET Timers /\ quiet \in SupType
      /\ quiet.gen = sup.gen /\ quiet.child = sup.child /\ quiet.since = sup.since
      /\ quiet.pendingRestart = sup.pendingRestart /\ quiet.phase = sup.phase
  BY <1>1 DEF SupType
<1>7. CASE /\ sup.phase \in {"Starting", "Running"} /\ sup.expectedStop
           /\ sup' = [quiet EXCEPT !.phase = "Stopped",
                        !.timers = IF sup.phase = "Starting"
                                   THEN (sup.timers \cap {"grace", "backoff"})
                                   ELSE @]
           /\ row' = Finalize(sup.gen, "stopped")
           /\ UNCHANGED <<last, bot>>
  <2> DEFINE timers == IF sup.phase = "Starting"
                       THEN (sup.timers \cap {"grace", "backoff"}) ELSE timers0
  <2>1. timers \in SUBSET Timers
    BY <1>1, <1>6 DEF SupType
  <2>2. sup' = [sup EXCEPT !.expectedStop = FALSE, !.phase = "Stopped", !.timers = timers]
    BY <1>1, <1>7 DEF SupType
  <2> HIDE DEF timers, quiet, timers0
  <2>3. /\ sup' \in SupType /\ sup'.gen = sup.gen /\ sup'.child = sup.child
        /\ sup'.since = sup.since /\ sup'.pendingRestart = FALSE
    BY <1>1, <1>7, <2>1, <2>2 DEF SupType, Phases, RestartIsExpected
  <2> QED
    BY <1>2, <1>4, <1>5, <1>7, <2>3, ExitEnds DEF RestartIsExpected
<1>8. CASE /\ sup.phase \in {"Starting", "Running"} /\ ~sup.expectedStop
           /\ sup' = Crashed(sup)
           /\ row' = Finalize(sup.gen, CrashStatus(sup))
           /\ UNCHANGED <<last, bot>>
  <2>1. /\ sup' \in SupType /\ sup'.gen = sup.gen /\ sup'.child = sup.child
        /\ sup'.since = sup.since /\ sup'.pendingRestart = FALSE
    BY <1>1, <1>8, CrashedFields DEF RestartIsExpected, SupType
  <2> QED
    BY <1>2, <1>4, <1>5, <1>8, <2>1, ExitEnds DEF RestartIsExpected
<1>9. CASE /\ sup.phase = "Stopping" /\ sup.expectedStop /\ sup.pendingRestart
           /\ Launch(Restarted(quiet), Finalize(sup.gen, "stopped"))
  <2> DEFINE s == Restarted(quiet)
             r == Finalize(sup.gen, "stopped")
  <2>1. /\ s \in SupType /\ s.since = sup.since /\ s.child = sup.child
        /\ s.pendingRestart = FALSE
    BY <1>6 DEF Restarted, SupType
  <2>2. RowStep(r) /\ AgentStep /\ NothingLives(r)
    BY <1>2, <1>4, <1>5, ExitIsLast
  <2> HIDE DEF s, r
  <2>3. Launched(s, r)
    BY <1>1, <1>9, <2>1, <2>2, LaunchEffect DEF s, r, RowStep
  <2>4. TypeOK'
    BY <1>1, <1>2, <2>2, <2>3
    DEF TypeOK, Launched, SupType, RowType, BotType, Gens, AgentStep, AgentsType
  <2> QED
    BY <1>2, <1>3, <2>1, <2>2, <2>3, <2>4, NoRecStep, NextGeneration
<1>10. CASE /\ sup.phase = "Stopping" /\ sup.expectedStop /\ ~sup.pendingRestart
            /\ sup' = [quiet EXCEPT !.phase = "Stopped"]
            /\ row' = Finalize(sup.gen, "stopped")
            /\ UNCHANGED <<last, bot>>
  <2>1. /\ sup' \in SupType /\ sup'.gen = sup.gen /\ sup'.child = sup.child
        /\ sup'.since = sup.since /\ sup'.pendingRestart = FALSE
    BY <1>6, <1>10 DEF SupType, Phases
  <2> QED
    BY <1>2, <1>4, <1>5, <1>10, <2>1, ExitEnds DEF RestartIsExpected
<1>11. CASE /\ sup.phase = "Stopping" /\ ~sup.expectedStop
            /\ sup' = [quiet EXCEPT !.recent = @ + 1,
                         !.phase = IF CrashStatus(sup) = "failed" THEN "Failed" ELSE "Stopped"]
            /\ row' = Finalize(sup.gen, CrashStatus(sup))
            /\ UNCHANGED <<last, bot>>
  <2> DEFINE phase == IF CrashStatus(sup) = "failed" THEN "Failed" ELSE "Stopped"
  <2>1. phase \in Phases /\ quiet.recent + 1 \in Nat
    <3>1. phase \in Phases
      BY DEF Phases
    <3> HIDE DEF quiet, phase
    <3> QED
      BY <1>6, <3>1 DEF SupType
  <2>2. sup' = [quiet EXCEPT !.recent = quiet.recent + 1, !.phase = phase]
    BY <1>11
  <2> HIDE DEF phase, quiet
  <2>3. /\ sup' \in SupType /\ sup'.gen = sup.gen /\ sup'.child = sup.child
        /\ sup'.since = sup.since /\ sup'.pendingRestart = FALSE
    BY <1>1, <1>6, <1>11, <2>1, <2>2 DEF SupType, RestartIsExpected
  <2> QED
    BY <1>2, <1>4, <1>5, <1>11, <2>3, ExitEnds DEF RestartIsExpected
<1> QED
  BY <1>3, <1>7, <1>8, <1>9, <1>10, <1>11 DEF ExitObserved, AtRest

\* A step of the reconciliation, or of a bot, that leaves the machine alone.
LEMMA OtherStep ==
  ASSUME SupInv, UNCHANGED <<main, boots, sup, last>>, TypeOK',
         ProcStep, RowStep(row'), AgentStep, main # "down" => RecStep
  PROVE  SupInv'
<1>1. RestartIsExpected'
  BY DEF SupInv, RestartIsExpected
<1> QED
  BY <1>1, Quiet

LEMMA ReconcileCheckStep == ASSUME SupInv, NEW g \in Gens, ReconcileCheck(g) PROVE SupInv'
<1>1. TypeOK /\ main # "down" /\ rec.at = "check" /\ g \in rec.todo
  BY DEF SupInv, ReconcileCheck, NextRow
<1>2. RowStep(row') /\ AgentStep /\ ProcStep
  BY <1>1, FinalizeIsRowStep, SameRows, NoAgentStep, NoProcStep DEF ReconcileCheck, Ended
<1>3. RecStep
  BY <1>1, FinalizeIsRowStep DEF ReconcileCheck, RecStep, TypeOK, Ended
<1>4. TypeOK'
  BY <1>1, <1>2 DEF ReconcileCheck, TypeOK, RowStep, RowType
<1> QED
  BY <1>2, <1>3, <1>4, OtherStep DEF ReconcileCheck

LEMMA ReconcileIdentifyStep == ASSUME SupInv, NEW g \in Gens, ReconcileIdentify(g) PROVE SupInv'
<1>1. TypeOK /\ main # "down" /\ g \in rec.todo
  BY DEF SupInv, ReconcileIdentify, NextRow
<1>2. CASE /\ Sigterm(g)
           /\ rec' = [rec EXCEPT !.at = "kill"]
           /\ UNCHANGED row
  <2>1. RowStep(row') /\ AgentStep /\ ProcStep /\ signalled' \subseteq Gens
    BY <1>1, <1>2, SameRows, NoAgentStep, SigtermIsProcStep DEF ReconcileIdentify
  <2>2. RecStep
    BY <1>1, <1>2 DEF RecStep, TypeOK
  <2>3. TypeOK'
    BY <1>1, <1>2, <2>1 DEF ReconcileIdentify, TypeOK, ProcStep, BotType
  <2> QED
    BY <2>1, <2>2, <2>3, OtherStep DEF ReconcileIdentify
<1>3. CASE /\ rec' = [rec EXCEPT !.at = "check", !.todo = @ \ {g}]
           /\ row' = Finalize(g, "crashed")
           /\ UNCHANGED procVars
  <2>1. RowStep(row') /\ AgentStep /\ ProcStep /\ row'[g].status \notin Open
    BY <1>1, <1>3, FinalizeIsRowStep, NoAgentStep, NoProcStep
    DEF ReconcileIdentify, Ended, procVars
  <2>2. RecStep
    BY <1>1, <1>3, <2>1 DEF RecStep, TypeOK
  <2>3. TypeOK'
    BY <1>1, <1>3, <2>1 DEF ReconcileIdentify, TypeOK, RowStep, RowType, procVars
  <2> QED
    BY <2>1, <2>2, <2>3, OtherStep DEF ReconcileIdentify
<1> QED
  BY <1>2, <1>3 DEF ReconcileIdentify

LEMMA ReconcileKillStep == ASSUME SupInv, NEW g \in Gens, ReconcileKill(g) PROVE SupInv'
<1>1. TypeOK /\ main # "down" /\ g \in rec.todo
  BY DEF SupInv, ReconcileKill, NextRow
<1>2. RowStep(row') /\ AgentStep /\ ProcStep /\ signalled' \subseteq Gens
  BY <1>1, FinalizeIsRowStep, NoAgentStep, SigkillIsProcStep DEF ReconcileKill, Ended
<1>3. RecStep
  BY <1>1, FinalizeIsRowStep DEF ReconcileKill, RecStep, TypeOK, Ended
<1>4. TypeOK'
  BY <1>1, <1>2 DEF ReconcileKill, TypeOK, RowStep, RowType, ProcStep, BotType
<1> QED
  BY <1>2, <1>3, <1>4, OtherStep DEF ReconcileKill

-----------------------------------------------------------------------------
(***************************************************************************)
(* The bot's actions.                                                      *)
(***************************************************************************)

\* A process of the bot ends.
LEMMA DiesStep ==
  ASSUME SupInv, NEW g \in Gens, bot[g] \in Living, Dies(g),
         UNCHANGED <<main, boots, sup, rec, last, row, signalled, agents>>
  PROVE  SupInv'
<1>1. TypeOK
  BY DEF SupInv
<1>2. RowStep(row') /\ AgentStep /\ ProcStep /\ (main # "down" => RecStep)
  BY <1>1, SameRows, NoAgentStep, DiesIsProcStep, NoRecStep
<1>3. TypeOK'
  BY <1>1, <1>2 DEF TypeOK, ProcStep, BotType
<1> QED
  BY <1>2, <1>3, OtherStep

LEMMA BotInitStep == ASSUME SupInv, NEW g \in Gens, BotInit(g) PROVE SupInv'
<1>1. CASE bot' = [bot EXCEPT ![g] = "connecting"] /\ UNCHANGED exits
  <2>1. g <= last
    BY DEF SupInv, TypeOK, Bounded, BotInit, Gens
  <2>2. TypeOK'
    BY <1>1 DEF SupInv, TypeOK, BotInit, Living
  <2>3. Bounded' /\ LiveIsCurrent'
    BY <1>1, <2>1 DEF SupInv, TypeOK, Bounded, LiveIsCurrent, BotInit, Living
  <2>4. ExitsAreOwn' /\ OwnRows'
    BY <1>1 DEF SupInv, TypeOK, ExitsAreOwn, OwnRows, BotInit, Living
  <2>5. RestartIsExpected' /\ EarlierRows'
    BY DEF SupInv, RestartIsExpected, EarlierRows, BotInit
  <2> QED
    BY <2>2, <2>3, <2>4, <2>5 DEF SupInv
<1>2. CASE Dies(g)
  BY <1>2, DiesStep DEF BotInit, Living
<1> QED
  BY <1>1, <1>2 DEF BotInit

LEMMA BotReadyStep == ASSUME SupInv, NEW g \in Gens, BotReady(g) PROVE SupInv'
<1>0. g <= last /\ bot[g] = "connecting"
  BY DEF SupInv, TypeOK, Bounded, BotReady, Gens
<1>1. CASE /\ MayMarkRunning(g)
           /\ row' = [row EXCEPT ![g] = [status |-> "running", pid |-> TRUE]]
           /\ bot' = [bot EXCEPT ![g] = "serving"]
           /\ UNCHANGED signalled
  <2>1. TypeOK'
    BY <1>1 DEF SupInv, TypeOK, BotReady, Living, Open
  <2>2. Bounded' /\ LiveIsCurrent'
    BY <1>0, <1>1 DEF SupInv, TypeOK, Bounded, LiveIsCurrent, BotReady, Living
  <2>3. ExitsAreOwn' /\ OwnRows'
    BY <1>0, <1>1 DEF SupInv, TypeOK, ExitsAreOwn, OwnRows, BotReady, Living
  <2>4. EarlierRows'
    BY <1>1 DEF SupInv, TypeOK, EarlierRows, BotReady, MayMarkRunning, Open
  <2>5. RestartIsExpected'
    BY DEF SupInv, RestartIsExpected, BotReady
  <2> QED
    BY <2>1, <2>2, <2>3, <2>4, <2>5 DEF SupInv
<1>2. CASE signalled' = signalled \cup {g} /\ UNCHANGED <<row, bot>>
  BY <1>2 DEF SupInv, TypeOK, BotReady, Bounded, LiveIsCurrent, ExitsAreOwn,
    RestartIsExpected, EarlierRows, OwnRows
<1> QED
  BY <1>1, <1>2 DEF BotReady

LEMMA BotShutdownStep == ASSUME SupInv, NEW g \in Gens, BotShutdown(g) PROVE SupInv'
<1> DEFINE r == Finalize(g, "stopped")
<1>0. g <= last /\ bot[g] \in {"connecting", "serving"} /\ TypeOK
  BY DEF SupInv, TypeOK, Bounded, BotShutdown, Gens
<1>1. RowStep(r) /\ row' = r
  BY <1>0, FinalizeIsRowStep DEF BotShutdown, Ended
<1> HIDE DEF r
<1>2. TypeOK'
  BY <1>0, <1>1 DEF TypeOK, BotShutdown, RowStep, RowType, Living
<1>3. Bounded' /\ LiveIsCurrent'
  BY <1>0, <1>1 DEF SupInv, TypeOK, Bounded, LiveIsCurrent, BotShutdown, Living,
    RowStep, Open
<1>4. ExitsAreOwn' /\ OwnRows'
  BY <1>0, <1>1 DEF SupInv, TypeOK, ExitsAreOwn, OwnRows, BotShutdown, Living, RowStep
<1>5. EarlierRows' /\ RestartIsExpected'
  BY <1>0, <1>1 DEF SupInv, EarlierRows, RestartIsExpected, BotShutdown, RowStep
<1> QED
  BY <1>2, <1>3, <1>4, <1>5 DEF SupInv

LEMMA BotExitsStep == ASSUME SupInv, NEW g \in Gens, BotExits(g) PROVE SupInv'
BY DiesStep DEF BotExits, Living

LEMMA BotCrashesStep == ASSUME SupInv, NEW g \in Gens, BotCrashes(g) PROVE SupInv'
BY DiesStep DEF BotCrashes

\* An agent starts only in a live bot, so it is the current generation's.
LEMMA AgentStartsStep == ASSUME SupInv, NEW g \in Gens, AgentStarts(g) PROVE SupInv'
<1>0. g <= last /\ bot[g] \in Living
  BY DEF SupInv, TypeOK, Bounded, AgentStarts, Gens, Living
<1>1. TypeOK'
  BY DEF SupInv, TypeOK, AgentStarts, procVars
<1>2. Bounded' /\ LiveIsCurrent'
  BY <1>0 DEF SupInv, TypeOK, Bounded, LiveIsCurrent, AgentStarts, procVars
<1>3. ExitsAreOwn' /\ OwnRows' /\ RestartIsExpected' /\ EarlierRows'
  BY DEF SupInv, ExitsAreOwn, OwnRows, RestartIsExpected, EarlierRows, AgentStarts, procVars
<1> QED
  BY <1>1, <1>2, <1>3 DEF SupInv

LEMMA AgentGoesStep ==
  ASSUME SupInv, NEW g \in Gens, AgentEnds(g) \/ AgentAges(g)
  PROVE  SupInv'
<1>1. TypeOK' /\ TypeOK /\ UNCHANGED <<main, boots, sup, rec, last, row, bot, exits>>
  BY DEF SupInv, TypeOK, AgentEnds, AgentAges, procVars
<1>2. AgentStep
  BY <1>1 DEF TypeOK, AgentStep, AgentsType, AgentEnds, AgentAges
<1>3. RowStep(row') /\ ProcStep /\ (main # "down" => RecStep)
  BY <1>1, SameRows, NoProcStep, NoRecStep
<1> QED
  BY <1>1, <1>2, <1>3, OtherStep

-----------------------------------------------------------------------------
(***************************************************************************)
(* The rows, and who serves. The invariant stands on SupInv.               *)
(***************************************************************************)

\* A bot's life is known to whoever reconciles its row: `ps` answers, and the row
\* does not become running between its read and its finalization.
BotsAreKnown == faults \cap {"ps_fails", "boot_ready"} = {}

\* What is reconciled are rows of earlier runs; of the rows of this run only the
\* current generation's is open, and none is when the machine is at rest.
OwnRowIsCurrent ==
  main # "down" =>
    /\ \A g \in rec.todo : g <= sup.since
    /\ sup.child # 0 => sup.child > sup.since
    /\ \A g \in Gens : IsOpen(g) /\ g > sup.since => g = sup.gen /\ ~AtRest(sup)

\* A bot serves under an open row with its pid, and the reconciliation of a row of
\* an earlier run knows it: so it is killed before its row is finalized.
ServingIsRecorded ==
  BotsAreKnown =>
    \A g \in Gens : bot[g] = "serving" =>
      /\ IsOpen(g) /\ row[g].pid
      /\ main # "down" /\ g <= sup.since => g \in rec.known

\* Nothing is launched while rows are reconciled.
NoStartWhileReconciling ==
  "boot_restart" \notin faults /\ main # "down" /\ rec.at # "done" =>
    AtRest(sup) /\ sup.timers = {}

\* Serving, or on the way to it: nothing keeps the bot from marking its row.
Candidate(g) ==
  \/ bot[g] = "serving"
  \/ bot[g] \in {"booting", "connecting"} /\ row[g].status = "starting"

OneCandidate ==
  BotsAreKnown /\ "boot_restart" \notin faults =>
    \A g, h \in Gens : Candidate(g) /\ Candidate(h) => g = h

AgreeInv ==
  /\ OwnRowIsCurrent /\ ServingIsRecorded
  /\ NoStartWhileReconciling /\ OneCandidate

(* Two ways to keep it: without a launch, and with one. *)

\* No row is opened, none becomes starting, and no bot begins to serve.
NoneBegins ==
  /\ \A h \in Gens : IsOpen(h)' => IsOpen(h)
  /\ \A h \in Gens : row'[h].status = "starting" => row[h].status = "starting"
  /\ \A h \in Gens : bot'[h] # bot[h] => bot'[h] \notin {"booting", "serving"}
  /\ \A h \in Gens : bot'[h] = "connecting" => bot[h] \in {"booting", "connecting"}

\* The row of a bot that serves is closed only by the bot.
ServedRowsKept ==
  BotsAreKnown =>
    \A h \in Gens : bot'[h] = "serving" /\ IsOpen(h) =>
      IsOpen(h)' /\ row'[h].pid = row[h].pid

LEMMA QuietAgrees ==
  ASSUME SupInv, AgreeInv, UNCHANGED faults, main' # "down" <=> main # "down",
         sup'.gen = sup.gen, sup'.child = sup.child, sup'.since = sup.since,
         main # "down" => /\ rec'.todo \subseteq rec.todo /\ rec'.known = rec.known
                          /\ AtRest(sup') /\ sup.gen \in Gens =>
                               AtRest(sup) \/ ~IsOpen(sup.gen)',
         NoneBegins, ServedRowsKept, NoStartWhileReconciling'
  PROVE  AgreeInv'
<1>1. OwnRowIsCurrent'
  BY DEF AgreeInv, OwnRowIsCurrent, NoneBegins
<1>2. ServingIsRecorded'
  BY DEF AgreeInv, ServingIsRecorded, NoneBegins, ServedRowsKept, BotsAreKnown
<1>3. \A h \in Gens : Candidate(h)' => Candidate(h)
  BY DEF Candidate, NoneBegins
<1>4. OneCandidate'
  BY <1>3 DEF AgreeInv, OneCandidate, BotsAreKnown
<1> QED
  BY <1>1, <1>2, <1>4 DEF AgreeInv

\* What the processes do by themselves or by signals, with the rows left or closed.
LEMMA NoneBeginsFrom ==
  ASSUME TypeOK, ProcStep, RowStep(row'),
         \A h \in Gens : row'[h].status = "starting" => row[h].status = "starting"
  PROVE  NoneBegins
BY DEF TypeOK, ProcStep, Ended1, RowStep, NoneBegins, IsOpen, Living

LEMMA SameRowsServe ==
  ASSUME UNCHANGED row
  PROVE  /\ ServedRowsKept
         /\ \A h \in Gens : row'[h].status = "starting" => row[h].status = "starting"
BY DEF ServedRowsKept, IsOpen

LEMMA FinalizeServes ==
  ASSUME TypeOK, NEW g, NEW status \in Ended, row' = Finalize(g, status),
         BotsAreKnown /\ g \in Gens => bot'[g] # "serving"
  PROVE  /\ ServedRowsKept
         /\ \A h \in Gens : row'[h].status = "starting" => row[h].status = "starting"
BY DEF TypeOK, Finalize, ServedRowsKept, IsOpen, Ended

LEMMA MarkStoppingServes ==
  ASSUME TypeOK, NEW g, row' = MarkStopping(g)
  PROVE  /\ ServedRowsKept
         /\ \A h \in Gens : row'[h].status = "starting" => row[h].status = "starting"
BY DEF TypeOK, MarkStopping, ServedRowsKept, IsOpen, Open

\* With a launch nothing of this run lives, and no row of it is open; nor does
\* anything of an earlier run serve or begin to.
LEMMA LaunchAgrees ==
  ASSUME SupInv, AgreeInv, UNCHANGED <<faults, main>>, main # "down",
         NEW s, NEW r, Launched(s, r), NothingLives(r),
         \A h \in Gens : h > sup.since => r[h].status \notin Open,
         \A h \in Gens : h <= sup.since => r[h] = row[h],
         s.since = sup.since, s.child = sup.child,
         rec' = rec \/ (rec' = NotReconciling /\ rec.todo = {}),
         "boot_restart" \notin faults => rec'.at = "done" /\ rec.todo = {}
  PROVE  AgreeInv'
<1>0. /\ last \in 0..MaxGenerations /\ sup.since \in 0..MaxGenerations
      /\ sup.since <= last /\ sup'.since = sup.since
      /\ last' = last + 1 /\ last' > sup.since
  BY TypeParts DEF SupInv, SupType, Bounded, Launched
<1>1. OwnRowIsCurrent'
  <2>1. \A g \in rec'.todo : g <= sup'.since
    BY <1>0 DEF AgreeInv, OwnRowIsCurrent, NotReconciling
  <2>2. sup'.child # 0 => sup'.child > sup'.since
    BY <1>0 DEF AgreeInv, OwnRowIsCurrent, Launched
  <2>3. ASSUME NEW g \in Gens, IsOpen(g)', g > sup'.since
        PROVE  g = sup'.gen /\ ~AtRest(sup')
    <3>1. g = last'
      BY <1>0, <2>3 DEF Launched, IsOpen
    <3> QED
      BY <2>3, <3>1 DEF Launched, IsOpen, Open, AtRest
  <2> QED
    BY <2>1, <2>2, <2>3 DEF OwnRowIsCurrent
<1>2. ASSUME NEW g \in Gens, g # last', bot'[g] \in Living
      PROVE  g <= sup.since /\ row'[g] = row[g] /\ bot'[g] = bot[g]
  <2>1. bot'[g] = bot[g] /\ row'[g] = r[g]
    BY <1>2 DEF Launched
  <2>2. ~(g > sup.since)
    BY <1>2, <2>1 DEF NothingLives
  <2> QED
    BY <1>0, <2>1, <2>2 DEF Gens
<1>3. ServingIsRecorded'
  <2> SUFFICES ASSUME BotsAreKnown, NEW g \in Gens, bot'[g] = "serving"
               PROVE  /\ IsOpen(g)' /\ row'[g].pid
                      /\ main' # "down" /\ g <= sup'.since => g \in rec'.known
    BY DEF ServingIsRecorded, BotsAreKnown
  <2>1. g # last'
    BY DEF Launched
  <2>2. g <= sup.since /\ row'[g] = row[g] /\ bot[g] = "serving"
    BY <1>2, <2>1 DEF Living
  <2>3. IsOpen(g) /\ row[g].pid /\ g \in rec.known
    BY <2>2 DEF AgreeInv, ServingIsRecorded
  <2>4. g \in rec.todo
    BY <2>2, <2>3 DEF SupInv, EarlierRows, IsOpen
  <2> QED
    BY <2>2, <2>3, <2>4 DEF IsOpen
<1>4. OneCandidate'
  <2> SUFFICES ASSUME BotsAreKnown, "boot_restart" \notin faults,
                      NEW g \in Gens, Candidate(g)', g # last'
               PROVE  FALSE
    BY DEF OneCandidate, BotsAreKnown
  <2>1. g <= sup.since /\ row'[g] = row[g] /\ bot'[g] = bot[g]
    BY <1>2 DEF Candidate, Living
  <2>2. ~IsOpen(g)
    BY <2>1 DEF SupInv, EarlierRows, IsOpen
  <2> QED
    BY <2>1, <2>2 DEF Candidate, AgreeInv, ServingIsRecorded, IsOpen, Open
<1>5. NoStartWhileReconciling'
  BY DEF NoStartWhileReconciling
<1> QED
  BY <1>1, <1>3, <1>4, <1>5 DEF AgreeInv

\* A launch out of a phase at rest.
LEMMA RestLaunchAgrees ==
  ASSUME SupInv, AgreeInv, UNCHANGED <<faults, main>>, main # "down", AtRest(sup),
         UNCHANGED <<exits, agents>>, NEW s \in SupType,
         s.since = sup.since, s.child = sup.child, Launch(s, row),
         rec' = rec \/ (rec' = NotReconciling /\ rec.todo = {}),
         "boot_restart" \notin faults => rec'.at = "done" /\ rec.todo = {}
  PROVE  AgreeInv'
<1>1. row \in RowType /\ TypeOK
  BY TypeParts DEF SupInv
<1>2. Launched(s, row) /\ NothingLives(row)
  BY <1>1, LaunchEffect, AtRestNothingLives
<1>3. \A h \in Gens : h > sup.since => row[h].status \notin Open
  BY DEF AgreeInv, OwnRowIsCurrent, IsOpen
<1> QED
  BY <1>2, <1>3, LaunchAgrees

(* The main server's actions. *)

LEMMA MainBootAgrees ==
  ASSUME SupInv, AgreeInv, UNCHANGED faults, MainBoot
  PROVE  AgreeInv'
<1>1. /\ main' # "down" /\ UNCHANGED <<last, row, bot>>
      /\ sup'.since = last /\ sup'.child = 0 /\ AtRest(sup') /\ sup'.timers = {}
      /\ rec'.todo = {g \in Gens : IsOpen(g)} /\ rec'.known = {g \in Gens : row[g].pid}
  BY DEF MainBoot, InitialSup, AtRest
<1>2. \A g \in Gens : IsOpen(g) => g <= last
  BY DEF SupInv, TypeOK, Bounded, IsOpen, Open, Gens
<1>3. OwnRowIsCurrent'
  BY <1>1, <1>2 DEF SupInv, TypeOK, OwnRowIsCurrent, IsOpen, Gens
<1>4. ServingIsRecorded'
  BY <1>1 DEF AgreeInv, ServingIsRecorded, IsOpen, BotsAreKnown
<1>5. OneCandidate'
  BY <1>1 DEF AgreeInv, OneCandidate, Candidate, BotsAreKnown
<1> QED
  BY <1>1, <1>3, <1>4, <1>5 DEF AgreeInv, NoStartWhileReconciling

LEMMA MainDiesAgrees ==
  ASSUME SupInv, AgreeInv, UNCHANGED faults, MainDies
  PROVE  AgreeInv'
<1>1. main' = "down" /\ UNCHANGED <<row, bot>>
  BY DEF MainDies
<1> QED
  BY <1>1 DEF AgreeInv, OwnRowIsCurrent, ServingIsRecorded, NoStartWhileReconciling,
    OneCandidate, Candidate, IsOpen, BotsAreKnown

\* A step that leaves the rows alone and only changes the service's fields, or
\* signals processes.
LEMMA SameRowsAgree ==
  ASSUME SupInv, AgreeInv, UNCHANGED <<faults, main, rec, row>>, ProcStep,
         sup'.gen = sup.gen, sup'.child = sup.child, sup'.since = sup.since,
         AtRest(sup') => AtRest(sup), NoStartWhileReconciling'
  PROVE  AgreeInv'
<1>1. TypeOK /\ RowStep(row')
  BY SameRows DEF SupInv
<1>2. NoneBegins /\ ServedRowsKept
  BY <1>1, SameRowsServe, NoneBeginsFrom
<1> QED
  BY <1>2, QuietAgrees

LEMMA MainClosesAgrees ==
  ASSUME SupInv, AgreeInv, UNCHANGED faults, MainCloses
  PROVE  AgreeInv'
<1>1. sup \in SupType /\ TypeOK
  BY TypeParts DEF SupInv
<1>2. ProcStep
  BY <1>1, SigtermIsProcStep, NoProcStep DEF MainCloses, procVars
<1>3. /\ sup'.gen = sup.gen /\ sup'.child = sup.child /\ sup'.since = sup.since
      /\ sup'.phase = sup.phase /\ sup'.timers = {}
  BY <1>1 DEF MainCloses, SupType
<1>4. NoneBegins /\ ServedRowsKept
  BY <1>1, <1>2, SameRows, SameRowsServe, NoneBeginsFrom DEF MainCloses
<1>5. NoStartWhileReconciling'
  BY <1>3 DEF AgreeInv, NoStartWhileReconciling, MainCloses, AtRest
<1>6. main # "down" /\ main' # "down" /\ UNCHANGED rec /\ (AtRest(sup') => AtRest(sup))
  BY <1>3 DEF MainCloses, AtRest
<1> QED
  BY <1>3, <1>4, <1>5, <1>6, QuietAgrees

\* A timer is due, or an exit delivered, only when no rows are reconciled.
LEMMA DueIsAfterwards ==
  ASSUME AgreeInv, UNCHANGED <<faults, main, rec>>,
         sup.timers # {} \/ ~AtRest(sup)
  PROVE  /\ NoStartWhileReconciling'
         /\ "boot_restart" \notin faults /\ main # "down" => rec.at = "done"
BY DEF AgreeInv, NoStartWhileReconciling

LEMMA NoLaunchTimersAgree ==
  ASSUME SupInv, AgreeInv, UNCHANGED faults,
         LivenessPoll \/ StableWindowElapsed \/ GraceTimeout \/ WindowPasses
  PROVE  AgreeInv'
<1>1. sup \in SupType /\ TypeOK
  BY TypeParts DEF SupInv
<1>2. UNCHANGED <<main, rec, row>>
  BY DEF LivenessPoll, StableWindowElapsed, GraceTimeout, WindowPasses
<1>3. ProcStep
  BY <1>1, SigkillIsProcStep, NoProcStep
  DEF LivenessPoll, StableWindowElapsed, GraceTimeout, WindowPasses, procVars
<1>4. /\ sup'.gen = sup.gen /\ sup'.child = sup.child /\ sup'.since = sup.since
      /\ sup'.phase = sup.phase \/ sup'.phase = "Running"
  <2>1. CASE LivenessPoll
    BY <1>1, <2>1 DEF LivenessPoll, Lapses, SupType
  <2>2. CASE StableWindowElapsed
    BY <1>1, <2>2 DEF StableWindowElapsed, Lapses, SupType
  <2>3. CASE GraceTimeout
    BY <1>1, <2>3 DEF GraceTimeout, Lapses, SupType
  <2>4. CASE WindowPasses
    BY <1>1, <2>4 DEF WindowPasses, SupType
  <2> QED
    BY <2>1, <2>2, <2>3, <2>4
<1>5. NoStartWhileReconciling'
  <2>1. CASE WindowPasses
    <3>1. sup'.phase = sup.phase /\ sup'.timers = sup.timers
      BY <1>1, <2>1 DEF WindowPasses, SupType
    <3> QED
      BY <1>2, <3>1 DEF AgreeInv, NoStartWhileReconciling, AtRest
  <2>2. CASE ~WindowPasses
    <3>1. sup.timers # {}
      BY <2>2 DEF LivenessPoll, StableWindowElapsed, GraceTimeout, Due
    <3> QED
      BY <1>2, <3>1, DueIsAfterwards
  <2> QED
    BY <2>1, <2>2
<1> QED
  BY <1>2, <1>3, <1>4, <1>5, SameRowsAgree DEF AtRest

LEMMA StartTimeoutAgrees ==
  ASSUME SupInv, AgreeInv, UNCHANGED faults, StartTimeout
  PROVE  AgreeInv'
<1>1. sup \in SupType /\ TypeOK
  BY TypeParts DEF SupInv
<1>2. UNCHANGED <<main, rec>> /\ sup.timers # {}
  BY DEF StartTimeout, Due
<1>3. RowStep(row') /\ ProcStep
  BY <1>1, SigtermIsProcStep, NoProcStep, MarkStoppingIsRowStep, SameRows
  DEF StartTimeout, procVars
<1>4. /\ sup'.gen = sup.gen /\ sup'.child = sup.child /\ sup'.since = sup.since
      /\ sup'.phase = sup.phase \/ sup'.phase = "Stopping"
  BY <1>1 DEF StartTimeout, Lapses, SupType
<1>5. /\ ServedRowsKept
      /\ \A h \in Gens : row'[h].status = "starting" => row[h].status = "starting"
  BY <1>1, MarkStoppingServes, SameRowsServe DEF StartTimeout
<1>6. NoneBegins /\ NoStartWhileReconciling'
  BY <1>1, <1>2, <1>3, <1>5, NoneBeginsFrom, DueIsAfterwards
<1> QED
  BY <1>2, <1>4, <1>5, <1>6, QuietAgrees DEF AtRest

LEMMA StartRequestedAgrees ==
  ASSUME SupInv, AgreeInv, UNCHANGED faults, StartRequested
  PROVE  AgreeInv'
<1>1. sup \in SupType /\ TypeOK
  BY TypeParts DEF SupInv
<1>2. /\ main # "down" /\ UNCHANGED <<main, signalled, exits, agents>>
      /\ rec.todo = {} /\ rec' = NotReconciling /\ rec'.at = "done"
  BY DEF StartRequested, NotReconciling
<1>3. CASE MayStart(sup) /\ Launch(sup, row)
  BY <1>1, <1>2, <1>3, RestLaunchAgrees DEF MayStart, AtRest
<1>4. CASE UNCHANGED <<sup, last, row, bot>>
  <2>1. OwnRowIsCurrent' /\ NoStartWhileReconciling' /\ OneCandidate'
    BY <1>2, <1>4 DEF AgreeInv, OwnRowIsCurrent, NoStartWhileReconciling, OneCandidate,
      Candidate, IsOpen, BotsAreKnown, NotReconciling
  <2>2. ServingIsRecorded'
    <3>1. ASSUME BotsAreKnown, NEW g \in Gens, bot[g] = "serving"
          PROVE  IsOpen(g) /\ row[g].pid /\ ~(g <= sup.since)
      BY <1>2, <3>1 DEF AgreeInv, ServingIsRecorded, SupInv, EarlierRows, IsOpen
    <3> QED
      BY <1>4, <3>1 DEF ServingIsRecorded, IsOpen, BotsAreKnown
  <2> QED
    BY <2>1, <2>2 DEF AgreeInv
<1> QED
  BY <1>3, <1>4 DEF StartRequested

LEMMA BackoffElapsedAgrees ==
  ASSUME SupInv, AgreeInv, UNCHANGED faults, BackoffElapsed
  PROVE  AgreeInv'
<1> DEFINE s == Lapses("backoff")
<1>1. sup \in SupType /\ TypeOK
  BY TypeParts DEF SupInv
<1>2. /\ s \in SupType /\ s.since = sup.since /\ s.child = sup.child /\ s.gen = sup.gen
      /\ s.phase = sup.phase
  BY <1>1 DEF Lapses, SupType
<1> HIDE DEF s
<1>3. /\ main # "down" /\ sup.timers # {}
      /\ UNCHANGED <<main, rec, signalled, exits, agents>>
  BY DEF BackoffElapsed, Due, Idle
<1>4. /\ NoStartWhileReconciling'
      /\ "boot_restart" \notin faults => rec.at = "done" /\ rec.todo = {}
  BY <1>3, DueIsAfterwards DEF SupInv, EarlierRows
<1>5. CASE sup.phase = "Backoff" /\ Launch(s, row)
  BY <1>2, <1>3, <1>4, <1>5, RestLaunchAgrees DEF AtRest
<1>6. CASE sup' = s /\ UNCHANGED <<last, row, bot>>
  BY <1>1, <1>2, <1>3, <1>4, <1>6, NoProcStep, SameRowsAgree DEF AtRest
<1> QED
  BY <1>5, <1>6 DEF BackoffElapsed, s

LEMMA RequestRestartAgrees ==
  ASSUME SupInv, AgreeInv, UNCHANGED faults, RequestRestart
  PROVE  AgreeInv'
<1>1. sup \in SupType /\ TypeOK
  BY TypeParts DEF SupInv
<1>2. /\ main # "down" /\ UNCHANGED <<main, rec, agents>>
      /\ "boot_restart" \notin faults => rec.at = "done"
  BY DEF RequestRestart
<1>3. CASE sup.phase \in {"Starting", "Running"}
  <2>1. /\ sup'.gen = sup.gen /\ sup'.child = sup.child /\ sup'.since = sup.since
        /\ sup'.phase = "Stopping"
        /\ row' = MarkStopping(sup.gen) /\ Sigterm(sup.child)
    BY <1>1, <1>3 DEF RequestRestart, SupType
  <2>2. ProcStep /\ RowStep(row')
    BY <1>1, <2>1, SigtermIsProcStep, MarkStoppingIsRowStep
  <2>3. /\ ServedRowsKept
        /\ \A h \in Gens : row'[h].status = "starting" => row[h].status = "starting"
    BY <1>1, <2>1, MarkStoppingServes
  <2>4. NoneBegins /\ NoStartWhileReconciling'
    BY <1>1, <1>2, <2>2, <2>3, NoneBeginsFrom DEF NoStartWhileReconciling
  <2> QED
    BY <1>2, <2>1, <2>3, <2>4, QuietAgrees DEF AtRest
<1>4. CASE /\ sup.phase \in {"Backoff", "Stopped", "Failed"}
           /\ Launch(IF sup.phase = "Backoff"
                     THEN Restarted([sup EXCEPT !.timers = @ \ {"backoff"}]) ELSE sup, row)
           /\ UNCHANGED <<signalled, exits>>
  <2> DEFINE s == IF sup.phase = "Backoff"
                  THEN Restarted([sup EXCEPT !.timers = @ \ {"backoff"}]) ELSE sup
  <2>1. s \in SupType /\ s.since = sup.since /\ s.child = sup.child
    BY <1>1 DEF Restarted, SupType
  <2> HIDE DEF s
  <2>2. Launch(s, row) /\ AtRest(sup)
    BY <1>4 DEF s, AtRest
  <2>3. "boot_restart" \notin faults => rec.at = "done" /\ rec.todo = {}
    BY <1>2 DEF SupInv, EarlierRows
  <2> QED
    BY <1>2, <1>4, <2>1, <2>2, <2>3, RestLaunchAgrees
<1> QED
  BY <1>3, <1>4 DEF RequestRestart

\* The exit that is delivered is the current generation's, which is finalized.
LEMMA ExitObservedAgrees ==
  ASSUME SupInv, AgreeInv, UNCHANGED faults, NEW g \in Gens, ExitObserved(g)
  PROVE  AgreeInv'
<1> DEFINE timers0 == sup.timers \ {"grace", "livenessPoll", "stableWindow"}
           quiet == [sup EXCEPT !.expectedStop = FALSE, !.timers = timers0]
<1>1. sup \in SupType /\ TypeOK /\ RestartIsExpected
  BY TypeParts DEF SupInv
<1>2. /\ g \in exits /\ exits' = exits \ {g}
      /\ UNCHANGED <<main, boots, rec, signalled>>
  BY DEF ExitObserved
<1>3. /\ main # "down" /\ ~AtRest(sup) /\ g = sup.gen /\ bot[g] = "dead"
      /\ g > sup.since
  BY <1>1, <1>2 DEF SupInv, ExitsAreOwn
<1>4. agents' = Reap(sup.gen)
  BY <1>1, <1>3 DEF ExitObserved, AtRest, SupType, Phases
<1>5. /\ "stopped" \in Ended /\ CrashStatus(sup) \in Ended
  BY DEF Ended, CrashStatus
<1>6. /\ quiet \in SupType /\ quiet.gen = sup.gen /\ quiet.child = sup.child
      /\ quiet.since = sup.since
  BY <1>1 DEF SupType
<1>7. /\ NoStartWhileReconciling'
      /\ "boot_restart" \notin faults => rec.at = "done" /\ rec.todo = {}
  BY <1>2, <1>3, DueIsAfterwards DEF SupInv, EarlierRows
<1>8. ASSUME NEW status \in Ended, row' = Finalize(sup.gen, status), UNCHANGED bot,
             sup'.gen = sup.gen, sup'.child = sup.child, sup'.since = sup.since
      PROVE  AgreeInv'
  <2>1. /\ RowStep(row') /\ ~IsOpen(sup.gen)'
    BY <1>1, <1>3, <1>8, FinalizeIsRowStep DEF IsOpen
  <2>2. bot'[sup.gen] # "serving"
    BY <1>3, <1>8
  <2>3. /\ ServedRowsKept
        /\ \A h \in Gens : row'[h].status = "starting" => row[h].status = "starting"
    BY <1>1, <1>8, <2>2, FinalizeServes
  <2>4. \A h \in Gens : IsOpen(h)' => IsOpen(h)
    BY <2>1 DEF RowStep, IsOpen
  <2>5. NoneBegins
    BY <1>8, <2>3, <2>4 DEF NoneBegins
  <2> QED
    BY <1>2, <1>7, <1>8, <2>1, <2>3, <2>5, QuietAgrees
<1>9. CASE Launch(Restarted(quiet), Finalize(sup.gen, "stopped"))
  <2> DEFINE s == Restarted(quiet)
             r == Finalize(sup.gen, "stopped")
  <2>1. s \in SupType /\ s.since = sup.since /\ s.child = sup.child
    BY <1>6 DEF Restarted, SupType
  <2>2. RowStep(r) /\ NothingLives(r)
    BY <1>2, <1>4, <1>5, ExitIsLast
  <2>3. \A h \in Gens : h > sup.since => r[h].status \notin Open
    <3>1. r[g].status \notin Open
      BY <1>1, <1>3, <1>5, FinalizeIsRowStep
    <3>2. \A h \in Gens : r[h].status \in Open => IsOpen(h)
      BY <1>1, <1>5, FinalizeIsRowStep
    <3> QED
      BY <1>3, <3>1, <3>2 DEF AgreeInv, OwnRowIsCurrent
  <2>4. \A h \in Gens : h <= sup.since => r[h] = row[h]
    <3>1. \A h \in Gens : h # sup.gen => r[h] = row[h]
      BY DEF Finalize
    <3> QED
      BY <1>1, <1>3, <3>1 DEF Gens, SupType
  <2> HIDE DEF s, r
  <2>5. Launched(s, r)
    BY <1>1, <1>9, <2>1, <2>2, LaunchEffect DEF s, r, RowStep
  <2> QED
    BY <1>2, <1>3, <1>7, <2>1, <2>2, <2>3, <2>4, <2>5, LaunchAgrees
<1>10. CASE /\ sup.phase \in {"Starting", "Running"} /\ sup.expectedStop
            /\ sup' = [quiet EXCEPT !.phase = "Stopped",
                        !.timers = IF sup.phase = "Starting"
                                   THEN (sup.timers \cap {"grace", "backoff"})
                                   ELSE @]
            /\ row' = Finalize(sup.gen, "stopped")
            /\ UNCHANGED <<last, bot>>
  <2> DEFINE timers == IF sup.phase = "Starting"
                       THEN (sup.timers \cap {"grace", "backoff"}) ELSE timers0
  <2>1. sup' = [sup EXCEPT !.expectedStop = FALSE, !.phase = "Stopped", !.timers = timers]
    BY <1>1, <1>10 DEF SupType
  <2> HIDE DEF timers, quiet, timers0
  <2>2. sup'.gen = sup.gen /\ sup'.child = sup.child /\ sup'.since = sup.since
    BY <1>1, <2>1 DEF SupType
  <2> QED
    BY <1>5, <1>8, <1>10, <2>2
<1>11. CASE /\ sup' = Crashed(sup)
            /\ row' = Finalize(sup.gen, CrashStatus(sup))
            /\ UNCHANGED <<last, bot>>
  <2>1. sup'.gen = sup.gen /\ sup'.child = sup.child /\ sup'.since = sup.since
    BY <1>1, <1>11, CrashedFields
  <2> QED
    BY <1>5, <1>8, <1>11, <2>1
<1>12. CASE /\ sup' = [quiet EXCEPT !.phase = "Stopped"]
            /\ row' = Finalize(sup.gen, "stopped")
            /\ UNCHANGED <<last, bot>>
  <2>1. sup'.gen = sup.gen /\ sup'.child = sup.child /\ sup'.since = sup.since
    BY <1>6, <1>12 DEF SupType
  <2> QED
    BY <1>5, <1>8, <1>12, <2>1
<1>13. CASE /\ sup' = [quiet EXCEPT !.recent = @ + 1,
                         !.phase = IF CrashStatus(sup) = "failed" THEN "Failed" ELSE "Stopped"]
            /\ row' = Finalize(sup.gen, CrashStatus(sup))
            /\ UNCHANGED <<last, bot>>
  <2> DEFINE phase == IF CrashStatus(sup) = "failed" THEN "Failed" ELSE "Stopped"
  <2>1. sup' = [quiet EXCEPT !.recent = quiet.recent + 1, !.phase = phase]
    BY <1>13
  <2> HIDE DEF phase, quiet
  <2>2. sup'.gen = sup.gen /\ sup'.child = sup.child /\ sup'.since = sup.since
    BY <1>6, <2>1 DEF SupType
  <2> QED
    BY <1>5, <1>8, <1>13, <2>2
<1> QED
  BY <1>3, <1>9, <1>10, <1>11, <1>12, <1>13 DEF ExitObserved, AtRest

(* The reconciliation. *)

LEMMA ReconcileCheckAgrees ==
  ASSUME SupInv, AgreeInv, UNCHANGED faults, NEW g \in Gens, ReconcileCheck(g)
  PROVE  AgreeInv'
<1>1. TypeOK /\ main # "down" /\ g \in rec.todo /\ g <= sup.since
  BY DEF SupInv, ReconcileCheck, NextRow, AgreeInv, OwnRowIsCurrent
<1>2. UNCHANGED <<main, sup, bot, exits>> /\ ProcStep
  BY <1>1, NoProcStep DEF ReconcileCheck
<1>3. /\ rec'.todo \subseteq rec.todo /\ rec'.known = rec.known
      /\ rec.at # "done" /\ rec \in [at : {"done", "check", "identify", "kill"},
                                    todo : SUBSET Gens, known : SUBSET Gens]
  BY DEF SupInv, TypeOK, ReconcileCheck
<1>4. /\ ServedRowsKept /\ RowStep(row')
      /\ \A h \in Gens : row'[h].status = "starting" => row[h].status = "starting"
  <2>1. CASE g \in rec.known /\ bot[g] \in Living
    BY <1>1, <2>1, SameRowsServe, SameRows DEF ReconcileCheck
  <2>2. CASE ~(g \in rec.known /\ bot[g] \in Living)
    <3>1. row' = Finalize(g, "crashed") /\ "crashed" \in Ended
      BY <2>2 DEF ReconcileCheck, Ended
    <3>2. BotsAreKnown => bot'[g] # "serving"
      BY <1>1, <1>2, <2>2 DEF AgreeInv, ServingIsRecorded, Living
    <3> QED
      BY <1>1, <3>1, <3>2, FinalizeServes, FinalizeIsRowStep
  <2> QED
    BY <2>1, <2>2
<1>5. NoneBegins
  BY <1>1, <1>2, <1>4, NoneBeginsFrom
<1>6. NoStartWhileReconciling'
  BY <1>1, <1>2, <1>3 DEF AgreeInv, NoStartWhileReconciling
<1> QED
  BY <1>2, <1>3, <1>4, <1>5, <1>6, QuietAgrees

LEMMA ReconcileIdentifyAgrees ==
  ASSUME SupInv, AgreeInv, UNCHANGED faults, NEW g \in Gens, ReconcileIdentify(g)
  PROVE  AgreeInv'
<1>1. TypeOK /\ main # "down" /\ rec.at = "identify" /\ UNCHANGED <<main, sup>>
  BY DEF SupInv, ReconcileIdentify
<1>2. rec'.todo \subseteq rec.todo /\ rec'.known = rec.known
  <2>1. CASE rec' = [rec EXCEPT !.at = "kill"]
    BY <1>1, <2>1 DEF TypeOK
  <2>2. CASE rec' = [rec EXCEPT !.at = "check", !.todo = @ \ {g}]
    BY <1>1, <2>2 DEF TypeOK
  <2> QED
    BY <2>1, <2>2 DEF ReconcileIdentify
<1>3. /\ ServedRowsKept /\ RowStep(row') /\ ProcStep
      /\ \A h \in Gens : row'[h].status = "starting" => row[h].status = "starting"
  <2>1. CASE Sigterm(g) /\ UNCHANGED row
    BY <1>1, <2>1, SameRowsServe, SameRows, SigtermIsProcStep
  <2>2. CASE "ps_fails" \in faults /\ row' = Finalize(g, "crashed") /\ UNCHANGED procVars
    <3>1. "crashed" \in Ended /\ ~BotsAreKnown
      BY <2>2 DEF Ended, BotsAreKnown
    <3> QED
      BY <1>1, <2>2, <3>1, FinalizeServes, FinalizeIsRowStep, NoProcStep DEF procVars
  <2> QED
    BY <2>1, <2>2 DEF ReconcileIdentify
<1>4. NoneBegins
  BY <1>1, <1>3, NoneBeginsFrom
<1>5. NoStartWhileReconciling'
  BY <1>1 DEF AgreeInv, NoStartWhileReconciling
<1> QED
  BY <1>1, <1>2, <1>3, <1>4, <1>5, QuietAgrees

LEMMA ReconcileKillAgrees ==
  ASSUME SupInv, AgreeInv, UNCHANGED faults, NEW g \in Gens, ReconcileKill(g)
  PROVE  AgreeInv'
<1>1. TypeOK /\ main # "down" /\ rec.at = "kill" /\ UNCHANGED <<main, sup>>
  BY DEF SupInv, ReconcileKill
<1>2. rec'.todo \subseteq rec.todo /\ rec'.known = rec.known
  BY DEF SupInv, TypeOK, ReconcileKill
<1>3. row' = Finalize(g, "crashed") /\ "crashed" \in Ended /\ Sigkill(g)
  BY DEF ReconcileKill, Ended
<1>4. bot'[g] # "serving"
  BY <1>1, <1>3 DEF TypeOK, Sigkill, Dies, Living, procVars
<1>5. /\ ServedRowsKept /\ RowStep(row') /\ ProcStep
      /\ \A h \in Gens : row'[h].status = "starting" => row[h].status = "starting"
  BY <1>1, <1>3, <1>4, FinalizeServes, FinalizeIsRowStep, SigkillIsProcStep
<1>6. NoneBegins
  BY <1>1, <1>5, NoneBeginsFrom
<1>7. NoStartWhileReconciling'
  BY <1>1 DEF AgreeInv, NoStartWhileReconciling
<1> QED
  BY <1>1, <1>2, <1>5, <1>6, <1>7, QuietAgrees

(* The bot. *)

LEMMA BotInitAgrees ==
  ASSUME SupInv, AgreeInv, UNCHANGED faults, NEW g \in Gens, BotInit(g)
  PROVE  AgreeInv'
<1>1. TypeOK /\ UNCHANGED <<main, sup, rec, row>> /\ bot[g] = "booting"
  BY DEF SupInv, BotInit
<1>2. NoStartWhileReconciling' /\ ServedRowsKept
  BY <1>1, SameRowsServe DEF AgreeInv, NoStartWhileReconciling
<1>3. CASE bot' = [bot EXCEPT ![g] = "connecting"]
  <2>1. NoneBegins
    BY <1>1, <1>3 DEF TypeOK, NoneBegins, IsOpen
  <2> QED
    BY <1>1, <1>2, <2>1, QuietAgrees
<1>4. CASE Dies(g)
  BY <1>1, <1>2, <1>4, DiesIsProcStep, SameRowsAgree DEF Living
<1> QED
  BY <1>3, <1>4 DEF BotInit

\* A bot that becomes ready was a candidate, and its row is not being reconciled.
LEMMA BotReadyAgrees ==
  ASSUME SupInv, AgreeInv, UNCHANGED faults, NEW g \in Gens, BotReady(g)
  PROVE  AgreeInv'
<1>1. TypeOK /\ UNCHANGED <<main, sup, rec>> /\ bot[g] = "connecting"
  BY DEF SupInv, BotReady
<1>2. NoStartWhileReconciling'
  BY <1>1 DEF AgreeInv, NoStartWhileReconciling
<1>3. CASE /\ MayMarkRunning(g)
           /\ row' = [row EXCEPT ![g] = [status |-> "running", pid |-> TRUE]]
           /\ bot' = [bot EXCEPT ![g] = "serving"]
  <2>1. /\ row[g].status = "starting" /\ IsOpen(g) /\ Candidate(g)
        /\ IsOpen(g)' /\ row'[g].pid
        /\ \A h \in Gens : h # g => row'[h] = row[h] /\ bot'[h] = bot[h]
    BY <1>1, <1>3 DEF TypeOK, MayMarkRunning, IsOpen, Candidate, Open
  <2>2. OwnRowIsCurrent'
    BY <1>1, <2>1 DEF AgreeInv, OwnRowIsCurrent, IsOpen
  <2>3. BotsAreKnown /\ main # "down" /\ g <= sup.since => g \in rec.known
    BY <2>1 DEF SupInv, EarlierRows, BotsAreKnown, BotReady, IsOpen
  <2>4. ServingIsRecorded'
    BY <1>1, <2>1, <2>3 DEF AgreeInv, ServingIsRecorded, IsOpen, BotsAreKnown
  <2>5. \A h \in Gens : Candidate(h)' => Candidate(h)
    BY <2>1 DEF Candidate
  <2>6. OneCandidate'
    BY <2>5 DEF AgreeInv, OneCandidate, BotsAreKnown
  <2> QED
    BY <1>2, <2>2, <2>4, <2>6 DEF AgreeInv
<1>4. CASE UNCHANGED <<row, bot>>
  <2>1. ProcStep
    BY <1>1, <1>4, NoProcStep DEF BotReady
  <2> QED
    BY <1>1, <1>2, <1>4, <2>1, SameRowsAgree
<1> QED
  BY <1>3, <1>4 DEF BotReady

LEMMA BotShutdownAgrees ==
  ASSUME SupInv, AgreeInv, UNCHANGED faults, NEW g \in Gens, BotShutdown(g)
  PROVE  AgreeInv'
<1>1. /\ TypeOK /\ UNCHANGED <<main, sup, rec>> /\ bot' = [bot EXCEPT ![g] = "closing"]
      /\ row' = Finalize(g, "stopped") /\ "stopped" \in Ended
  BY DEF SupInv, BotShutdown, Ended
<1>2. bot'[g] = "closing" /\ \A h \in Gens : h # g => bot'[h] = bot[h]
  BY <1>1 DEF TypeOK
<1>3. /\ ServedRowsKept /\ RowStep(row')
      /\ \A h \in Gens : row'[h].status = "starting" => row[h].status = "starting"
  BY <1>1, <1>2, FinalizeServes, FinalizeIsRowStep
<1>4. NoneBegins
  BY <1>2, <1>3 DEF NoneBegins, RowStep, IsOpen
<1>5. NoStartWhileReconciling'
  BY <1>1 DEF AgreeInv, NoStartWhileReconciling
<1> QED
  BY <1>1, <1>3, <1>4, <1>5, QuietAgrees

LEMMA OtherBotStepsAgree ==
  ASSUME SupInv, AgreeInv, UNCHANGED faults, NEW g \in Gens,
         BotExits(g) \/ BotCrashes(g) \/ AgentStarts(g) \/ AgentEnds(g) \/ AgentAges(g)
  PROVE  AgreeInv'
<1>1. TypeOK /\ UNCHANGED <<main, sup, rec, row>>
  BY DEF SupInv, BotExits, BotCrashes, AgentStarts, AgentEnds, AgentAges
<1>2. ProcStep
  BY <1>1, DiesIsProcStep, NoProcStep
  DEF BotExits, BotCrashes, AgentStarts, AgentEnds, AgentAges, procVars, Living
<1>3. NoStartWhileReconciling'
  BY <1>1 DEF AgreeInv, NoStartWhileReconciling
<1> QED
  BY <1>1, <1>2, <1>3, SameRowsAgree

-----------------------------------------------------------------------------
(***************************************************************************)
(* The theorems.                                                           *)
(***************************************************************************)

LEMMA InitSupInv == Init => SupInv
<1> SUFFICES ASSUME Init PROVE SupInv
  OBVIOUS
<1>1. sup \in SupType /\ sup = InitialSup(0)
  BY SupervisorAssumption, InitialSupType DEF Init
<1>2. TypeOK
  BY <1>1, SupervisorAssumption DEF Init, TypeOK, SupType, NotReconciling, NoRow
<1>3. Bounded
  BY <1>1, SupervisorAssumption DEF Init, Bounded, InitialSup, NoRow
<1> QED
  BY <1>1, <1>2, <1>3 DEF Init, SupInv, LiveIsCurrent, ExitsAreOwn, RestartIsExpected,
    EarlierRows, OwnRows, InitialSup

LEMMA NextSupInv == ASSUME SupInv, [Next]_<<faults, vars>> PROVE SupInv'
<1>1. CASE UNCHANGED vars
  BY <1>1 DEF vars, SupInv, TypeOK, Bounded, LiveIsCurrent, ExitsAreOwn,
    RestartIsExpected, EarlierRows, OwnRows
<1>2. CASE MainNext
  BY <1>2, MainBootStep, StartRequestedStep, MainClosesStep, MainDiesStep,
    RequestRestartStep, LivenessPollStep, StableWindowElapsedStep, StartTimeoutStep,
    GraceTimeoutStep, BackoffElapsedStep, WindowPassesStep, ReconcileCheckStep,
    ReconcileIdentifyStep, ReconcileKillStep, ExitObservedStep
  DEF MainNext
<1>3. CASE BotNext
  BY <1>3, BotInitStep, BotReadyStep, BotShutdownStep, BotExitsStep, BotCrashesStep,
    AgentStartsStep, AgentGoesStep
  DEF BotNext
<1> QED
  BY <1>1, <1>2, <1>3 DEF Next

LEMMA SupInvHolds == Spec => []SupInv
BY InitSupInv, NextSupInv, PTL DEF Spec

LEMMA InitAgrees == Init => AgreeInv
BY DEF Init, InitialSup, AgreeInv, OwnRowIsCurrent, ServingIsRecorded,
  NoStartWhileReconciling, OneCandidate, Candidate

LEMMA NextAgrees == ASSUME SupInv, AgreeInv, [Next]_<<faults, vars>> PROVE AgreeInv'
<1>1. CASE UNCHANGED <<faults, vars>>
  BY <1>1 DEF vars, AgreeInv, OwnRowIsCurrent, ServingIsRecorded,
    NoStartWhileReconciling, OneCandidate, Candidate, IsOpen, BotsAreKnown
<1>2. CASE UNCHANGED faults /\ MainNext
  BY <1>2, MainBootAgrees, StartRequestedAgrees, MainClosesAgrees, MainDiesAgrees,
    RequestRestartAgrees, NoLaunchTimersAgree, StartTimeoutAgrees, BackoffElapsedAgrees,
    ReconcileCheckAgrees, ReconcileIdentifyAgrees, ReconcileKillAgrees, ExitObservedAgrees
  DEF MainNext
<1>3. CASE UNCHANGED faults /\ BotNext
  BY <1>3, BotInitAgrees, BotReadyAgrees, BotShutdownAgrees, OtherBotStepsAgree
  DEF BotNext
<1> QED
  BY <1>1, <1>2, <1>3 DEF Next

LEMMA AgreeInvHolds == Spec => []AgreeInv
BY InitAgrees, NextAgrees, SupInvHolds, PTL DEF Spec

\* The supervisor, the rows and the processes keep their types.
THEOREM TypeCorrect == Spec => []TypeOK
<1>1. SupInv => TypeOK
  BY DEF SupInv
<1> QED
  BY <1>1, SupInvHolds, PTL

\* onExit() charges every exit to the current generation without asking whose it
\* was; that is sound, as no other exit can ever be on its way.
THEOREM ExitsAreCurrent == Spec => []ExitIsCurrent
<1>1. SupInv => ExitIsCurrent
  BY DEF SupInv, ExitsAreOwn, ExitIsCurrent, AtRest, AtRestPhase
<1> QED
  BY <1>1, SupInvHolds, PTL

\* A restart that is pending waits in Stopping for an exit that counts as expected.
THEOREM RestartIntentIsKept == Spec => []RestartIntentKept
<1>1. SupInv => RestartIntentKept
  BY DEF SupInv, RestartIsExpected, RestartIntentKept
<1> QED
  BY <1>1, SupInvHolds, PTL

\* At rest every agent of this run's generations is reaped (or past the TTL), and a
\* row shows a bot running only if its process lives or its exit is on the way.
THEOREM NothingLeftBehind == Spec => []NothingIsLeftBehind
<1>1. SupInv => OwnAgentsReaped
  BY DEF SupInv, LiveIsCurrent, OwnAgentsReaped, Supervising, AtRest, AtRestPhase
<1>2. SupInv => OnlineIsTrue
  <2> SUFFICES ASSUME SupInv, Supervising, NEW g \in Gens, row[g].status = "running"
               PROVE  bot[g] \in Living \/ g \in exits
    BY DEF OnlineIsTrue
  <2>1. main # "down" /\ rec.todo = {} /\ row[g].status \in Open
    BY DEF SupInv, EarlierRows, Supervising, Open
  <2>2. g > sup.since
    BY <2>1 DEF SupInv, TypeOK, EarlierRows, Gens
  <2> QED
    BY <2>1, <2>2 DEF SupInv, OwnRows
<1> QED
  BY <1>1, <1>2, SupInvHolds, PTL DEF NothingIsLeftBehind

\* Past reconciliation only the current row may be open, and at rest none; if the
\* lives of the bots are known, every live one is supervised or about to leave; and
\* if none is started while rows are reconciled, two never serve Discord at once.
THEOREM RowsAndBotsAlwaysAgree == Spec => []RowsAndBotsAgree
<1>1. SupInv /\ AgreeInv => RowsFollowPhase
  <2> SUFFICES ASSUME SupInv, AgreeInv, Supervising PROVE
        /\ \A g \in Gens : IsOpen(g) => g = sup.gen /\ ~AtRestPhase
        /\ AtRestPhase /\ sup.child # 0 => bot[sup.child] \notin Living
    BY DEF RowsFollowPhase
  <2>1. main # "down" /\ rec.todo = {} /\ sup \in SupType
    BY TypeParts DEF Supervising, SupInv, EarlierRows
  <2>2. ASSUME NEW g \in Gens, IsOpen(g) PROVE g = sup.gen /\ ~AtRestPhase
    <3>1. g > sup.since
      BY <2>1, <2>2 DEF SupInv, EarlierRows, IsOpen, Gens, SupType
    <3> QED
      BY <2>1, <2>2, <3>1 DEF AgreeInv, OwnRowIsCurrent, AtRest, AtRestPhase
  <2>3. AtRestPhase /\ sup.child # 0 => bot[sup.child] \notin Living
    BY <2>1 DEF AgreeInv, OwnRowIsCurrent, SupInv, LiveIsCurrent, AtRest, AtRestPhase,
      SupType, Gens
  <2> QED
    BY <2>2, <2>3
<1>2. SupInv /\ AgreeInv => (BotsAreKnown => SupervisedOrLeaving)
  <2> SUFFICES ASSUME SupInv, AgreeInv, BotsAreKnown, Supervising,
                      NEW g \in Gens, bot[g] \in Living
               PROVE  \/ g = sup.child /\ g = sup.gen /\ ~AtRestPhase
                      \/ ~IsOpen(g) /\ bot[g] # "serving"
    BY DEF SupervisedOrLeaving
  <2>1. main # "down" /\ rec.todo = {} /\ sup \in SupType
    BY TypeParts DEF Supervising, SupInv, EarlierRows
  <2>2. CASE g > sup.since
    BY <2>1, <2>2 DEF SupInv, LiveIsCurrent, AtRest, AtRestPhase
  <2>3. CASE ~(g > sup.since)
    <3>1. ~IsOpen(g)
      BY <2>1, <2>3 DEF SupInv, EarlierRows, IsOpen, Gens, SupType
    <3> QED
      BY <3>1 DEF AgreeInv, ServingIsRecorded
  <2> QED
    BY <2>2, <2>3
<1>3. AgreeInv => (BotsAreKnown /\ "boot_restart" \notin faults => OneServingBot)
  <2> SUFFICES ASSUME AgreeInv, BotsAreKnown, "boot_restart" \notin faults
               PROVE  Cardinality({g \in Gens : bot[g] = "serving"}) <= 1
    BY DEF OneServingBot
  <2> DEFINE S == {g \in Gens : bot[g] = "serving"}
  <2>1. \A g, h \in S : g = h
    BY DEF AgreeInv, OneCandidate, Candidate
  <2>2. S = {} \/ \E g \in S : S = {g}
    BY <2>1
  <2> QED
    BY <2>2, FS_EmptySet, FS_Singleton
<1> QED
  BY <1>1, <1>2, <1>3, SupInvHolds, AgreeInvHolds, PTL DEF RowsAndBotsAgree, BotsAreKnown
=============================================================================
