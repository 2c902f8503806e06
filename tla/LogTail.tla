------------------------------- MODULE LogTail -------------------------------
(***************************************************************************)
(* One connection that follows a log file of the tdr-code console          *)
(* (logging/log-tail.service.ts): the backlog, the checks that changes of  *)
(* the file cause, truncation, rotation and teardown. A check, like the    *)
(* start, is asynchronous: its stat, open and read are steps between which *)
(* the file, another check and the client go on.                           *)
(*                                                                         *)
(* A byte is <<file, era, position>>: files are numbered as they are       *)
(* created, and a truncation starts a new era of a file. Every LineBytes-th*)
(* byte is a newline. The decoder's held bytes are part of the partial     *)
(* line.                                                                   *)
(***************************************************************************)
EXTENDS Naturals, FiniteSets, Sequences, SequencesExt

CONSTANTS
  Checks,     \* the runs of checkForChanges() that may be under way
  Poll,       \* LOG_TAIL_POLL_FALLBACK: the path is polled, not the inode
  Races,      \* what may overlap, among RaceNames
  MaxFiles,   \* bound: files ever at the path
  MaxSize,    \* bound: bytes of a file
  MaxEras     \* bound: truncations of a file

LineBytes == 2

\*   overlap      a check starts while the start or another check is under way
\*   rotate_open  a new file appears between a stat and the open after it
\*   regrow       a truncated file is written to before it was found truncated
RaceNames == {"overlap", "rotate_open", "regrow"}

LogTailAssumption ==
  /\ "start" \notin Checks /\ Poll \in BOOLEAN /\ Races \subseteq RaceNames
  /\ MaxFiles \in Nat \ {0} /\ MaxSize \in Nat /\ MaxEras \in Nat

VARIABLES
  files,  \* the files ever created: their size and era
  path,   \* the file at the path, 0 when there is none
  conn,   \* the variables of the connection's closure
  work,   \* the step at which the start and each check are
  out     \* the lines sent to the client, with their byte offsets

vars == <<files, path, conn, work, out>>

Procs == {"start"} \cup Checks
Idle == [at |-> "idle"]

Init ==
  /\ files = <<[size |-> 0, era |-> 0]>> /\ path \in {0, 1}
  /\ conn = [ino |-> 0, handle |-> 0, offset |-> 0, partial |-> <<>>, anchor |-> 0,
             watched |-> 0, timer |-> FALSE, closed |-> FALSE, era |-> 0]
  /\ work = [p \in Procs |-> IF p = "start" THEN [at |-> "stat"] ELSE Idle]
  /\ out = <<>>

-----------------------------------------------------------------------------
(***************************************************************************)
(* The program that logs                                                   *)
(***************************************************************************)
\* fs.watch() reports changes of the inode it was given, fs.watchFile() those
\* of the path; either starts the debounce timer.
Touched(f) ==
  LET reported == ~conn.closed /\ conn.watched # 0 /\ (Poll \/ conn.watched = f)
  IN  conn' = [conn EXCEPT !.timer = @ \/ reported]

Truncated == conn.offset > 0 /\ conn.ino = path /\ conn.era # files[path].era

Write ==
  /\ path # 0 /\ files[path].size < MaxSize
  /\ Truncated => "regrow" \in Races
  /\ files' = [files EXCEPT ![path].size = @ + 1]
  /\ Touched(path)
  /\ UNCHANGED <<path, work, out>>

Truncate ==
  /\ path # 0 /\ files[path].size > 0 /\ files[path].era < MaxEras
  /\ files' = [files EXCEPT ![path] = [size |-> 0, era |-> @.era + 1]]
  /\ Touched(path)
  /\ UNCHANGED <<path, work, out>>

\* A rotation: the file is renamed, and later a new one is created.
Rename ==
  /\ path # 0
  /\ path' = 0
  /\ Touched(path)
  /\ UNCHANGED <<files, work, out>>

Create ==
  /\ path = 0 /\ Len(files) < MaxFiles
  /\ (\E p \in Procs : work[p].at = "open") => "rotate_open" \in Races
  /\ files' = Append(files, [size |-> 0, era |-> 0])
  /\ path' = Len(files')
  /\ Touched(path')
  /\ UNCHANGED <<work, out>>

-----------------------------------------------------------------------------
(***************************************************************************)
(* The connection                                                          *)
(***************************************************************************)
At(p, step) == work[p].at = step
GoesTo(p, w) == work' = [work EXCEPT ![p] = w]

\* cleanup(), which the client, the watcher, a failed start and the shutdown of
\* the server call.
Closed == [conn EXCEPT !.closed = TRUE, !.timer = FALSE]

Close ==
  /\ ~conn.closed
  /\ conn' = Closed
  /\ UNCHANGED <<files, path, work, out>>

\* Mutant of FromTheStart: the partial line survives.
FromTheStartPartial(c, f) ==
  [c EXCEPT !.ino = f, !.offset = 0, !.anchor = 0, !.era = files[f].era]

\* The reset after a rotation or a truncation.
FromTheStart(c, f) ==
  [c EXCEPT !.ino = f, !.offset = 0, !.partial = <<>>, !.anchor = 0, !.era = files[f].era]

\* drainOnce(size) up to its read; the caller goes on with `then'.
Drained(c, size, then) ==
  IF size <= c.offset THEN [at |-> then]
  ELSE [at |-> "read", file |-> c.handle, from |-> c.offset, to |-> size, then |-> then]

\* start(): an absent file completes the stream; a position to resume from is
\* clamped to the file.
StartStats ==
  /\ At("start", "stat")
  /\ \/ /\ path = 0 \/ conn.closed
        /\ conn' = Closed
        /\ GoesTo("start", Idle)
     \/ /\ path # 0 /\ ~conn.closed
        /\ \E from \in 0..files[path].size :
             conn' = [conn EXCEPT !.offset = from, !.anchor = from, !.ino = path,
                                  !.era = files[path].era]
        /\ GoesTo("start", [at |-> "open", size |-> files[path].size])
  /\ UNCHANGED <<files, path, out>>

\* The watcher is attached before the backlog is read.
StartOpens ==
  /\ At("start", "open")
  /\ \/ /\ path = 0 \/ conn.closed
        /\ conn' = Closed
        /\ GoesTo("start", Idle)
     \/ /\ path # 0 /\ ~conn.closed
        /\ conn' = [conn EXCEPT !.handle = path, !.watched = path]
        /\ GoesTo("start", Drained(conn', work["start"].size, "stat2"))
  /\ UNCHANGED <<files, path, out>>

\* The second drain, for what was written before the watcher was attached.
StartStatsAgain ==
  /\ At("start", "stat2")
  /\ GoesTo("start", IF path = 0 \/ conn.closed THEN Idle
                     ELSE Drained(conn, files[path].size, "idle"))
  /\ UNCHANGED <<files, path, conn, out>>

\* The debounce timer fires.
Fires(k) ==
  /\ conn.timer /\ At(k, "idle")
  /\ (\E p \in Procs : ~At(p, "idle")) => "overlap" \in Races
  /\ conn' = [conn EXCEPT !.timer = FALSE]
  /\ GoesTo(k, [at |-> "stat"])
  /\ UNCHANGED <<files, path, out>>

\* checkForChanges(): an absent file is an error that is logged. After a
\* rotation the handle is closed first; a truncated file is read from its start.
CheckStats(k) ==
  /\ At(k, "stat")
  /\ \/ /\ path = 0 \/ conn.closed
        /\ UNCHANGED conn
        /\ GoesTo(k, Idle)
     \/ /\ path # 0 /\ ~conn.closed /\ path # conn.ino
        /\ conn' = [conn EXCEPT !.handle = 0]
        /\ GoesTo(k, [at |-> "open", ino |-> path, size |-> files[path].size])
     \/ /\ path # 0 /\ ~conn.closed /\ path = conn.ino
        /\ conn' = IF files[path].size < conn.offset THEN FromTheStart(conn, path) ELSE conn
        /\ GoesTo(k, Drained(conn', files[path].size, "idle"))
  /\ UNCHANGED <<files, path, out>>

CheckOpens(k) ==
  /\ At(k, "open")
  /\ \/ /\ path = 0 \/ conn.closed
        /\ UNCHANGED conn
        /\ GoesTo(k, Idle)
     \/ /\ path # 0 /\ ~conn.closed
        /\ conn' = [FromTheStart(conn, work[k].ino) EXCEPT !.handle = path]
        /\ GoesTo(k, Drained(conn', work[k].size, "idle"))
  /\ UNCHANGED <<files, path, out>>

\* The bytes a read returns, when it returns: no more than there are by then.
BytesRead(r) ==
  LET f == files[r.file]
      last == IF r.to < f.size THEN r.to ELSE f.size
  IN  [i \in 1..(IF last < r.from THEN 0 ELSE last - r.from) |-> <<r.file, f.era, r.from + i>>]

\* The rest of drainOnce(): the complete lines are sent, the rest is kept.
Received(p) ==
  LET bytes == BytesRead(work[p])
      text == conn.partial \o bytes
      newlines == {i \in DOMAIN text : text[i][3] % LineBytes = 0}
      ends == <<0>> \o SetToSortSeq(newlines, <)
      end == Last(ends)
  IN  /\ conn' = [conn EXCEPT !.offset = @ + Len(bytes), !.anchor = @ + end,
                              !.partial = SubSeq(text, end + 1, Len(text)),
                              !.era = IF bytes = <<>> THEN @ ELSE Last(bytes)[2]]
      /\ out' = out \o [i \in 1..Cardinality(newlines) |->
                          [line |-> SubSeq(text, ends[i] + 1, ends[i + 1]),
                           byteOffset |-> conn.anchor + ends[i + 1]]]

\* A read of a handle that was closed fails, which ends the start.
ReadReturns(p) ==
  /\ At(p, "read")
  /\ \/ /\ conn.closed
        /\ GoesTo(p, Idle) /\ UNCHANGED <<conn, out>>
     \/ /\ ~conn.closed /\ work[p].file = 0
        /\ conn' = IF p = "start" THEN Closed ELSE conn
        /\ GoesTo(p, Idle) /\ UNCHANGED out
     \/ /\ ~conn.closed /\ work[p].file # 0
        /\ Received(p)
        /\ GoesTo(p, [at |-> work[p].then])
  /\ UNCHANGED <<files, path>>

-----------------------------------------------------------------------------
Steps(p) ==
  \/ p = "start" /\ (StartStats \/ StartOpens \/ StartStatsAgain)
  \/ p \in Checks /\ (CheckStats(p) \/ CheckOpens(p))
  \/ ReadReturns(p)

Next ==
  \/ Write \/ Truncate \/ Rename \/ Create \/ Close
  \/ \E k \in Checks : Fires(k)
  \/ \E p \in Procs : Steps(p)

Spec == Init /\ [][Next]_vars

\* Files answer and timers fire.
FairSpec ==
  /\ Spec
  /\ \A p \in Procs : WF_vars(Steps(p))
  /\ \A k \in Checks : WF_vars(Fires(k))

-----------------------------------------------------------------------------
TypeOK ==
  /\ path \in 0..Len(files) /\ Len(files) <= MaxFiles
  /\ \A f \in DOMAIN files : files[f].size \in 0..MaxSize /\ files[f].era \in 0..MaxEras
  /\ {conn.ino, conn.handle, conn.watched} \subseteq 0..Len(files)
  /\ {conn.timer, conn.closed} \subseteq BOOLEAN
  /\ conn.anchor + Len(conn.partial) = conn.offset
  /\ \A p \in Procs : work[p].at \in {"idle", "stat", "open", "read", "stat2"}

First(e) == e.line[1]

\* Entry e is what remains, from First(e) on, of one line of one file, and its
\* offset is that of the byte after the line.
IsLine(e) ==
  /\ \A i \in DOMAIN e.line : e.line[i] = <<First(e)[1], First(e)[2], First(e)[3] + i - 1>>
  /\ \A i \in DOMAIN e.line : e.line[i][3] % LineBytes = 0 <=> i = Len(e.line)
  /\ e.byteOffset = Last(e.line)[3]

\* Entry f is the line after e, or the first line of what came after e's file.
Follows(f, e) ==
  \/ First(f) = [Last(e.line) EXCEPT ![3] = @ + 1]
  \/ /\ First(f)[3] = 1
     /\ \/ First(f)[1] > First(e)[1]
        \/ First(f)[1] = First(e)[1] /\ First(f)[2] > First(e)[2]

\* The client gets whole lines with their offsets, each once, none left out
\* and in order, whatever falls between a stat and a read.
EachLineOnceInOrder ==
  \A i \in DOMAIN out : IsLine(out[i]) /\ (i > 1 => Follows(out[i], out[i - 1]))

\* Once the program logs no more, all that is in the file has been read.
CaughtUp ==
  \/ conn.closed \/ path = 0
  \/ conn.ino = path /\ files[path].size = 0
  \/ conn.ino = path /\ files[path].era = conn.era /\ files[path].size = conn.offset

TailCatchesUp == <>[]CaughtUp
=============================================================================
