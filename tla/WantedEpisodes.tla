--------------------------- MODULE WantedEpisodes ---------------------------
(***************************************************************************)
(* The episodes of a series that are wanted, and the operations tdr-bot    *)
(* performs on the series: what SeriesLibrary, which has their calls to    *)
(* Sonarr, promises of them.                                               *)
(***************************************************************************)
CONSTANT Episodes  \* pairs <<season, number>>; season 0 holds the specials

VARIABLES
  lib,     \* Sonarr: the series is present and monitored, its episodes are
           \* listed, the seasons flagged, the episodes wanted, their files,
           \* the queue
  op       \* the operations' frames

SeasonOf(e) == e[1]
Seasons == {SeasonOf(e) : e \in Episodes}
InSeason(n) == {e \in Episodes : SeasonOf(e) = n}

\* The episodes an entry { season, episodes? } of a selection names.
Named(entry) == {e \in InSeason(entry.season) :
                   entry.numbers = {} \/ e[2] \in entry.numbers}
Selected(sel) == UNION {Named(sel[i]) : i \in DOMAIN sel}

Idle(o) == op[o].pc \in {"idle", "done"}

-----------------------------------------------------------------------------
\* An operation that is running asked for the episode to go, or not to be wanted.
AskedToLose(o, e) ==
  LET sel == op[o].req.sel IN
  ~Idle(o) /\ \/ op[o].req.kind = "delete" /\ (sel = <<>> \/ e \in Selected(sel))
              \/ op[o].req.kind = "download" /\ e \notin Selected(sel)
                 /\ \E i \in DOMAIN sel : sel[i].season = SeasonOf(e)

\* An episode that is wanted, specials aside, loses that or its file only to an
\* operation that asked for it; above all, deleting single episodes removes the
\* whole series only when it holds no other wanted one.
LosesWhatWasAsked ==
  \A e \in lib.wanted \ InSeason(0) :
       e \notin lib'.wanted \/ (e \in lib.files /\ e \notin lib'.files) =>
         \E o \in DOMAIN op : AskedToLose(o, e)

OnlyWhatWasAsked == [][LosesWhatWasAsked]_lib
=============================================================================
