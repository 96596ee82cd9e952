----------------------------- MODULE EpgRefresh -----------------------------
(***************************************************************************)
(* The guide of one XMLTV source (apps/epg/tasks.py): the refresh of the   *)
(* whole source, the parse of a single row's programmes that a new mapping *)
(* queues, and the byte-offset index of the file.  Three Redis locks and a *)
(* counter keep them off each other's file: a parse defers while a refresh *)
(* holds its lock; a refresh defers while parses are counted or an index   *)
(* is being built; an index build defers while the file is locked.         *)
(*                                                                         *)
(* A file is the number of the provider's edition; a row's guide is the    *)
(* edition its programmes are of, 0 for none.  A deferred task goes back   *)
(* to the queue, so a queue is a number of tasks per row or source.  The   *)
(* locks' keepers renew them: a lock lapses only when its worker dies.     *)
(* Left out: Schedules Direct, local files, and a file that vanishes from  *)
(* the disk, which a parse would then fetch without the file's lock.       *)
(***************************************************************************)
EXTENDS Integers, FiniteSets

CONSTANTS GuideRows,    \* EPGData rows the source may have
          Lists,        \* the rows that each edition has channels and programmes for
          Parsers,      \* workers that parse_programs_for_tvg_id runs on
          MaxAsks,      \* bound: refreshes asked for
          MaxMappings,  \* bound: mappings edited
          MaxBuilds,    \* bound: index builds that find_current_program queues
          MaxTroubles   \* bound: failures, deaths and tasks that give up deferring

ASSUME EpgAssumption ==
  /\ \A v \in DOMAIN Lists : Lists[v] \subseteq GuideRows
  /\ DOMAIN Lists = 1..Cardinality(DOMAIN Lists) /\ 1 \in DOMAIN Lists
  /\ {MaxAsks, MaxMappings, MaxBuilds, MaxTroubles} \subseteq Nat
  /\ IsFiniteSet(Parsers)

VARIABLES
  epgFile,     \* the edition on disk
  epgRows,     \* the rows there are
  guide,       \* the edition a row's programmes are of
  epgIndex,    \* the edition the index is of, 0 for None
  mappedBy,    \* what a row is mapped by: "nothing", "channel", "override"
  unsaved,     \* rows an open transaction maps by an override
  refresh,     \* the refresh: where it is, the rows it found mapped
  fileLock,    \* who holds epg_source_file: "free", "refresh", "build", "dead"
  build,       \* the index build: the edition it reads, 0 for none
  parser,      \* what each parser is doing
  parsing,     \* rows whose parse_epg_programs lock is held
  parseCount,  \* epg_source_tvg_parse
  asks, parses, builds,   \* queued tasks: refreshes, parses per row, builds
  spent,       \* how much of each bound is used
  owed,        \* rows whose guide waits for the next refresh
  misindexed,  \* a refresh or a build failed between the file and its index
  miscounted   \* the counter was deleted with a parse in it

epgDisk  == <<epgFile, epgRows, guide, epgIndex>>
epgMaps  == <<mappedBy, unsaved>>
epgParse == <<parser, parsing, parseCount>>
epgQueue == <<asks, parses, builds>>
epgPast  == <<owed, misindexed, miscounted>>
epgVars  == <<epgDisk, epgMaps, refresh, fileLock, build, epgParse, epgQueue, spent, epgPast>>

Editions == DOMAIN Lists
EditionOf(r, v) == IF v \in Editions /\ r \in Lists[v] THEN v ELSE 0
Mapped     == {r \in epgRows : mappedBy[r] # "nothing"}
NoParse    == [at |-> "off", row |-> 0, edition |-> 0, raced |-> FALSE]
NoRefresh  == [at |-> "off", found |-> {}]
Refreshing == refresh.at # "off"

Spend(what) ==
  /\ spent[what] < CASE what = "asks" -> MaxAsks [] what = "mappings" -> MaxMappings
                     [] what = "builds" -> MaxBuilds [] what = "troubles" -> MaxTroubles
  /\ spent' = [spent EXCEPT ![what] = @ + 1]

EpgTypeOK ==
  /\ epgFile \in Editions /\ epgRows \subseteq GuideRows /\ guide \in [GuideRows -> Editions \cup {0}]
  /\ epgIndex \in Editions \cup {0} /\ build \in Editions \cup {0}
  /\ mappedBy \in [GuideRows -> {"nothing", "channel", "override"}] /\ unsaved \subseteq GuideRows
  /\ fileLock \in {"free", "refresh", "build", "dead"}
  /\ fileLock = "refresh" => Refreshing
  /\ parsing \subseteq GuideRows /\ parseCount \in Int /\ owed \subseteq GuideRows

EpgInit ==
  /\ epgFile = 1 /\ epgRows = Lists[1] /\ guide = [r \in GuideRows |-> 0] /\ epgIndex = 1
  /\ mappedBy = [r \in GuideRows |-> "nothing"] /\ unsaved = {}
  /\ refresh = NoRefresh /\ fileLock = "free" /\ build = 0
  /\ parser = [w \in Parsers |-> NoParse] /\ parsing = {} /\ parseCount = 0
  /\ asks = 0 /\ parses = [r \in GuideRows |-> 0] /\ builds = 0
  /\ spent = [what \in {"asks", "mappings", "builds", "troubles"} |-> 0]
  /\ owed = {} /\ misindexed = FALSE /\ miscounted = FALSE
----------------------------------------------------------------------------
\* The refresh of the source.

RefreshAsked ==
  /\ Spend("asks") /\ asks' = asks + 1
  /\ UNCHANGED <<epgDisk, epgMaps, refresh, fileLock, build, epgParse, parses, builds, epgPast>>

\* A task that finds the lock taken ends; one that takes it invalidates the
\* index before it looks at anything else.
RefreshBegins ==
  /\ asks > 0 /\ asks' = asks - 1
  /\ IF Refreshing
     THEN UNCHANGED <<refresh, epgIndex>>
     ELSE refresh' = [NoRefresh EXCEPT !.at = "begun"] /\ epgIndex' = 0
  /\ UNCHANGED <<epgFile, epgRows, guide, epgMaps, fileLock, build, epgParse, parses, builds,
                 spent, epgPast>>

\* _defer_refresh_epg_data: the task goes back to the queue, or gives up.
RefreshDefers ==
  /\ \/ refresh.at = "begun" /\ parseCount > 0
     \/ refresh.at = "clear" /\ fileLock # "free"
  /\ refresh' = NoRefresh
  /\ \/ asks' = asks + 1 /\ UNCHANGED spent
     \/ Spend("troubles") /\ UNCHANGED asks
  /\ UNCHANGED <<epgDisk, epgMaps, fileLock, build, epgParse, parses, builds, epgPast>>

\* What is counted but not in the counter is not seen.
FindsNoParses ==
  /\ refresh.at = "begun" /\ parseCount <= 0
  /\ refresh' = [refresh EXCEPT !.at = "clear"]
  /\ parser' = [w \in Parsers |->
                  [parser[w] EXCEPT !.raced = @ \/ (miscounted /\ parser[w].at \in {"counted", "parsing"})]]
  /\ UNCHANGED <<epgDisk, epgMaps, fileLock, build, parsing, parseCount, epgQueue, spent, epgPast>>

LocksFile ==
  /\ refresh.at = "clear" /\ fileLock = "free"
  /\ refresh' = [refresh EXCEPT !.at = "locked"] /\ fileLock' = "refresh"
  /\ UNCHANGED <<epgDisk, epgMaps, build, epgParse, epgQueue, spent, epgPast>>

\* fetch_xmltv: the provider serves this edition or a later one.
Fetches(v) ==
  /\ refresh.at = "locked" /\ v >= epgFile
  /\ refresh' = [refresh EXCEPT !.at = "fetched"] /\ epgFile' = v
  /\ UNCHANGED <<epgRows, guide, epgIndex, epgMaps, fileLock, build, epgParse, epgQueue, spent,
                 epgPast>>

\* parse_channels_only creates the rows the file lists and deletes those it
\* does not list and no channel is mapped to: an override does not keep one,
\* and loses its mapping with it.
ParsesChannels ==
  LET gone == {r \in epgRows \ Lists[epgFile] : mappedBy[r] # "channel" /\ r \notin unsaved}
  IN  /\ refresh.at = "fetched"
      /\ refresh' = [refresh EXCEPT !.at = "listed"]
      /\ epgRows' = (epgRows \cup Lists[epgFile]) \ gone
      /\ guide' = [r \in GuideRows |-> IF r \in gone THEN 0 ELSE guide[r]]
      /\ mappedBy' = [r \in GuideRows |-> IF r \in gone THEN "nothing" ELSE mappedBy[r]]
      /\ owed' = owed \ gone
      /\ UNCHANGED <<epgFile, epgIndex, unsaved, fileLock, build, epgParse, epgQueue, spent,
                     misindexed, miscounted>>

\* parse_programs_for_source reads which rows are mapped; with none it is done.
FindsMapped ==
  /\ refresh.at = "listed"
  /\ refresh' = [at |-> IF Mapped = {} THEN "parsed" ELSE "reading", found |-> Mapped]
  /\ UNCHANGED <<epgDisk, epgMaps, fileLock, build, epgParse, epgQueue, spent, epgPast>>

\* The swap: the programmes of the rows it found, and of the rows that are
\* unmapped by now, are deleted, and those it has staged inserted.
SwapsProgrammes ==
  /\ refresh.at = "reading"
  /\ refresh' = [refresh EXCEPT !.at = "swapped"]
  /\ guide' = [r \in GuideRows |-> IF r \in refresh.found THEN EditionOf(r, epgFile)
                              ELSE IF r \in Mapped THEN guide[r] ELSE 0]
  /\ owed' = owed \ (refresh.found \ unsaved)
  /\ UNCHANGED <<epgFile, epgRows, epgIndex, epgMaps, fileLock, build, epgParse, epgQueue, spent,
                 misindexed, miscounted>>

\* Rows mapped since get a parse of their own.
DispatchesLate ==
  /\ refresh.at = "swapped"
  /\ refresh' = [refresh EXCEPT !.at = "parsed"]
  /\ parses' = [r \in GuideRows |-> parses[r] + IF r \in Mapped \ refresh.found THEN 1 ELSE 0]
  /\ UNCHANGED <<epgDisk, epgMaps, fileLock, build, epgParse, asks, builds, spent, epgPast>>

\* The locks are released, an index build queued.
RefreshEnds ==
  /\ refresh.at = "parsed"
  /\ refresh' = NoRefresh /\ fileLock' = "free" /\ builds' = builds + 1
  /\ UNCHANGED <<epgDisk, epgMaps, build, epgParse, asks, parses, spent, epgPast>>

\* A failed or killed refresh leaves what it has done.
LeavesUndone ==
  IF refresh.at \in {"fetched", "listed", "reading", "swapped", "parsed"}
  THEN owed' = GuideRows /\ misindexed' = TRUE /\ UNCHANGED miscounted
  ELSE UNCHANGED epgPast

RefreshFails ==
  /\ refresh.at \in {"locked", "fetched", "reading"} /\ Spend("troubles")
  /\ refresh' = NoRefresh /\ fileLock' = "free"
  /\ LeavesUndone
  /\ UNCHANGED <<epgDisk, epgMaps, build, epgParse, epgQueue>>

RefreshDies ==
  /\ refresh.at \notin {"off", "dead"} /\ Spend("troubles")
  /\ refresh' = [NoRefresh EXCEPT !.at = "dead"]
  /\ fileLock' = IF fileLock = "refresh" THEN "dead" ELSE fileLock
  /\ LeavesUndone
  /\ UNCHANGED <<epgDisk, epgMaps, build, epgParse, epgQueue>>
----------------------------------------------------------------------------
\* The parse of one row.

\* A bug to plant: the task is not queued again.
PutBackNever(queue, r) == [queue EXCEPT ![r] = @ - 1]

\* apply_async with a countdown: the task is in the queue again.
PutBack(queue, r) == queue

ParseDefers(r) ==
  /\ parses[r] > 0 /\ r \in epgRows /\ Refreshing
  /\ parses' = PutBack(parses, r)
  /\ UNCHANGED <<epgDisk, epgMaps, refresh, fileLock, build, epgParse, asks, builds, spent, epgPast>>

\* It defers so often, and no more; or its row is gone.
ParseIsDropped(r) ==
  /\ parses[r] > 0
  /\ IF r \in epgRows THEN Refreshing /\ Spend("troubles") ELSE UNCHANGED spent
  /\ parses' = [parses EXCEPT ![r] = @ - 1]
  /\ owed' = owed \cup ({r} \cap epgRows)
  /\ UNCHANGED <<epgDisk, epgMaps, refresh, fileLock, build, epgParse, asks, builds, misindexed, miscounted>>

\* The refresh's lock is not held: it goes on, and only then is counted.
ParseBegins(w, r) ==
  /\ parses[r] > 0 /\ r \in epgRows /\ ~Refreshing /\ parser[w].at = "off"
  /\ parses' = [parses EXCEPT ![r] = @ - 1]
  /\ parser' = [parser EXCEPT ![w] = [NoParse EXCEPT !.at = "allowed", !.row = r]]
  /\ UNCHANGED <<epgDisk, epgMaps, refresh, fileLock, build, parsing, parseCount, asks, builds,
                 spent, epgPast>>

IsCounted(w) ==
  /\ parser[w].at = "allowed"
  /\ parseCount' = parseCount + 1
  /\ parser' = [parser EXCEPT ![w].at = "counted",
                              ![w].raced = refresh.at \notin {"off", "begun", "dead"}]
  /\ UNCHANGED <<epgDisk, epgMaps, refresh, fileLock, build, parsing, epgQueue, spent, epgPast>>

\* It takes the row's lock; unless the row is unmapped it opens the file.
LocksRow(w) ==
  LET r == parser[w].row
  IN  /\ parser[w].at = "counted" /\ r \notin parsing
      /\ parsing' = parsing \cup {r}
      /\ parser' = [parser EXCEPT ![w].at = IF r \in Mapped THEN "parsing" ELSE "ending",
                                  ![w].edition = epgFile]
      /\ owed' = owed \cup ({r} \cap unsaved)
      /\ UNCHANGED <<epgDisk, epgMaps, refresh, fileLock, build, parseCount, epgQueue, spent,
                     misindexed, miscounted>>

Uncounts(w) ==
  /\ parseCount' = parseCount - 1
  /\ parser' = [parser EXCEPT ![w] = IF parseCount <= 1 THEN [NoParse EXCEPT !.at = "clearing"]
                                     ELSE NoParse]

\* The row's lock is taken: a duplicate, which leaves the row to the other.
\* The other may have found the row unmapped, or be dead.
SkipsDuplicate(w) ==
  LET r == parser[w].row
  IN  /\ parser[w].at = "counted" /\ r \in parsing
      /\ Uncounts(w)
      /\ owed' = IF r \notin unsaved
                    /\ \E o \in Parsers : parser[o].row = r /\ parser[o].at = "parsing"
                 THEN owed ELSE owed \cup {r}
      /\ UNCHANGED <<epgDisk, epgMaps, refresh, fileLock, build, parsing, epgQueue, spent,
                     misindexed, miscounted>>

\* The row's programmes are replaced in one transaction.
SwapsRow(w) ==
  LET p == parser[w]
  IN  /\ p.at = "parsing" /\ p.row \in epgRows
      /\ guide' = [guide EXCEPT ![p.row] = EditionOf(p.row, p.edition)]
      /\ owed' = IF p.edition = epgFile THEN owed \ ({p.row} \ unsaved)
                 ELSE owed \cup (IF p.raced THEN {p.row} ELSE {})
      /\ parser' = [parser EXCEPT ![w].at = "ending"]
      /\ UNCHANGED <<epgFile, epgRows, epgIndex, epgMaps, refresh, fileLock, build, parsing,
                     parseCount, epgQueue, spent, misindexed, miscounted>>

\* An exception, or the insert for a row that is gone: the old guide stays.
ParseFails(w) ==
  LET r == parser[w].row
  IN  /\ parser[w].at = "parsing"
      /\ IF r \in epgRows THEN Spend("troubles") ELSE UNCHANGED spent
      /\ parser' = [parser EXCEPT ![w].at = "ending"]
      /\ owed' = owed \cup {r}
      /\ UNCHANGED <<epgDisk, epgMaps, refresh, fileLock, build, parsing, parseCount, epgQueue,
                     misindexed, miscounted>>

ParseEnds(w) ==
  /\ parser[w].at = "ending"
  /\ parsing' = parsing \ {parser[w].row}
  /\ Uncounts(w)
  /\ UNCHANGED <<epgDisk, epgMaps, refresh, fileLock, build, epgQueue, spent, epgPast>>

\* The counter came to 0 and is deleted, with what was counted in between.
ClearsCount(w) ==
  /\ parser[w].at = "clearing"
  /\ parseCount' = 0 /\ parser' = [parser EXCEPT ![w] = NoParse]
  /\ miscounted' = \E o \in Parsers : parser[o].at \in {"counted", "parsing", "ending"}
  /\ UNCHANGED <<epgDisk, epgMaps, refresh, fileLock, build, parsing, epgQueue, spent, owed,
                 misindexed>>

\* A parser's death leaves the lock to lapse and the counter for good.
ParserDies(w) ==
  /\ parser[w].at \in {"counted", "parsing", "ending"} /\ Spend("troubles")
  /\ parser' = [parser EXCEPT ![w].at = IF @ = "counted" THEN "off" ELSE "dead"]
  /\ owed' = owed \cup {parser[w].row}
  /\ UNCHANGED <<epgDisk, epgMaps, refresh, fileLock, build, parsing, parseCount, epgQueue,
                 misindexed, miscounted>>
----------------------------------------------------------------------------
\* The index.

\* find_current_program_for_tvg_id finds none, and queues a build.
FindsNoIndex ==
  /\ epgIndex = 0 /\ Spend("builds") /\ builds' = builds + 1
  /\ UNCHANGED <<epgDisk, epgMaps, refresh, fileLock, build, epgParse, asks, parses, epgPast>>

\* While the file is locked the task stays in the queue, or gives up.
BuildBegins ==
  /\ builds > 0 /\ builds' = builds - 1
  /\ IF fileLock = "free"
     THEN fileLock' = "build" /\ build' = epgFile /\ UNCHANGED <<spent, misindexed>>
     ELSE Spend("troubles") /\ misindexed' = TRUE /\ UNCHANGED <<fileLock, build>>
  /\ UNCHANGED <<epgDisk, epgMaps, refresh, epgParse, asks, parses, owed, miscounted>>

BuildSaves ==
  /\ fileLock = "build"
  /\ epgIndex' = build /\ build' = 0 /\ fileLock' = "free"
  /\ misindexed' = FALSE
  /\ UNCHANGED <<epgFile, epgRows, guide, epgMaps, refresh, epgParse, epgQueue, spent, owed, miscounted>>

BuildDies ==
  /\ fileLock = "build" /\ Spend("troubles")
  /\ fileLock' = "dead" /\ build' = 0 /\ misindexed' = TRUE
  /\ UNCHANGED <<epgDisk, epgMaps, refresh, epgParse, epgQueue, owed, miscounted>>

\* Locks of dead workers expire.
LockLapses ==
  \/ /\ fileLock = "dead" /\ fileLock' = "free"
     /\ UNCHANGED <<epgDisk, epgMaps, refresh, build, epgParse, epgQueue, spent, epgPast>>
  \/ /\ refresh.at = "dead" /\ refresh' = NoRefresh
     /\ UNCHANGED <<epgDisk, epgMaps, fileLock, build, epgParse, epgQueue, spent, epgPast>>
  \/ /\ \E w \in Parsers :
          /\ parser[w].at = "dead"
          /\ parsing' = parsing \ {parser[w].row}
          /\ parser' = [parser EXCEPT ![w] = NoParse]
     /\ UNCHANGED <<epgDisk, epgMaps, refresh, fileLock, build, parseCount, epgQueue, spent, epgPast>>
----------------------------------------------------------------------------
\* Mappings.

\* set-epg and batch-set-epg save the mapping, then queue a parse.
MapsChannel(r) ==
  /\ r \in epgRows \ unsaved /\ mappedBy[r] = "nothing" /\ Spend("mappings")
  /\ mappedBy' = [mappedBy EXCEPT ![r] = "channel"]
  /\ parses' = [parses EXCEPT ![r] = @ + 1]
  /\ UNCHANGED <<epgDisk, unsaved, refresh, fileLock, build, epgParse, asks, builds, epgPast>>

\* A PATCH of the channel, or a bulk edit, saves it and queues nothing: the
\* row waits for the next refresh.
MapsUnasked(r) ==
  /\ r \in epgRows \ unsaved /\ mappedBy[r] = "nothing" /\ Spend("mappings")
  /\ mappedBy' = [mappedBy EXCEPT ![r] = "channel"]
  /\ owed' = owed \cup {r}
  /\ UNCHANGED <<epgDisk, unsaved, refresh, fileLock, build, epgParse, epgQueue, misindexed, miscounted>>

\* An override is saved, and its parse queued, inside a transaction.
SavesOverride(r) ==
  /\ r \in epgRows \ unsaved /\ mappedBy[r] = "nothing" /\ Spend("mappings")
  /\ unsaved' = unsaved \cup {r}
  /\ parses' = [parses EXCEPT ![r] = @ + 1]
  /\ UNCHANGED <<epgDisk, mappedBy, refresh, fileLock, build, epgParse, asks, builds, epgPast>>

OverrideCommits(r) ==
  /\ r \in unsaved
  /\ unsaved' = unsaved \ {r}
  /\ mappedBy' = [mappedBy EXCEPT ![r] = "override"]
  /\ UNCHANGED <<epgDisk, refresh, fileLock, build, epgParse, epgQueue, spent, epgPast>>

Unmaps(r) ==
  /\ mappedBy[r] # "nothing" /\ Spend("mappings")
  /\ mappedBy' = [mappedBy EXCEPT ![r] = "nothing"]
  /\ UNCHANGED <<epgDisk, unsaved, refresh, fileLock, build, epgParse, epgQueue, epgPast>>
----------------------------------------------------------------------------
RefreshStep ==
  \/ RefreshAsked \/ RefreshBegins \/ RefreshDefers \/ FindsNoParses \/ LocksFile
  \/ \E v \in Editions : Fetches(v)
  \/ ParsesChannels \/ FindsMapped \/ SwapsProgrammes \/ DispatchesLate \/ RefreshEnds
  \/ RefreshFails \/ RefreshDies
ParseStep ==
  \/ \E r \in GuideRows : ParseDefers(r) \/ ParseIsDropped(r) \/ \E w \in Parsers : ParseBegins(w, r)
  \/ \E w \in Parsers :
       \/ IsCounted(w) \/ LocksRow(w) \/ SkipsDuplicate(w) \/ SwapsRow(w) \/ ParseFails(w)
       \/ ParseEnds(w) \/ ClearsCount(w) \/ ParserDies(w)
IndexStep == FindsNoIndex \/ BuildBegins \/ BuildSaves \/ BuildDies \/ LockLapses
MappingStep ==
  \E r \in GuideRows : MapsChannel(r) \/ MapsUnasked(r) \/ SavesOverride(r) \/ OverrideCommits(r) \/ Unmaps(r)

EpgNext == RefreshStep \/ ParseStep \/ IndexStep \/ MappingStep
EpgSpec == EpgInit /\ [][EpgNext]_epgVars
----------------------------------------------------------------------------
NothingQueued ==
  /\ asks = 0 /\ builds = 0 /\ \A r \in GuideRows : parses[r] = 0
  /\ ~Refreshing /\ fileLock = "free" /\ unsaved = {}
  /\ \A w \in Parsers : parser[w].at = "off"

\* Whenever nothing is queued or running, each mapped row has the programmes
\* of the file on disk, and the index, if there is one, is that file's: a
\* refresh never finishes under a parse of the old file, a row mapped in the
\* middle of a refresh is not forgotten, a deferred task comes back
\* (refresh_epg_data, parse_programs_for_tvg_id, parse_programs_for_source).
\* Not promised, until the next refresh or parse, to rows that were mapped
\* without asking, whose parse came before the mapping's commit, found a
\* duplicate that was about to leave, failed or died, or was counted after
\* a refresh had looked, or counted in a counter that was deleted.
GuideIsCurrent ==
  NothingQueued =>
    /\ \A r \in Mapped \ owed : guide[r] = EditionOf(r, epgFile)
    /\ epgIndex # 0 /\ ~misindexed => epgIndex = epgFile
=============================================================================
