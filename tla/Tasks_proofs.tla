---------------------------- MODULE Tasks_proofs ----------------------------
(***************************************************************************)
(* What the tasks of the Django side leave behind, for any number of rows, *)
(* editions, workers, files and failures: the refreshes of the catalogue   *)
(* (the guide, EpgRefresh; the streams, StreamRefresh; the numbers of the  *)
(* channels made from them, Numbering) and a recording (DvrRecording): one *)
(* ffmpeg at a time, and nothing that was taped is lost, until a recovery  *)
(* acts on a row it read before or while a task ran.                       *)
(***************************************************************************)
EXTENDS EpgRefresh, StreamRefresh, Numbering, DvrRecording, FiniteSetTheorems, TLAPS


----------------------------------------------------------------------------
(* The guide. *)

\* The types, with what EpgTypeOK does not spell out.
RefreshPlaces == {"off", "begun", "clear", "locked", "fetched", "listed", "reading", "swapped",
                  "parsed", "dead"}
ParserPlaces  == {"off", "allowed", "counted", "parsing", "ending", "clearing", "dead"}
RefreshRecs   == [at : RefreshPlaces, found : SUBSET GuideRows]
ParserRecs    == [at : ParserPlaces, row : GuideRows \cup {0}, edition : Editions \cup {0},
                  raced : BOOLEAN]

DiskT == /\ epgFile \in Editions /\ epgRows \subseteq GuideRows
         /\ guide \in [GuideRows -> Editions \cup {0}] /\ epgIndex \in Editions \cup {0}
MapsT == /\ mappedBy \in [GuideRows -> {"nothing", "channel", "override"}]
         /\ unsaved \subseteq epgRows
TaskT == /\ refresh \in RefreshRecs /\ fileLock \in {"free", "refresh", "build", "dead"}
         /\ build \in Editions \cup {0}
RowsT == /\ parser \in [Parsers -> ParserRecs] /\ parsing \subseteq GuideRows /\ parseCount \in Int
         /\ \A w \in Parsers : parser[w].at \notin {"off", "clearing"}
                                 => parser[w].row \in GuideRows
QueueT == asks \in Nat /\ builds \in Nat /\ parses \in [GuideRows -> Nat]
OwedT == owed \subseteq GuideRows /\ misindexed \in BOOLEAN /\ miscounted \in BOOLEAN
EpgTypes == DiskT /\ MapsT /\ TaskT /\ RowsT /\ QueueT /\ OwedT

\* The refresh has the file's lock while it is at the file, and only then; so a
\* build that has it reads the file that is there.
AtFile    == {"locked", "fetched", "listed", "reading", "swapped", "parsed"}
OwnsFile  == fileLock = "refresh" <=> refresh.at \in AtFile
BuildsIt  == fileLock = "build" => build = epgFile

\* An index of another edition will be replaced, or somebody has failed.
IndexTells ==
  \/ epgIndex = 0 \/ epgIndex = epgFile \/ misindexed
  \/ builds > 0 \/ refresh.at \in AtFile \ {"locked"} \/ fileLock = "build"

\* The counter is no less than the parses in it, unless it was deleted under
\* them; who is in it when a refresh has looked, or comes later, knows.
InCount   == {w \in Parsers : parser[w].at \in {"counted", "parsing", "ending"}}
CountSays == ~miscounted => Cardinality(InCount) <= parseCount
AllRaced  == refresh.at \in AtFile \cup {"clear"} =>
  \A w \in Parsers : parser[w].at \in {"counted", "parsing"} => parser[w].raced
ReadsFile == \A w \in Parsers : parser[w].at = "parsing" =>
  parser[w].raced \/ parser[w].edition = epgFile

\* A parse of the row is queued, or has begun and will see how it is mapped.
Begun(r)   == \E w \in Parsers : parser[w].row = r /\ parser[w].at \in {"allowed", "counted"}
Pending(r) == parses[r] > 0 \/ Begun(r)
Parsed(r)  == \E w \in Parsers : parser[w].row = r /\ parser[w].at = "parsing"
\* The refresh has yet to write the row, or to queue its parse.
Refreshes(r) ==
  \/ refresh.at \in {"fetched", "listed", "reading"}
  \/ refresh.at = "swapped" /\ r \notin refresh.found
MatchesFile(r) == guide[r] = EditionOf(r, epgFile)

UnsavedKept == \A r \in unsaved : r \in owed \/ Pending(r)
GuideKept   == \A r \in Mapped :
  r \in owed \/ Pending(r) \/ Parsed(r) \/ Refreshes(r) \/ MatchesFile(r)

EpgInv ==
  /\ EpgTypes /\ OwnsFile /\ BuildsIt /\ IndexTells
  /\ CountSays /\ AllRaced /\ ReadsFile /\ UnsavedKept /\ GuideKept
\* A parser's next record, and the one it begins with.
LEMMA ParserMoves ==
  ASSUME RowsT, NEW w \in Parsers, NEW p \in ParserRecs,
         p.at \notin {"off", "clearing"} => p.row \in GuideRows,
         parser' = [parser EXCEPT ![w] = p], parsing' \subseteq GuideRows, parseCount' \in Int
  PROVE  RowsT'
BY DEF RowsT

\* A parser that does nothing.
LEMMA NoParseTyped ==
  NoParse \in ParserRecs /\ NoParse.at = "off"
    /\ [NoParse EXCEPT !.at = "clearing"] \in ParserRecs
BY DEF NoParse, ParserRecs, ParserPlaces

\* Every step keeps the types.
LEMMA EpgStepTypes == EpgTypes /\ EpgNext => EpgTypes'
<1> SUFFICES ASSUME EpgTypes, EpgNext PROVE EpgTypes'
  OBVIOUS
<1>1. ASSUME RefreshAsked PROVE EpgTypes'
  BY <1>1 DEF RefreshAsked, EpgTypes, DiskT, MapsT, TaskT, RowsT, QueueT, OwedT, epgDisk,
     epgMaps, epgParse, epgPast
<1>2. ASSUME RefreshBegins PROVE EpgTypes'
  BY <1>2 DEF RefreshBegins, EpgTypes, DiskT, MapsT, TaskT, RowsT, QueueT, OwedT, RefreshRecs,
     RefreshPlaces, NoRefresh, epgMaps, epgParse, epgPast
<1>3. ASSUME RefreshDefers PROVE EpgTypes'
  BY <1>3 DEF RefreshDefers, EpgTypes, DiskT, MapsT, TaskT, RowsT, QueueT, OwedT, RefreshRecs,
     RefreshPlaces, NoRefresh, epgDisk, epgMaps, epgParse, epgPast
<1>4. ASSUME FindsNoParses PROVE EpgTypes'
  <2>1. /\ parser' \in [Parsers -> ParserRecs]
        /\ \A w \in Parsers : parser'[w].at = parser[w].at /\ parser'[w].row = parser[w].row
    BY <1>4 DEF FindsNoParses, EpgTypes, RowsT, ParserRecs
  <2>2. refresh' \in RefreshRecs
    BY <1>4 DEF FindsNoParses, EpgTypes, TaskT, RefreshRecs, RefreshPlaces
  <2> QED
    BY <1>4, <2>1, <2>2 DEF FindsNoParses, EpgTypes, DiskT, MapsT, TaskT, RowsT, QueueT, OwedT,
       epgDisk, epgMaps, epgQueue, epgPast
<1>5. ASSUME LocksFile PROVE EpgTypes'
  BY <1>5 DEF LocksFile, EpgTypes, DiskT, MapsT, TaskT, RowsT, QueueT, OwedT, RefreshRecs,
     RefreshPlaces, epgDisk, epgMaps, epgParse, epgQueue, epgPast
<1>6. ASSUME NEW v \in Editions, Fetches(v) PROVE EpgTypes'
  BY <1>6 DEF Fetches, EpgTypes, DiskT, MapsT, TaskT, RowsT, QueueT, OwedT, RefreshRecs,
     RefreshPlaces, epgMaps, epgParse, epgQueue, epgPast
<1>7. ASSUME ParsesChannels PROVE EpgTypes'
  <2>1. DiskT' /\ MapsT'
    <3>1. Lists[epgFile] \subseteq GuideRows /\ epgFile' = epgFile /\ unsaved' = unsaved
      BY <1>7, EpgAssumption DEF ParsesChannels, EpgTypes, DiskT, Editions
    <3>2. epgRows' \subseteq GuideRows /\ unsaved' \subseteq epgRows'
      BY <1>7, <3>1 DEF ParsesChannels, EpgTypes, DiskT, MapsT
    <3>3. guide' \in [GuideRows -> Editions \cup {0}] /\ epgIndex' = epgIndex
      BY <1>7 DEF ParsesChannels, EpgTypes, DiskT
    <3>4. mappedBy' \in [GuideRows -> {"nothing", "channel", "override"}]
      BY <1>7 DEF ParsesChannels, EpgTypes, MapsT
    <3> QED
      BY <3>1, <3>2, <3>3, <3>4 DEF EpgTypes, DiskT, MapsT
  <2>2. TaskT' /\ QueueT'
    BY <1>7 DEF ParsesChannels, EpgTypes, TaskT, QueueT, RefreshRecs, RefreshPlaces, epgQueue
  <2>3. RowsT'
    BY <1>7 DEF ParsesChannels, EpgTypes, RowsT, epgParse
  <2>4. OwedT'
    BY <1>7 DEF ParsesChannels, EpgTypes, OwedT
  <2> QED
    BY <2>1, <2>2, <2>3, <2>4 DEF EpgTypes
<1>8. ASSUME FindsMapped PROVE EpgTypes'
  BY <1>8 DEF FindsMapped, EpgTypes, DiskT, MapsT, TaskT, RowsT, QueueT, OwedT, RefreshRecs,
     RefreshPlaces, Mapped, epgDisk, epgMaps, epgParse, epgQueue, epgPast
<1>9. ASSUME SwapsProgrammes PROVE EpgTypes'
  BY <1>9 DEF SwapsProgrammes, EpgTypes, DiskT, MapsT, TaskT, RowsT, QueueT, OwedT, RefreshRecs,
     RefreshPlaces, EditionOf, epgMaps, epgParse, epgQueue
<1>10. ASSUME DispatchesLate PROVE EpgTypes'
  BY <1>10 DEF DispatchesLate, EpgTypes, DiskT, MapsT, TaskT, RowsT, QueueT, OwedT, RefreshRecs,
     RefreshPlaces, epgDisk, epgMaps, epgParse, epgPast
<1>11. ASSUME RefreshEnds PROVE EpgTypes'
  BY <1>11 DEF RefreshEnds, EpgTypes, DiskT, MapsT, TaskT, RowsT, QueueT, OwedT, RefreshRecs,
     RefreshPlaces, NoRefresh, epgDisk, epgMaps, epgParse, epgPast
<1>12. ASSUME RefreshFails PROVE EpgTypes'
  BY <1>12 DEF RefreshFails, LeavesUndone, EpgTypes, DiskT, MapsT, TaskT, RowsT, QueueT, OwedT,
     RefreshRecs, RefreshPlaces, NoRefresh, epgDisk, epgMaps, epgParse, epgQueue, epgPast
<1>13. ASSUME RefreshDies PROVE EpgTypes'
  BY <1>13 DEF RefreshDies, LeavesUndone, EpgTypes, DiskT, MapsT, TaskT, RowsT, QueueT, OwedT,
     RefreshRecs, RefreshPlaces, NoRefresh, epgDisk, epgMaps, epgParse, epgQueue, epgPast
<1>14. ASSUME NEW r \in GuideRows, ParseDefers(r) PROVE EpgTypes'
  BY <1>14 DEF ParseDefers, PutBack, EpgTypes, DiskT, MapsT, TaskT, RowsT, QueueT, OwedT,
     epgDisk, epgMaps, epgParse, epgPast
<1>15. ASSUME NEW r \in GuideRows, ParseIsDropped(r) PROVE EpgTypes'
  BY <1>15 DEF ParseIsDropped, EpgTypes, DiskT, MapsT, TaskT, RowsT, QueueT, OwedT, epgDisk,
     epgMaps, epgParse
<1>16. ASSUME NEW w \in Parsers, NEW r \in GuideRows, ParseBegins(w, r) PROVE EpgTypes'
  <2>1. DiskT' /\ MapsT'
    BY <1>16 DEF ParseBegins, EpgTypes, DiskT, MapsT, epgDisk, epgMaps
  <2>2. TaskT' /\ QueueT'
    BY <1>16 DEF ParseBegins, EpgTypes, TaskT, QueueT
  <2>3. RowsT'
    <3> DEFINE p == [NoParse EXCEPT !.at = "allowed", !.row = r]
    <3>1. parser[w] \in ParserRecs
            /\ (parser[w].at \notin {"off", "clearing"} => parser[w].row \in GuideRows)
      BY DEF EpgTypes, RowsT
    <3>2. p \in ParserRecs /\ (p.at \notin {"off", "clearing"} => p.row \in GuideRows)
      BY <1>16, <3>1, NoParseTyped DEF ParserRecs, ParserPlaces
    <3>3. parser' = [parser EXCEPT ![w] = p]
      BY <1>16, <3>1 DEF ParseBegins
    <3>4. parsing' \subseteq GuideRows /\ parseCount' \in Int
      BY <1>16, <3>1 DEF ParseBegins, EpgTypes, RowsT
    <3> HIDE DEF p
    <3> QED
      BY <3>2, <3>3, <3>4, ParserMoves DEF EpgTypes
  <2>4. OwedT'
    BY <1>16 DEF ParseBegins, EpgTypes, OwedT, epgPast
  <2> QED
    BY <2>1, <2>2, <2>3, <2>4 DEF EpgTypes
<1>17. ASSUME NEW w \in Parsers, IsCounted(w) PROVE EpgTypes'
  <2>1. DiskT' /\ MapsT'
    BY <1>17 DEF IsCounted, EpgTypes, DiskT, MapsT, epgDisk, epgMaps
  <2>2. TaskT' /\ QueueT'
    BY <1>17 DEF IsCounted, EpgTypes, TaskT, QueueT, epgQueue
  <2>3. RowsT'
    <3> DEFINE p == [parser[w] EXCEPT !.at = "counted", !.raced = refresh.at \notin {"off", "begun", "dead"}]
    <3>1. parser[w] \in ParserRecs
            /\ (parser[w].at \notin {"off", "clearing"} => parser[w].row \in GuideRows)
      BY DEF EpgTypes, RowsT
    <3>2. p \in ParserRecs /\ (p.at \notin {"off", "clearing"} => p.row \in GuideRows)
      BY <1>17, <3>1, NoParseTyped DEF IsCounted, ParserRecs, ParserPlaces
    <3>3. parser' = [parser EXCEPT ![w] = p]
      BY <1>17, <3>1 DEF IsCounted
    <3>4. parsing' \subseteq GuideRows /\ parseCount' \in Int
      BY <1>17, <3>1 DEF IsCounted, EpgTypes, RowsT
    <3> HIDE DEF p
    <3> QED
      BY <3>2, <3>3, <3>4, ParserMoves DEF EpgTypes
  <2>4. OwedT'
    BY <1>17 DEF IsCounted, EpgTypes, OwedT, epgPast
  <2> QED
    BY <2>1, <2>2, <2>3, <2>4 DEF EpgTypes
<1>18. ASSUME NEW w \in Parsers, LocksRow(w) PROVE EpgTypes'
  <2>1. DiskT' /\ MapsT'
    BY <1>18 DEF LocksRow, EpgTypes, DiskT, MapsT, epgDisk, epgMaps
  <2>2. TaskT' /\ QueueT'
    BY <1>18 DEF LocksRow, EpgTypes, TaskT, QueueT, epgQueue
  <2>3. RowsT'
    <3> DEFINE p == [parser[w] EXCEPT !.at = IF parser[w].row \in Mapped THEN "parsing" ELSE "ending", !.edition = epgFile]
    <3>1. parser[w] \in ParserRecs
            /\ (parser[w].at \notin {"off", "clearing"} => parser[w].row \in GuideRows)
      BY DEF EpgTypes, RowsT
    <3>2. p \in ParserRecs /\ (p.at \notin {"off", "clearing"} => p.row \in GuideRows)
      BY <1>18, <3>1, NoParseTyped DEF LocksRow, EpgTypes, DiskT, ParserRecs, ParserPlaces
    <3>3. parser' = [parser EXCEPT ![w] = p]
      BY <1>18, <3>1 DEF LocksRow
    <3>4. parsing' \subseteq GuideRows /\ parseCount' \in Int
      BY <1>18, <3>1 DEF LocksRow, EpgTypes, RowsT
    <3> HIDE DEF p
    <3> QED
      BY <3>2, <3>3, <3>4, ParserMoves DEF EpgTypes
  <2>4. OwedT'
    BY <1>18 DEF LocksRow, EpgTypes, OwedT, RowsT
  <2> QED
    BY <2>1, <2>2, <2>3, <2>4 DEF EpgTypes
<1>19. ASSUME NEW w \in Parsers, SkipsDuplicate(w) PROVE EpgTypes'
  <2>1. DiskT' /\ MapsT'
    BY <1>19 DEF SkipsDuplicate, EpgTypes, DiskT, MapsT, epgDisk, epgMaps
  <2>2. TaskT' /\ QueueT'
    BY <1>19 DEF SkipsDuplicate, EpgTypes, TaskT, QueueT, epgQueue
  <2>3. RowsT'
    <3> DEFINE p == IF parseCount <= 1 THEN [NoParse EXCEPT !.at = "clearing"] ELSE NoParse
    <3>1. parser[w] \in ParserRecs
            /\ (parser[w].at \notin {"off", "clearing"} => parser[w].row \in GuideRows)
      BY DEF EpgTypes, RowsT
    <3>2. p \in ParserRecs /\ (p.at \notin {"off", "clearing"} => p.row \in GuideRows)
      BY <1>19, <3>1, NoParseTyped
    <3>3. parser' = [parser EXCEPT ![w] = p]
      BY <1>19, <3>1 DEF SkipsDuplicate, Uncounts
    <3>4. parsing' \subseteq GuideRows /\ parseCount' \in Int
      BY <1>19, <3>1 DEF SkipsDuplicate, Uncounts, EpgTypes, RowsT
    <3> HIDE DEF p
    <3> QED
      BY <3>2, <3>3, <3>4, ParserMoves DEF EpgTypes
  <2>4. OwedT'
    BY <1>19 DEF SkipsDuplicate, EpgTypes, OwedT, RowsT
  <2> QED
    BY <2>1, <2>2, <2>3, <2>4 DEF EpgTypes
<1>20. ASSUME NEW w \in Parsers, SwapsRow(w) PROVE EpgTypes'
  BY <1>20 DEF SwapsRow, EpgTypes, DiskT, MapsT, TaskT, RowsT, QueueT, OwedT, ParserRecs,
     ParserPlaces, EditionOf, epgMaps, epgQueue
<1>21. ASSUME NEW w \in Parsers, ParseFails(w) PROVE EpgTypes'
  BY <1>21 DEF ParseFails, EpgTypes, DiskT, MapsT, TaskT, RowsT, QueueT, OwedT, ParserRecs,
     ParserPlaces, epgDisk, epgMaps, epgQueue
<1>22. ASSUME NEW w \in Parsers, ParseEnds(w) PROVE EpgTypes'
  <2>1. DiskT' /\ MapsT'
    BY <1>22 DEF ParseEnds, EpgTypes, DiskT, MapsT, epgDisk, epgMaps
  <2>2. TaskT' /\ QueueT'
    BY <1>22 DEF ParseEnds, EpgTypes, TaskT, QueueT, epgQueue
  <2>3. RowsT'
    <3> DEFINE p == IF parseCount <= 1 THEN [NoParse EXCEPT !.at = "clearing"] ELSE NoParse
    <3>1. parser[w] \in ParserRecs
            /\ (parser[w].at \notin {"off", "clearing"} => parser[w].row \in GuideRows)
      BY DEF EpgTypes, RowsT
    <3>2. p \in ParserRecs /\ (p.at \notin {"off", "clearing"} => p.row \in GuideRows)
      BY <1>22, <3>1, NoParseTyped
    <3>3. parser' = [parser EXCEPT ![w] = p]
      BY <1>22, <3>1 DEF ParseEnds, Uncounts
    <3>4. parsing' \subseteq GuideRows /\ parseCount' \in Int
      BY <1>22, <3>1 DEF ParseEnds, Uncounts, EpgTypes, RowsT
    <3> HIDE DEF p
    <3> QED
      BY <3>2, <3>3, <3>4, ParserMoves DEF EpgTypes
  <2>4. OwedT'
    BY <1>22 DEF ParseEnds, EpgTypes, OwedT, epgPast
  <2> QED
    BY <2>1, <2>2, <2>3, <2>4 DEF EpgTypes
<1>23. ASSUME NEW w \in Parsers, ClearsCount(w) PROVE EpgTypes'
  BY <1>23 DEF ClearsCount, EpgTypes, DiskT, MapsT, TaskT, RowsT, QueueT, OwedT, ParserRecs,
     ParserPlaces, NoParse, epgDisk, epgMaps, epgQueue
<1>24. ASSUME NEW w \in Parsers, ParserDies(w) PROVE EpgTypes'
  BY <1>24 DEF ParserDies, EpgTypes, DiskT, MapsT, TaskT, RowsT, QueueT, OwedT, ParserRecs,
     ParserPlaces, epgDisk, epgMaps, epgQueue
<1>25. ASSUME FindsNoIndex PROVE EpgTypes'
  BY <1>25 DEF FindsNoIndex, EpgTypes, DiskT, MapsT, TaskT, RowsT, QueueT, OwedT, epgDisk,
     epgMaps, epgParse, epgPast
<1>26. ASSUME BuildBegins PROVE EpgTypes'
  <2>1. DiskT' /\ MapsT'
    BY <1>26 DEF BuildBegins, EpgTypes, DiskT, MapsT, epgDisk, epgMaps
  <2>2. TaskT' /\ QueueT'
    BY <1>26 DEF BuildBegins, EpgTypes, DiskT, TaskT, QueueT
  <2>3. RowsT'
    BY <1>26 DEF BuildBegins, EpgTypes, RowsT, epgParse
  <2>4. OwedT'
    BY <1>26 DEF BuildBegins, EpgTypes, OwedT
  <2> QED
    BY <2>1, <2>2, <2>3, <2>4 DEF EpgTypes
<1>27. ASSUME BuildSaves PROVE EpgTypes'
  BY <1>27 DEF BuildSaves, EpgTypes, DiskT, MapsT, TaskT, RowsT, QueueT, OwedT, epgMaps,
     epgParse, epgQueue
<1>28. ASSUME BuildDies PROVE EpgTypes'
  BY <1>28 DEF BuildDies, EpgTypes, DiskT, MapsT, TaskT, RowsT, QueueT, OwedT, epgDisk, epgMaps,
     epgParse, epgQueue
<1>29. ASSUME LockLapses PROVE EpgTypes'
  <2>1. DiskT' /\ MapsT'
    BY <1>29 DEF LockLapses, EpgTypes, DiskT, MapsT, epgDisk, epgMaps
  <2>2. TaskT' /\ QueueT'
    BY <1>29 DEF LockLapses, EpgTypes, TaskT, QueueT, RefreshRecs, RefreshPlaces, NoRefresh,
       epgQueue
  <2>3. RowsT'
    BY <1>29, NoParseTyped DEF LockLapses, EpgTypes, RowsT, epgParse
  <2>4. OwedT'
    BY <1>29 DEF LockLapses, EpgTypes, OwedT, epgPast
  <2> QED
    BY <2>1, <2>2, <2>3, <2>4 DEF EpgTypes
<1>30. ASSUME NEW r \in GuideRows, MapsChannel(r) PROVE EpgTypes'
  BY <1>30 DEF MapsChannel, EpgTypes, DiskT, MapsT, TaskT, RowsT, QueueT, OwedT, epgDisk,
     epgParse, epgPast
<1>31. ASSUME NEW r \in GuideRows, MapsUnasked(r) PROVE EpgTypes'
  BY <1>31 DEF MapsUnasked, EpgTypes, DiskT, MapsT, TaskT, RowsT, QueueT, OwedT, epgDisk,
     epgParse, epgQueue
<1>32. ASSUME NEW r \in GuideRows, SavesOverride(r) PROVE EpgTypes'
  BY <1>32 DEF SavesOverride, EpgTypes, DiskT, MapsT, TaskT, RowsT, QueueT, OwedT, epgDisk,
     epgParse, epgPast
<1>33. ASSUME NEW r \in GuideRows, OverrideCommits(r) PROVE EpgTypes'
  BY <1>33 DEF OverrideCommits, EpgTypes, DiskT, MapsT, TaskT, RowsT, QueueT, OwedT, epgDisk,
     epgParse, epgQueue, epgPast
<1>34. ASSUME NEW r \in GuideRows, Unmaps(r) PROVE EpgTypes'
  BY <1>34 DEF Unmaps, EpgTypes, DiskT, MapsT, TaskT, RowsT, QueueT, OwedT, epgDisk, epgParse,
     epgQueue, epgPast
<1> QED
  BY <1>1, <1>2, <1>3, <1>4, <1>5, <1>6, <1>7, <1>8, <1>9, <1>10, <1>11, <1>12, <1>13, <1>14,
     <1>15, <1>16, <1>17, <1>18, <1>19, <1>20, <1>21, <1>22, <1>23, <1>24, <1>25, <1>26, <1>27,
     <1>28, <1>29, <1>30, <1>31, <1>32, <1>33, <1>34 DEF EpgNext, RefreshStep, ParseStep,
     IndexStep, MappingStep

\* What the parses and the mappings leave.
LEMMA OthersKeepFile ==
  ASSUME EpgInv, ParseStep \/ MappingStep
  PROVE  UNCHANGED <<epgFile, epgRows, epgIndex, refresh, fileLock, build, asks, builds, misindexed>>
BY DEF ParseStep, MappingStep, ParseDefers, ParseIsDropped, ParseBegins, IsCounted, LocksRow,
       SkipsDuplicate, SwapsRow, ParseFails, ParseEnds, ClearsCount, ParserDies, MapsChannel,
       MapsUnasked, SavesOverride, OverrideCommits, Unmaps, epgDisk, epgQueue, epgPast

\* The lock is the refresh's while it is at the file, a build reads the file that
\* stays, and whoever changes the file sees to the index.
LEMMA EpgStepFile == EpgInv /\ EpgNext => OwnsFile' /\ BuildsIt' /\ IndexTells'
<1> SUFFICES ASSUME EpgInv, EpgNext PROVE OwnsFile' /\ BuildsIt' /\ IndexTells'
  OBVIOUS
<1> USE DEF AtFile, epgDisk, epgQueue, epgPast
<1>0. OwnsFile /\ BuildsIt /\ IndexTells /\ builds \in Nat /\ refresh \in RefreshRecs
  BY DEF EpgInv, EpgTypes, QueueT, TaskT
<1>1. CASE ParseStep \/ MappingStep
  <2>1. UNCHANGED <<epgFile, epgIndex, refresh, fileLock, build, builds, misindexed>>
    BY <1>1, OthersKeepFile
  <2> QED
    BY <1>0, <2>1 DEF OwnsFile, BuildsIt, IndexTells
<1>2. CASE RefreshAsked \/ RefreshBegins \/ RefreshDefers \/ FindsNoParses \/ LocksFile
  BY <1>0, <1>2 DEF RefreshAsked, RefreshBegins, RefreshDefers, FindsNoParses, LocksFile, OwnsFile,
     BuildsIt, IndexTells, NoRefresh, Refreshing, RefreshRecs
<1>3. ASSUME NEW v \in Editions, Fetches(v) PROVE OwnsFile' /\ BuildsIt' /\ IndexTells'
  BY <1>0, <1>3 DEF Fetches, OwnsFile, BuildsIt, IndexTells
<1>4. CASE ParsesChannels \/ FindsMapped \/ SwapsProgrammes \/ DispatchesLate
  <2>1. /\ UNCHANGED <<epgFile, epgIndex, fileLock, build, builds, misindexed>>
        /\ refresh.at \in AtFile \ {"locked"} /\ refresh'.at \in AtFile \ {"locked"}
    BY <1>0, <1>4 DEF ParsesChannels, FindsMapped, SwapsProgrammes, DispatchesLate, RefreshRecs
  <2> QED
    BY <1>0, <2>1 DEF OwnsFile, BuildsIt, IndexTells
<1>5. CASE RefreshEnds \/ RefreshFails \/ RefreshDies
  BY <1>0, <1>5 DEF RefreshEnds, RefreshFails, RefreshDies, LeavesUndone, OwnsFile, BuildsIt,
     IndexTells, NoRefresh
<1>6. CASE IndexStep
  BY <1>0, <1>6 DEF IndexStep, FindsNoIndex, BuildBegins, BuildSaves, BuildDies, LockLapses,
     OwnsFile,
     BuildsIt, IndexTells, NoRefresh
<1> QED
  BY <1>1, <1>2, <1>3, <1>4, <1>5, <1>6 DEF EpgNext, RefreshStep

\* The parses that are counted are finitely many; one more or less.
LEMMA CountMoves ==
  /\ IsFiniteSet(InCount)
  /\ \A w : Cardinality(InCount \cup {w}) <= Cardinality(InCount) + 1
  /\ \A w \in InCount : Cardinality(InCount \ {w}) = Cardinality(InCount) - 1
  /\ \A S \in SUBSET InCount : Cardinality(S) <= Cardinality(InCount)
<1>1. IsFiniteSet(InCount)
  BY EpgAssumption, FS_Subset DEF InCount
<1> QED
  BY <1>1, FS_CardinalityType, FS_AddElement, FS_RemoveElement, FS_Subset

\* The counter keeps up.
LEMMA EpgStepCount == EpgInv /\ EpgNext => CountSays'
<1> SUFFICES ASSUME EpgInv, EpgNext PROVE CountSays'
  OBVIOUS
<1> USE DEF epgParse, epgPast
<1>0. /\ CountSays /\ parseCount \in Int /\ IsFiniteSet(InCount) /\ Cardinality(InCount) \in Nat
      /\ parser \in [Parsers -> ParserRecs]
  BY CountMoves, FS_CardinalityType DEF EpgInv, EpgTypes, RowsT
\* A step that brings nobody into the counter, and leaves it or adds to it.
<1>1. ASSUME InCount' \subseteq InCount, parseCount' = parseCount, miscounted' = miscounted
      PROVE  CountSays'
  <2>1. Cardinality(InCount') <= Cardinality(InCount) /\ Cardinality(InCount') \in Nat
    BY <1>0, <1>1, CountMoves, FS_CardinalityType, FS_Subset
  <2> QED
    BY <1>0, <1>1, <2>1 DEF CountSays
<1>2. CASE UNCHANGED <<parser, parseCount, miscounted>>
  BY <1>1, <1>2 DEF InCount
<1>3. CASE FindsNoParses
  <2>1. \A w \in Parsers : parser'[w].at = parser[w].at
    BY <1>0, <1>3 DEF FindsNoParses, ParserRecs
  <2> QED
    BY <1>1, <1>3, <2>1 DEF InCount, FindsNoParses
<1>4. ASSUME NEW w \in Parsers,
             (\E r \in GuideRows : ParseBegins(w, r)) \/ LocksRow(w) \/ SwapsRow(w) \/ ParseFails(w)
               \/ ParserDies(w)
      PROVE  CountSays'
  <2>1. \A o \in Parsers : o # w => parser'[o] = parser[o]
    BY <1>0, <1>4 DEF ParseBegins, LocksRow, SwapsRow, ParseFails, ParserDies
  <2>2. parser'[w].at \in {"counted", "parsing", "ending"}
          => parser[w].at \in {"counted", "parsing", "ending"}
    BY <1>0, <1>4 DEF ParseBegins, LocksRow, SwapsRow, ParseFails, ParserDies, NoParse
  <2>3. parseCount' = parseCount /\ miscounted' = miscounted
    BY <1>4 DEF ParseBegins, LocksRow, SwapsRow, ParseFails, ParserDies
  <2> QED
    BY <1>1, <2>1, <2>2, <2>3 DEF InCount
<1>5. ASSUME NEW w \in Parsers, IsCounted(w) PROVE CountSays'
  <2>1. InCount' = InCount \cup {w}
    BY <1>0, <1>5 DEF InCount, IsCounted
  <2>2. Cardinality(InCount') <= Cardinality(InCount) + 1 /\ Cardinality(InCount') \in Nat
    BY <1>0, <2>1, CountMoves, FS_AddElement, FS_CardinalityType
  <2> QED
    BY <1>0, <1>5, <2>2 DEF CountSays, IsCounted
<1>6. ASSUME NEW w \in Parsers, SkipsDuplicate(w) \/ ParseEnds(w) PROVE CountSays'
  <2>1. w \in InCount /\ InCount' = InCount \ {w}
    BY <1>0, <1>6 DEF InCount, SkipsDuplicate, ParseEnds, Uncounts, NoParse
  <2>2. Cardinality(InCount') = Cardinality(InCount) - 1
    BY <2>1, CountMoves
  <2> QED
    BY <1>0, <1>6, <2>2 DEF CountSays, SkipsDuplicate, ParseEnds, Uncounts
<1>7. ASSUME NEW w \in Parsers, ClearsCount(w) PROVE CountSays'
  <2>1. ~miscounted' => InCount' = {}
    BY <1>0, <1>7 DEF InCount, ClearsCount, NoParse
  <2>2. Cardinality({}) = 0 /\ parseCount' = 0
    BY <1>7, FS_EmptySet DEF ClearsCount
  <2> QED
    BY <2>1, <2>2 DEF CountSays
<1>8. CASE LockLapses
  <2>1. InCount' \subseteq InCount
    BY <1>0, <1>8 DEF InCount, LockLapses, NoParse
  <2> QED
    BY <1>1, <1>8, <2>1 DEF LockLapses
<1>9. UNCHANGED <<parser, parseCount, miscounted>>
        \/ FindsNoParses \/ LockLapses
        \/ \E w \in Parsers :
             \/ \E r \in GuideRows : ParseBegins(w, r)
             \/ IsCounted(w) \/ LocksRow(w) \/ SkipsDuplicate(w) \/ SwapsRow(w) \/ ParseFails(w)
             \/ ParseEnds(w) \/ ClearsCount(w) \/ ParserDies(w)
  BY DEF EpgNext, RefreshStep, ParseStep, IndexStep, MappingStep, RefreshAsked, RefreshBegins,
     RefreshDefers, LocksFile, Fetches, ParsesChannels, FindsMapped, SwapsProgrammes,
     DispatchesLate,
     RefreshEnds, RefreshFails, RefreshDies, LeavesUndone, ParseDefers, ParseIsDropped,
     FindsNoIndex,
     BuildBegins, BuildSaves, BuildDies, MapsChannel, MapsUnasked, SavesOverride, OverrideCommits,
     Unmaps
<1> QED
  BY <1>2, <1>3, <1>4, <1>5, <1>6, <1>7, <1>8, <1>9

\* Nobody reads the file without the counter, or without knowing.
LEMMA EpgStepRaced == EpgInv /\ EpgNext => AllRaced' /\ ReadsFile'
<1> SUFFICES ASSUME EpgInv, EpgNext PROVE AllRaced' /\ ReadsFile'
  OBVIOUS
<1> USE DEF AtFile, epgDisk, epgParse, epgPast
<1>0. /\ AllRaced /\ ReadsFile /\ refresh \in RefreshRecs /\ parser \in [Parsers -> ParserRecs]
      /\ parseCount \in Int
  BY DEF EpgInv, EpgTypes, TaskT, RowsT
<1>1. ASSUME UNCHANGED <<parser, epgFile>>,
             refresh'.at \in AtFile \cup {"clear"} => refresh.at \in AtFile \cup {"clear"}
      PROVE  AllRaced' /\ ReadsFile'
  BY <1>0, <1>1 DEF AllRaced, ReadsFile
<1>2. CASE RefreshAsked \/ RefreshBegins \/ RefreshDefers \/ LocksFile \/ ParsesChannels
             \/ FindsMapped \/ SwapsProgrammes \/ DispatchesLate \/ RefreshEnds \/ RefreshFails
             \/ RefreshDies
  <2>1. UNCHANGED <<parser, epgFile>>
    BY <1>2 DEF RefreshAsked, RefreshBegins, RefreshDefers, LocksFile, ParsesChannels, FindsMapped,
       SwapsProgrammes, DispatchesLate, RefreshEnds, RefreshFails, RefreshDies
  <2>2. refresh'.at \in AtFile \cup {"clear"} => refresh.at \in AtFile \cup {"clear"}
    BY <1>0, <1>2 DEF RefreshAsked, RefreshBegins, RefreshDefers, LocksFile, ParsesChannels,
       FindsMapped, SwapsProgrammes, DispatchesLate, RefreshEnds, RefreshFails, RefreshDies,
       NoRefresh, RefreshRecs
  <2> QED
    BY <1>1, <2>1, <2>2
<1>3. CASE FindsNoParses
  <2>1. \A w \in Parsers : parser[w].at \in {"counted", "parsing"} => miscounted
    <3> SUFFICES ASSUME ~miscounted PROVE InCount = {}
      BY DEF InCount
    <3>1. Cardinality(InCount) <= 0 /\ IsFiniteSet(InCount)
      BY <1>0, <1>3, CountMoves, FS_CardinalityType DEF FindsNoParses, EpgInv, CountSays
    <3> QED
      BY <3>1, FS_CardinalityType, FS_EmptySet
  <2>2. epgFile' = epgFile /\ \A w \in Parsers :
          /\ parser'[w].at = parser[w].at /\ parser'[w].edition = parser[w].edition
          /\ parser[w].raced \/ parser[w].at \in {"counted", "parsing"} => parser'[w].raced
    BY <1>0, <1>3, <2>1 DEF FindsNoParses, ParserRecs
  <2> QED
    BY <1>0, <2>2 DEF AllRaced, ReadsFile
<1>4. ASSUME NEW v \in Editions, Fetches(v) PROVE AllRaced' /\ ReadsFile'
  <2>1. refresh.at = "locked" /\ parser' = parser
    BY <1>4 DEF Fetches
  <2> QED
    BY <1>0, <2>1 DEF AllRaced, ReadsFile
<1>5. CASE FindsNoIndex \/ BuildBegins \/ BuildSaves \/ BuildDies \/ MappingStep
  BY <1>1, <1>5 DEF FindsNoIndex, BuildBegins, BuildSaves, BuildDies, MappingStep, MapsChannel,
     MapsUnasked, SavesOverride, OverrideCommits, Unmaps
<1>6. CASE LockLapses
  <2>1. epgFile' = epgFile /\ \A w \in Parsers : parser'[w] = parser[w] \/ parser'[w].at = "off"
    BY <1>0, <1>6 DEF LockLapses, NoParse
  <2>2. refresh'.at \in AtFile \cup {"clear"} => refresh.at \in AtFile \cup {"clear"}
    BY <1>0, <1>6 DEF LockLapses, NoRefresh
  <2> QED
    BY <1>0, <2>1, <2>2 DEF AllRaced, ReadsFile
<1>7. ASSUME NEW r \in GuideRows, ParseDefers(r) \/ ParseIsDropped(r)
      PROVE  AllRaced' /\ ReadsFile'
  BY <1>1, <1>7 DEF ParseDefers, ParseIsDropped
<1>8. ASSUME NEW w \in Parsers,
             \/ \E r \in GuideRows : ParseBegins(w, r)
             \/ IsCounted(w) \/ LocksRow(w) \/ SkipsDuplicate(w) \/ SwapsRow(w) \/ ParseFails(w)
             \/ ParseEnds(w) \/ ClearsCount(w) \/ ParserDies(w)
      PROVE  AllRaced' /\ ReadsFile'
  <2>1. refresh' = refresh /\ epgFile' = epgFile /\ \A o \in Parsers : o # w
          => parser'[o] = parser[o]
    BY <1>0, <1>8 DEF ParseBegins, IsCounted, LocksRow, SkipsDuplicate, SwapsRow, ParseFails,
       ParseEnds, ClearsCount, ParserDies, Uncounts
  <2>2. /\ parser'[w].at \in {"counted", "parsing"} /\ refresh.at \in AtFile \cup {"clear"}
             => parser'[w].raced
        /\ parser'[w].at = "parsing" => parser'[w].raced \/ parser'[w].edition = epgFile
    <3>1. CASE IsCounted(w)
      BY <1>0, <3>1 DEF IsCounted, ParserRecs
    <3>2. CASE LocksRow(w)
      BY <1>0, <3>2 DEF LocksRow, AllRaced
    <3>3. CASE SwapsRow(w) \/ ParseFails(w) \/ ParserDies(w)
      BY <1>0, <3>3 DEF SwapsRow, ParseFails, ParserDies, ParserRecs
    <3>4. CASE \/ \E r \in GuideRows : ParseBegins(w, r)
               \/ SkipsDuplicate(w) \/ ParseEnds(w) \/ ClearsCount(w)
      <4>1. /\ NoParse.at = "off" /\ [NoParse EXCEPT !.at = "clearing"].at = "clearing"
            /\ \A r \in GuideRows : [NoParse EXCEPT !.at = "allowed", !.row = r].at = "allowed"
        BY DEF NoParse
      <4>2. parser'[w].at \in {"off", "clearing", "allowed"}
        BY <1>0, <3>4, <4>1 DEF ParseBegins, SkipsDuplicate, ParseEnds, ClearsCount, Uncounts
      <4> QED
        BY <4>2
    <3> QED
      BY <1>8, <3>1, <3>2, <3>3, <3>4
  <2> QED
    BY <1>0, <2>1, <2>2 DEF AllRaced, ReadsFile
<1> QED
  BY <1>2, <1>3, <1>4, <1>5, <1>6, <1>7, <1>8 DEF EpgNext, RefreshStep, ParseStep, IndexStep

\* A step that changes no guide and no mapping, and drops a parse or a refresh
\* of a row only if the row is owed one, or is unmapped.
LEMMA NothingForgotten ==
  ASSUME EpgInv, UNCHANGED <<epgFile, epgRows, guide, mappedBy, unsaved>>, owed \subseteq owed',
         \A r \in epgRows : Pending(r) =>
           Pending(r)' \/ r \in owed' \/ (r \notin unsaved /\ (r \in Mapped => Parsed(r)')),
         \A r \in Mapped : Parsed(r) => Parsed(r)' \/ r \in owed',
         \A r \in Mapped : Refreshes(r) => Refreshes(r)' \/ r \in owed'
  PROVE  UnsavedKept' /\ GuideKept'
<1>1. UnsavedKept /\ GuideKept /\ unsaved \subseteq epgRows /\ Mapped \subseteq epgRows
        /\ Mapped' = Mapped
  BY DEF EpgInv, EpgTypes, MapsT, Mapped
<1>2. UnsavedKept'
  BY <1>1 DEF UnsavedKept
<1>3. ASSUME NEW r \in Mapped PROVE MatchesFile(r)' <=> MatchesFile(r)
  BY DEF MatchesFile
<1>4. GuideKept'
  <2> SUFFICES ASSUME NEW r \in Mapped, r \notin owed',
                      r \in owed \/ Pending(r) \/ Parsed(r) \/ Refreshes(r) \/ MatchesFile(r)
               PROVE  Pending(r)' \/ Parsed(r)' \/ Refreshes(r)' \/ MatchesFile(r)'
    BY <1>1 DEF GuideKept
  <2> QED
    BY <1>1, <1>3
<1> QED
  BY <1>2, <1>4

\* What the steps of the refresh and of the index leave of the queued parses.
LEMMA ParsesKept ==
  ASSUME parses \in [GuideRows -> Nat], \A r \in GuideRows : parses'[r] >= parses[r],
         \A w \in Parsers : parser'[w].row = parser[w].row /\ parser'[w].at = parser[w].at,
         parses' \in [GuideRows -> Nat]
  PROVE  \A r \in GuideRows : (Pending(r) => Pending(r)') /\ (Parsed(r) => Parsed(r)')
<1> SUFFICES ASSUME NEW r \in GuideRows PROVE (Pending(r) => Pending(r)')
  /\ (Parsed(r) => Parsed(r)')
  OBVIOUS
<1>1. parses[r] > 0 => parses'[r] > 0
  OBVIOUS
<1>2. (Begun(r) => Begun(r)') /\ (Parsed(r) => Parsed(r)')
  BY DEF Begun, Parsed
<1> QED
  BY <1>1, <1>2 DEF Pending

\* A refresh that begins, looks or ends forgets no row; one that fails owes them all.
LEMMA RefreshKeepsWanted ==
  ASSUME EpgInv,
         RefreshAsked \/ RefreshBegins \/ RefreshDefers \/ FindsNoParses \/ LocksFile \/ RefreshEnds
           \/ RefreshFails \/ RefreshDies \/ FindsNoIndex \/ BuildBegins \/ BuildSaves \/ BuildDies
  PROVE  UnsavedKept' /\ GuideKept'
<1> USE DEF epgDisk, epgMaps, epgParse, epgPast, epgQueue
<1>0. /\ refresh \in RefreshRecs /\ parser \in [Parsers -> ParserRecs]
           /\ epgRows \subseteq GuideRows
      /\ parses \in [GuideRows -> Nat] /\ owed \subseteq GuideRows /\ Mapped \subseteq GuideRows
  BY DEF EpgInv, EpgTypes, TaskT, RowsT, DiskT, QueueT, OwedT, Mapped
<1>1. UNCHANGED <<epgFile, epgRows, guide, mappedBy, unsaved, parses>>
  BY DEF RefreshAsked, RefreshBegins, RefreshDefers, FindsNoParses, LocksFile, RefreshEnds,
     RefreshFails, RefreshDies, FindsNoIndex, BuildBegins, BuildSaves, BuildDies
<1>2. \A w \in Parsers : parser'[w].row = parser[w].row /\ parser'[w].at = parser[w].at
  <2>1. CASE FindsNoParses
    BY <1>0, <2>1 DEF FindsNoParses, ParserRecs
  <2>2. CASE ~FindsNoParses
    BY <2>2 DEF RefreshAsked, RefreshBegins, RefreshDefers, LocksFile, RefreshEnds,
       RefreshFails, RefreshDies, FindsNoIndex, BuildBegins, BuildSaves, BuildDies
  <2> QED
    BY <2>1, <2>2
<1>3. /\ owed \subseteq owed'
      /\ \A r \in GuideRows : Refreshes(r) => Refreshes(r)' \/ r \in owed'
  <2>1. CASE RefreshFails \/ RefreshDies
    BY <1>0, <2>1 DEF RefreshFails, RefreshDies, LeavesUndone, Refreshes
  <2>2. CASE RefreshAsked \/ FindsNoIndex \/ BuildBegins \/ BuildSaves \/ BuildDies
    BY <2>2 DEF RefreshAsked, FindsNoIndex, BuildBegins, BuildSaves, BuildDies, Refreshes
  <2>3. CASE RefreshBegins \/ RefreshDefers \/ FindsNoParses \/ LocksFile \/ RefreshEnds
    BY <2>3 DEF RefreshBegins, RefreshDefers, FindsNoParses, LocksFile, RefreshEnds, Refreshes,
       Refreshing, NoRefresh
  <2> QED
    BY <2>1, <2>2, <2>3
<1>4. \A r \in GuideRows : (Pending(r) => Pending(r)') /\ (Parsed(r) => Parsed(r)')
  BY <1>0, <1>1, <1>2, ParsesKept
<1> QED
  BY <1>0, <1>1, <1>3, <1>4, NothingForgotten

\* A refresh at work has the rows before it, writes those it found, and queues a
\* parse of each that was mapped since.
LEMMA WorkKeepsWanted ==
  ASSUME EpgInv,
         (\E v \in Editions : Fetches(v)) \/ ParsesChannels \/ FindsMapped \/ SwapsProgrammes
           \/ DispatchesLate
  PROVE  UnsavedKept' /\ GuideKept'
<1> USE DEF epgDisk, epgMaps, epgParse, epgPast, epgQueue
<1>0. /\ refresh \in RefreshRecs /\ epgRows \subseteq GuideRows /\ UnsavedKept /\ GuideKept
      /\ parses \in [GuideRows -> Nat] /\ unsaved \subseteq epgRows /\ Mapped \subseteq GuideRows
      /\ guide \in [GuideRows -> Editions \cup {0}]
  BY DEF EpgInv, EpgTypes, TaskT, DiskT, MapsT, QueueT, Mapped
<1>1. parser' = parser /\ unsaved' = unsaved /\ parses' \in [GuideRows -> Nat]
      /\ \A r \in GuideRows : parses'[r] >= parses[r]
  BY <1>0 DEF Fetches, ParsesChannels, FindsMapped, SwapsProgrammes, DispatchesLate
<1>2. \A r \in GuideRows : (Pending(r) => Pending(r)') /\ (Parsed(r) => Parsed(r)')
  BY <1>0, <1>1, ParsesKept
<1>3. \A r \in unsaved : r \in owed => r \in owed'
  BY DEF Fetches, ParsesChannels, FindsMapped, SwapsProgrammes, DispatchesLate
<1>4. UnsavedKept'
  BY <1>0, <1>1, <1>2, <1>3 DEF UnsavedKept
<1>5. GuideKept'
  <2>1. CASE (\E v \in Editions : Fetches(v)) \/ ParsesChannels
    BY <1>0, <2>1 DEF GuideKept, Refreshes, Fetches, ParsesChannels, RefreshRecs
  <2>2. CASE FindsMapped
    <3>1. Mapped' = Mapped /\ refresh'.at = IF Mapped = {} THEN "parsed" ELSE "reading"
      BY <2>2 DEF FindsMapped, Mapped
    <3> QED
      BY <3>1 DEF GuideKept, Refreshes
  <2>3. CASE SwapsProgrammes
    <3>1. Mapped' = Mapped /\ refresh'.at = "swapped" /\ refresh'.found = refresh.found
      BY <1>0, <2>3 DEF SwapsProgrammes, Mapped
    <3>2. \A r \in Mapped : r \in refresh.found => MatchesFile(r)'
      BY <1>0, <2>3 DEF SwapsProgrammes, MatchesFile
    <3> QED
      BY <3>1, <3>2 DEF GuideKept, Refreshes
  <2>4. CASE DispatchesLate
    <3>1. Mapped' = Mapped /\ owed' = owed /\ guide' = guide /\ epgFile' = epgFile
      BY <2>4 DEF DispatchesLate, Mapped
    <3>2. \A r \in Mapped : Refreshes(r) => parses'[r] > 0
      BY <1>0, <2>4 DEF DispatchesLate, Refreshes
    <3>3. \A r \in Mapped : MatchesFile(r) => MatchesFile(r)'
      BY <3>1 DEF MatchesFile
    <3>4. \A r \in Mapped : r \in owed' \/ Pending(r)' \/ Parsed(r)' \/ MatchesFile(r)'
      BY <1>0, <1>2, <3>1, <3>2, <3>3 DEF GuideKept, Pending
    <3> QED
      BY <3>1, <3>4 DEF GuideKept
  <2> QED
    BY <2>1, <2>2, <2>3, <2>4
<1> QED
  BY <1>4, <1>5

\* A deferred parse is queued again, a dropped one owed; a lock that lapses is
\* nobody's.
LEMMA DeferralKeepsWanted ==
  ASSUME EpgInv, (\E s \in GuideRows : ParseDefers(s) \/ ParseIsDropped(s)) \/ LockLapses
  PROVE  UnsavedKept' /\ GuideKept'
<1> USE DEF epgDisk, epgMaps, epgParse, epgPast, epgQueue
<1>0. /\ parser \in [Parsers -> ParserRecs] /\ parses \in [GuideRows -> Nat]
           /\ epgRows \subseteq GuideRows
      /\ Mapped \subseteq epgRows
  BY DEF EpgInv, EpgTypes, RowsT, QueueT, DiskT, Mapped
<1>1. UNCHANGED <<epgFile, epgRows, guide, mappedBy, unsaved>> /\ owed \subseteq owed'
  BY DEF ParseDefers, ParseIsDropped, LockLapses
<1>2. refresh' = refresh \/ refresh.at = "dead"
  BY DEF ParseDefers, ParseIsDropped, LockLapses
<1>3. \A r \in Mapped : Refreshes(r) => Refreshes(r)'
  BY <1>2 DEF Refreshes
<1>4. ASSUME NEW r \in epgRows
      PROVE  (Pending(r) => Pending(r)' \/ r \in owed') /\ (Parsed(r) => Parsed(r)')
  <2>0. r \in GuideRows
    BY <1>0
  <2>1. ASSUME NEW s \in GuideRows, ParseDefers(s) \/ ParseIsDropped(s)
        PROVE  (Pending(r) => Pending(r)' \/ r \in owed') /\ (Parsed(r) => Parsed(r)')
    BY <1>0, <2>0, <2>1 DEF ParseDefers, ParseIsDropped, PutBack, Pending, Begun, Parsed
  <2>2. CASE LockLapses
    <3>1. parses' = parses /\ \A o \in Parsers : parser'[o] = parser[o] \/ parser[o].at = "dead"
      BY <1>0, <2>2 DEF LockLapses
    <3> QED
      BY <3>1 DEF Pending, Begun, Parsed
  <2> QED
    BY <2>1, <2>2
<1> QED
  BY <1>0, <1>1, <1>3, <1>4, NothingForgotten

\* A parse that is taken up, sees the row, leaves it to another or fails.
LEMMA ParseKeepsWanted ==
  ASSUME EpgInv, NEW w \in Parsers,
         \/ \E r \in GuideRows : ParseBegins(w, r)
         \/ IsCounted(w) \/ LocksRow(w) \/ SkipsDuplicate(w) \/ ParseFails(w) \/ ParseEnds(w)
         \/ ClearsCount(w) \/ ParserDies(w)
  PROVE  UnsavedKept' /\ GuideKept'
<1> USE DEF epgDisk, epgMaps, epgParse, epgPast, epgQueue
<1>0. /\ parser \in [Parsers -> ParserRecs] /\ parses \in [GuideRows -> Nat]
           /\ epgRows \subseteq GuideRows
      /\ Mapped \subseteq epgRows /\ unsaved \subseteq epgRows
  BY DEF EpgInv, EpgTypes, RowsT, QueueT, DiskT, MapsT, Mapped
<1>1. UNCHANGED <<epgFile, epgRows, guide, mappedBy, unsaved>> /\ owed \subseteq owed'
  BY DEF ParseBegins, IsCounted, LocksRow, SkipsDuplicate, ParseFails, ParseEnds, ClearsCount,
     ParserDies
<1>2. refresh' = refresh
  BY DEF ParseBegins, IsCounted, LocksRow, SkipsDuplicate, ParseFails, ParseEnds, ClearsCount,
     ParserDies
<1>3. \A r \in Mapped : Refreshes(r) => Refreshes(r)'
  BY <1>2 DEF Refreshes
<1>4. ASSUME NEW r \in epgRows
      PROVE  /\ Pending(r) => \/ Pending(r)' \/ r \in owed'
                              \/ r \notin unsaved /\ (r \in Mapped => Parsed(r)')
             /\ r \in Mapped /\ Parsed(r) => Parsed(r)' \/ r \in owed'
  <2>0. r \in GuideRows
    BY <1>0
  <2>1. ASSUME NEW s \in GuideRows, ParseBegins(w, s)
        PROVE  (Pending(r) => Pending(r)') /\ (Parsed(r) => Parsed(r)')
    <3>1. /\ parser'[w].at = "allowed" /\ parser'[w].row = s /\ parser[w].at = "off"
          /\ \A o \in Parsers : o # w => parser'[o] = parser[o]
          /\ s # r => parses'[r] = parses[r]
      BY <1>0, <2>0, <2>1 DEF ParseBegins, NoParse
    <3>2. (Begun(r) => Begun(r)') /\ (Parsed(r) => Parsed(r)')
      BY <3>1 DEF Begun, Parsed
    <3>3. r = s => Begun(r)'
      BY <3>1 DEF Begun
    <3> QED
      BY <3>1, <3>2, <3>3 DEF Pending
  <2>2. CASE IsCounted(w) \/ ParserDies(w)
    <3>1. /\ \A o \in Parsers : o # w => parser'[o] = parser[o]
          /\ parses' = parses
      BY <1>0, <2>2 DEF IsCounted, ParserDies
    <3>2. \/ parser[w].at = "allowed" /\ parser'[w].at = "counted" /\ parser'[w].row = parser[w].row
          \/ parser[w].row \in owed'
      BY <1>0, <2>2 DEF IsCounted, ParserDies, ParserRecs
    <3> QED
      BY <3>1, <3>2 DEF Pending, Begun, Parsed
  <2>3. CASE LocksRow(w)
    <3>1. /\ \A o \in Parsers : o # w => parser'[o] = parser[o]
          /\ parses' = parses /\ parser[w].at = "counted" /\ parser'[w].row = parser[w].row
          /\ parser[w].row \in Mapped => parser'[w].at = "parsing"
          /\ parser[w].row \in unsaved => parser[w].row \in owed'
      BY <1>0, <2>3 DEF LocksRow
    <3> QED
      BY <3>1 DEF Pending, Begun, Parsed
  <2>4. CASE SkipsDuplicate(w)
    <3>1. /\ \A o \in Parsers : o # w => parser'[o] = parser[o]
          /\ parses' = parses /\ parser[w].at = "counted"
          /\ \/ parser[w].row \in owed'
             \/ parser[w].row \notin unsaved
                /\ \E o \in Parsers : parser[o].row = parser[w].row /\ parser[o].at = "parsing"
      BY <1>0, <2>4 DEF SkipsDuplicate, Uncounts
    <3>2. Parsed(r) => Parsed(r)'
      BY <3>1 DEF Parsed
    <3>3. Pending(r) => Pending(r)' \/ parser[w].row = r
      BY <3>1 DEF Pending, Begun
    <3> QED
      BY <3>1, <3>2, <3>3 DEF Parsed
  <2>5. CASE ParseFails(w) \/ ParseEnds(w) \/ ClearsCount(w)
    <3>1. /\ \A o \in Parsers : o # w => parser'[o] = parser[o]
          /\ parses' = parses /\ parser[w].at \notin {"allowed", "counted"}
          /\ parser[w].at = "parsing" => parser[w].row \in owed'
      BY <1>0, <2>5 DEF ParseFails, ParseEnds, ClearsCount, Uncounts
    <3> QED
      BY <3>1 DEF Pending, Begun, Parsed
  <2> QED
    BY <2>1, <2>2, <2>3, <2>4, <2>5
<1> QED
  BY <1>0, <1>1, <1>3, <1>4, NothingForgotten

\* A parse that ends leaves the row current, or knows that it does not.
LEMMA SwapKeepsWanted ==
  ASSUME EpgInv, NEW w \in Parsers, SwapsRow(w)
  PROVE  UnsavedKept' /\ GuideKept'
<1> USE DEF epgDisk, epgMaps, epgParse, epgPast, epgQueue
<1>s. PICK s : s = parser[w].row
  OBVIOUS
<1>0. /\ parser \in [Parsers -> ParserRecs] /\ guide \in [GuideRows -> Editions \cup {0}]
      /\ epgRows \subseteq GuideRows /\ UnsavedKept /\ GuideKept /\ ReadsFile
  BY DEF EpgInv, EpgTypes, RowsT, DiskT
<1>1. /\ UNCHANGED <<epgFile, epgRows, mappedBy, unsaved, refresh, parses>> /\ Mapped' = Mapped
      /\ s \in GuideRows /\ parser[w].at = "parsing"
      /\ \A o \in Parsers : o # w => parser'[o] = parser[o]
      /\ \A r \in GuideRows : r # s => guide'[r] = guide[r] /\ (r \in owed => r \in owed')
      /\ s \in owed /\ s \in unsaved => s \in owed'
  BY <1>0, <1>s DEF SwapsRow, Mapped
<1>2. MatchesFile(s)' \/ s \in owed'
  <2>1. CASE parser[w].edition = epgFile
    BY <1>0, <1>1, <1>s, <2>1 DEF SwapsRow, MatchesFile
  <2>2. CASE parser[w].edition # epgFile
    BY <1>0, <1>1, <1>s, <2>2 DEF SwapsRow, ReadsFile
  <2> QED
    BY <2>1, <2>2
<1>3. \A r \in GuideRows : /\ Pending(r) => Pending(r)'
                           /\ r # s => (Parsed(r) => Parsed(r)')
                                /\ (MatchesFile(r) => MatchesFile(r)')
                           /\ Refreshes(r) => Refreshes(r)'
  BY <1>1, <1>s DEF Pending, Begun, Parsed, MatchesFile, Refreshes
<1>4. unsaved \subseteq GuideRows /\ Mapped \subseteq GuideRows
  BY DEF EpgInv, EpgTypes, DiskT, MapsT, Mapped
<1>5. ASSUME NEW r \in unsaved PROVE r \in owed' \/ Pending(r)'
  BY <1>0, <1>1, <1>3, <1>4 DEF UnsavedKept
<1>6. ASSUME NEW r \in Mapped
      PROVE  r \in owed' \/ Pending(r)' \/ Parsed(r)' \/ Refreshes(r)' \/ MatchesFile(r)'
  <2>1. CASE r = s
    BY <1>2, <2>1
  <2>2. CASE r # s
    BY <1>0, <1>1, <1>3, <1>4, <2>2 DEF GuideKept
  <2> QED
    BY <2>1, <2>2
<1> QED
  BY <1>1, <1>5, <1>6 DEF UnsavedKept, GuideKept

\* Whoever maps a row queues its parse, or leaves it to the next refresh.
LEMMA MappingKeepsWanted ==
  ASSUME EpgInv, NEW s \in GuideRows,
         MapsChannel(s) \/ MapsUnasked(s) \/ SavesOverride(s) \/ OverrideCommits(s) \/ Unmaps(s)
  PROVE  UnsavedKept' /\ GuideKept'
<1> USE DEF epgDisk, epgMaps, epgParse, epgPast, epgQueue
<1>0. /\ parses \in [GuideRows -> Nat] /\ UnsavedKept /\ GuideKept
      /\ mappedBy \in [GuideRows -> {"nothing", "channel", "override"}]
      /\ epgRows \subseteq GuideRows /\ unsaved \subseteq epgRows
  BY DEF EpgInv, EpgTypes, QueueT, MapsT, DiskT
<1>1. UNCHANGED <<epgFile, epgRows, guide, refresh, parser>> /\ owed \subseteq owed'
      /\ parses' \in [GuideRows -> Nat] /\ \A r \in GuideRows : parses'[r] >= parses[r]
  BY <1>0 DEF MapsChannel, MapsUnasked, SavesOverride, OverrideCommits, Unmaps
<1>2. \A r \in GuideRows : /\ Pending(r) => Pending(r)'
                           /\ Parsed(r) => Parsed(r)'
                           /\ MatchesFile(r) => MatchesFile(r)'
                           /\ Refreshes(r) => Refreshes(r)'
  BY <1>0, <1>1, ParsesKept DEF MatchesFile, Refreshes
<1>3. \A r \in unsaved' : r \in unsaved \/ r \in owed' \/ parses'[r] > 0
  BY <1>0 DEF MapsChannel, MapsUnasked, SavesOverride, OverrideCommits, Unmaps
<1>4. \A r \in Mapped' : r \in Mapped \/ r \in unsaved \/ r \in owed' \/ parses'[r] > 0
  BY <1>0 DEF MapsChannel, MapsUnasked, SavesOverride, OverrideCommits, Unmaps, Mapped
<1>5. unsaved \subseteq GuideRows /\ Mapped \subseteq GuideRows
  BY <1>0 DEF Mapped
<1>6. UnsavedKept'
  BY <1>0, <1>1, <1>2, <1>3, <1>5 DEF UnsavedKept, Pending
<1>7. GuideKept'
  BY <1>0, <1>1, <1>2, <1>4, <1>5 DEF GuideKept, UnsavedKept, Pending
<1> QED
  BY <1>6, <1>7

\* Every step keeps the invariant.
LEMMA EpgStepInv == EpgInv /\ [EpgNext]_epgVars => EpgInv'
<1>1. ASSUME EpgInv, EpgNext PROVE EpgInv'
  <2>1. EpgTypes'
    BY <1>1, EpgStepTypes DEF EpgInv
  <2>2. OwnsFile' /\ BuildsIt' /\ IndexTells' /\ CountSays' /\ AllRaced' /\ ReadsFile'
    BY <1>1, EpgStepFile, EpgStepCount, EpgStepRaced
  <2>3. UnsavedKept' /\ GuideKept'
    BY <1>1, RefreshKeepsWanted, WorkKeepsWanted, DeferralKeepsWanted, ParseKeepsWanted,
       SwapKeepsWanted, MappingKeepsWanted
    DEF EpgNext, RefreshStep, ParseStep, IndexStep, MappingStep
  <2> QED
    BY <2>1, <2>2, <2>3 DEF EpgInv
<1>2. ASSUME EpgInv, UNCHANGED epgVars PROVE EpgInv'
  BY <1>2 DEF EpgInv, epgVars, epgDisk, epgMaps, epgParse, epgQueue, epgPast, EpgTypes, DiskT,
     MapsT,
     TaskT, RowsT, QueueT, OwedT, OwnsFile, BuildsIt, IndexTells, CountSays, InCount, AllRaced,
     ReadsFile,
     UnsavedKept, GuideKept, Mapped, Pending, Begun, Parsed, Refreshes, MatchesFile
<1> QED
  BY <1>1, <1>2

\* A source that has just been indexed, with nothing mapped.
LEMMA InitEpgInv == EpgInit => EpgInv
<1> SUFFICES ASSUME EpgInit PROVE EpgInv
  OBVIOUS
<1>1. 1 \in Editions /\ Lists[1] \subseteq GuideRows
  BY EpgAssumption DEF Editions
<1>2. EpgTypes
  <2>1. DiskT /\ MapsT
    BY <1>1 DEF EpgInit, DiskT, MapsT
  <2>2. TaskT /\ QueueT /\ OwedT
    BY DEF EpgInit, TaskT, QueueT, OwedT, RefreshRecs, RefreshPlaces, NoRefresh
  <2>3. RowsT
    BY NoParseTyped DEF EpgInit, RowsT
  <2> QED
    BY <2>1, <2>2, <2>3 DEF EpgTypes
<1>3. InCount = {} /\ CountSays
  <2>1. InCount = {}
    BY NoParseTyped DEF EpgInit, InCount
  <2> QED
    BY <2>1, FS_EmptySet DEF EpgInit, CountSays
<1>4. OwnsFile /\ BuildsIt /\ IndexTells
  BY DEF EpgInit, OwnsFile, BuildsIt, IndexTells, AtFile, NoRefresh
<1>5. AllRaced /\ ReadsFile
  BY NoParseTyped DEF EpgInit, AllRaced, ReadsFile
<1>6. UnsavedKept /\ GuideKept
  BY <1>1 DEF EpgInit, UnsavedKept, GuideKept, Mapped
<1> QED
  BY <1>2, <1>3, <1>4, <1>5, <1>6 DEF EpgInv

\* The invariant of the guide, in every state.
LEMMA EpgInvHolds == EpgSpec => []EpgInv
BY InitEpgInv, EpgStepInv, PTL DEF EpgSpec

\* The source's variables are of their types, and the file's lock is a refresh's
\* only while there is one.
THEOREM GuideTypes == EpgSpec => []EpgTypeOK
<1>1. EpgInv => EpgTypeOK
  BY DEF EpgInv, EpgTypes, DiskT, MapsT, TaskT, RowsT, QueueT, OwedT, EpgTypeOK, OwnsFile,
     AtFile, Refreshing
<1> QED
  BY <1>1, EpgInvHolds, PTL

\* Whenever nothing is queued or running, each mapped row that is not owed a
\* parse has the programmes of the file on disk, and the index, if there is one,
\* is that file's, for any rows, editions, workers, mappings and failures
\* (epg/tasks.py).
THEOREM GuideStaysCurrent == EpgSpec => []GuideIsCurrent
<1>1. EpgInv => GuideIsCurrent
  <2> SUFFICES ASSUME EpgInv, NothingQueued PROVE
        /\ \A r \in Mapped \ owed : guide[r] = EditionOf(r, epgFile)
        /\ epgIndex # 0 /\ ~misindexed => epgIndex = epgFile
    BY DEF GuideIsCurrent
  <2>1. refresh.at = "off" /\ fileLock = "free" /\ builds = 0
    BY DEF NothingQueued, Refreshing
  <2>2. epgIndex # 0 /\ ~misindexed => epgIndex = epgFile
    BY <2>1 DEF EpgInv, IndexTells, AtFile
  <2>3. ASSUME NEW r \in Mapped \ owed PROVE guide[r] = EditionOf(r, epgFile)
    <3>1. r \in GuideRows /\ parses[r] = 0
      BY DEF EpgInv, EpgTypes, DiskT, Mapped, NothingQueued
    <3>2. ~Pending(r) /\ ~Parsed(r) /\ ~Refreshes(r)
      BY <2>1, <3>1 DEF Pending, Begun, Parsed, Refreshes, NothingQueued
    <3> QED
      BY <3>2 DEF EpgInv, GuideKept, MatchesFile
  <2> QED
    BY <2>2, <2>3
<1> QED
  BY <1>1, EpgInvHolds, PTL

----------------------------------------------------------------------------
(* The streams of the accounts. *)

\* Functions from some of D.
Partial(D, R) == UNION {[d -> R] : d \in SUBSET D}

\* The types, with what StreamTypeOK does not spell out.
RowRecs    == [hash : Hashes, account : Accounts, entry : Entries, seen : 0..MaxToday]
PullPlaces == {"off", "begun", "grouped", "batches", "cleaned"}
PullRecs   == [at : PullPlaces, account : Accounts \cup {Nothing}, start : Nat,
               list : SUBSET Entries, keys : DOMAIN NameUnder \cup {Nothing},
               todo : SUBSET Entries, found : Partial(Entries, SUBSET Nat), had : SUBSET Hashes]
RehashRecs == [at : {"off", "rows"}, keys : DOMAIN NameUnder \cup {Nothing}, last : Nat,
               kept : Partial(Hashes, Nat)]
Spendings  == {"pulls", "rehashes", "edits", "mishaps", "rows"}

OutlayT == outlay \in [Spendings -> Nat] /\ outlay["rows"] <= MaxStreams
StreamT == /\ DOMAIN streams \subseteq 1..outlay["rows"]
           /\ streams \in [DOMAIN streams -> RowRecs]
           /\ links \in [Lineup -> SUBSET DOMAIN streams]
           /\ \A i, j \in DOMAIN streams : streams[i].hash = streams[j].hash => i = j
ListsT  == /\ DOMAIN groups \subseteq Groups
           /\ listCache \in [Accounts -> (SUBSET Entries) \cup {Nothing}]
ClockT  == /\ hashKeys \in DOMAIN NameUnder /\ today \in 0..MaxToday
           /\ m3uLock \in [Accounts -> {"free", "pull", "rehash", "dead"}]
           /\ listedOn \in [Hashes -> 0..MaxToday] /\ \A h \in Hashes : listedOn[h] <= today
\* A refresh is of the day.
Fits(p) == /\ p.start <= today
           /\ p.at # "off" => p.account \in Accounts /\ p.start = today
           /\ p.at \in {"batches", "cleaned"} => p.keys \in DOMAIN NameUnder
PullT   == pull \in [Pullers -> PullRecs] /\ \A w \in Pullers : Fits(pull[w])
RehashT == /\ rehash \in RehashRecs /\ rehashes \in Seq(DOMAIN NameUnder)
           /\ rehash.at = "rows" => rehash.keys \in DOMAIN NameUnder
StreamTypes == OutlayT /\ StreamT /\ ListsT /\ ClockT /\ PullT /\ RehashT

\* What a refresh has written a row of, it has seen.
SeenLately == \A w \in Pullers : \A i \in DOMAIN streams :
                streams[i].hash \in pull[w].had => streams[i].seen >= pull[w].start
\* A row is no older than the last refresh that wrote a row of its hash.
NoOlder == \A i \in DOMAIN streams : listedOn[streams[i].hash] <= streams[i].seen
StreamInv == StreamTypes /\ SeenLately /\ NoOlder

\* A partial function stays one with one argument more ...
LEMMA PutIsPartial ==
  ASSUME NEW D, NEW R, NEW f \in Partial(D, R), NEW i \in D, NEW v \in R
  PROVE  Put(f, i, v) \in Partial(D, R)
<1>1. PICK d \in SUBSET D : f \in [d -> R]
  BY DEF Partial
<1>2. Put(f, i, v) \in [d \cup {i} -> R] /\ d \cup {i} \in SUBSET D
  BY <1>1 DEF Put
<1> QED
  BY <1>2 DEF Partial

\* ... without some arguments ...
LEMMA WithoutIsPartial ==
  ASSUME NEW D, NEW R, NEW f \in Partial(D, R), NEW ids
  PROVE  Without(f, ids) \in Partial(D, R)
<1>1. PICK d \in SUBSET D : f \in [d -> R]
  BY DEF Partial
<1>2. Without(f, ids) \in [d \ ids -> R] /\ d \ ids \in SUBSET D
  BY <1>1 DEF Without
<1> QED
  BY <1>2 DEF Partial

\* ... and with none.
LEMMA EmptyIsPartial ==
  ASSUME NEW D, NEW R PROVE <<>> \in Partial(D, R)
<1>1. <<>> \in [{} -> R] /\ {} \in SUBSET D
  OBVIOUS
<1> QED
  BY <1>1 DEF Partial

\* The hash of an entry.
LEMMA HashByIsHash ==
  ASSUME NEW k \in DOMAIN NameUnder, NEW e \in Entries PROVE HashBy(k, e) \in Hashes
BY DEF Hashes

\* A puller that does nothing.
LEMMA IdleTyped == Idle \in PullRecs /\ Idle.at = "off" /\ Idle.start = 0 /\ Idle.had = {}
BY EmptyIsPartial DEF Idle, PullRecs, PullPlaces

\* A rehash that does not run.
LEMMA NoRehashTyped == NoRehash \in RehashRecs /\ NoRehash.at = "off"
BY EmptyIsPartial DEF NoRehash, RehashRecs

\* One puller's step.
LEMMA PullerMoves ==
  ASSUME PullT, NEW w \in Pullers, NEW p \in PullRecs, Fits(p),
         pull' = [pull EXCEPT ![w] = p], today' = today
  PROVE  PullT'
BY DEF PullT, Fits

\* A step spends one of one kind, or nothing; a row is created only by a batch.
LEMMA Spends ==
  ASSUME OutlayT, NEW what \in Spendings \ {"rows"}, NEW n, Use(what, n)
  PROVE  OutlayT' /\ outlay'["rows"] = outlay["rows"]
BY DEF OutlayT, Use, Spendings

\* A step that leaves the rows and their links.
LEMMA RowsStay ==
  ASSUME OutlayT, StreamT, UNCHANGED <<streams, links>>,
         outlay' = outlay \/ \E what \in Spendings \ {"rows"} : \E n \in Nat : Use(what, n)
  PROVE  OutlayT' /\ StreamT'
<1>1. OutlayT' /\ outlay'["rows"] = outlay["rows"]
  BY Spends DEF OutlayT
<1> QED
  BY <1>1 DEF StreamT

\* A batch's step leaves one row of a hash.
LEMMA BatchKeepsRows ==
  ASSUME StreamTypes, NEW w \in Pullers, NEW e \in pull[w].todo, BatchWrites(w, e)
  PROVE  OutlayT' /\ StreamT'
<1> DEFINE p == pull[w]
           h == HashBy(p.keys, e)
           new == outlay["rows"] + 1
<1>1. /\ p \in PullRecs /\ p.at = "batches" /\ p.account \in Accounts /\ p.keys \in DOMAIN NameUnder
      /\ e \in Entries /\ today \in 0..MaxToday /\ h \in Hashes
  BY HashByIsHash DEF BatchWrites, StreamTypes, PullT, Fits, PullRecs, ClockT
<1>2. links' = links
  BY DEF BatchWrites
<1>3. CASE p.found[e] = {} /\ RowsBy(h) = {}
  <2> DEFINE r == [hash |-> h, account |-> p.account, entry |-> e, seen |-> today]
  <2>1. outlay["rows"] < MaxStreams /\ outlay' = [outlay EXCEPT !["rows"] = @ + 1]
        /\ streams' = Put(streams, new, r)
    BY <1>3 DEF BatchWrites, Use
  <2>2. OutlayT' /\ outlay'["rows"] = new /\ new \in Nat
    BY <2>1, StreamAssumption DEF StreamTypes, OutlayT, Spendings
  <2>3. r \in RowRecs /\ r.hash = h
    BY <1>1 DEF RowRecs
  <2>4. new \notin DOMAIN streams /\ DOMAIN streams' = DOMAIN streams \cup {new}
          /\ streams'[new] = r
        /\ \A i \in DOMAIN streams : streams'[i] = streams[i]
    BY <2>1, <2>2 DEF Put, StreamTypes, StreamT, OutlayT, Spendings
  <2>5. \A i \in DOMAIN streams : streams[i].hash # h
    BY <1>3 DEF RowsBy
  <2> HIDE DEF r, h, new
  <2>6. streams' \in [DOMAIN streams' -> RowRecs] /\ DOMAIN streams' \subseteq 1..outlay'["rows"]
    <3>1. streams' = [j \in DOMAIN streams \cup {new} |-> IF j = new THEN r ELSE streams[j]]
      BY <2>1 DEF Put
    <3>2. \A j \in DOMAIN streams \cup {new} : streams'[j] \in RowRecs
      BY <2>3, <2>4 DEF StreamTypes, StreamT
    <3>3. DOMAIN streams' \subseteq 1..outlay'["rows"]
      BY <2>2, <2>4 DEF StreamTypes, StreamT, OutlayT, Spendings, new
    <3> QED
      BY <3>1, <3>2, <3>3, <2>4
  <2>7. links' \in [Lineup -> SUBSET DOMAIN streams']
    BY <1>2, <2>4 DEF StreamTypes, StreamT
  <2>8. \A i, j \in DOMAIN streams' : streams'[i].hash = streams'[j].hash => i = j
    BY <2>3, <2>4, <2>5 DEF StreamTypes, StreamT
  <2> QED
    BY <2>2, <2>6, <2>7, <2>8 DEF StreamT
<1>4. CASE ~(p.found[e] = {} /\ RowsBy(h) = {})
  <2> DEFINE hit == p.found[e] \cap DOMAIN streams
  <2>1. outlay' = outlay
        /\ streams' = [i \in DOMAIN streams |->
             IF i \in hit THEN [streams[i] EXCEPT !.entry = e, !.seen = today] ELSE streams[i]]
    BY <1>4 DEF BatchWrites
  <2>2. ASSUME NEW i \in DOMAIN streams
        PROVE  streams'[i] \in RowRecs /\ streams'[i].hash = streams[i].hash
    <3>1. streams[i] \in RowRecs
      BY DEF StreamTypes, StreamT
    <3> HIDE DEF hit
    <3>2. streams'[i] = IF i \in hit THEN [streams[i] EXCEPT !.entry = e, !.seen = today] ELSE streams[i]
      BY <2>1
    <3> QED
      BY <1>1, <3>1, <3>2 DEF RowRecs
  <2>3. DOMAIN streams' = DOMAIN streams /\ streams' \in [DOMAIN streams -> RowRecs]
    BY <2>1, <2>2
  <2>4. /\ links' \in [Lineup -> SUBSET DOMAIN streams'] /\ OutlayT' /\ outlay' = outlay
        /\ DOMAIN streams' \subseteq 1..outlay["rows"]
    BY <1>2, <2>1, <2>3 DEF StreamTypes, OutlayT, StreamT
  <2>5. \A i, j \in DOMAIN streams' : streams'[i].hash = streams'[j].hash => i = j
    BY <2>2, <2>3 DEF StreamTypes, StreamT
  <2> QED
    BY <2>3, <2>4, <2>5 DEF StreamT
<1> QED
  BY <1>3, <1>4

\* Rows that are deleted with their links.
LEMMA CleanKeepsRows ==
  ASSUME StreamTypes, NEW w \in Pullers, PullCleans(w)
  PROVE  OutlayT' /\ StreamT'
<1>1. PICK gone : streams' = Without(streams, gone) /\ links' = [c \in Lineup |-> links[c] \ gone]
                  /\ outlay' = outlay
  BY DEF PullCleans
<1>2. DOMAIN streams' = DOMAIN streams \ gone /\ \A i \in DOMAIN streams' : streams'[i] = streams[i]
  BY <1>1 DEF Without
<1>3. streams' \in [DOMAIN streams' -> RowRecs]
  BY <1>1, <1>2 DEF Without, StreamTypes, StreamT
<1>4. links' \in [Lineup -> SUBSET DOMAIN streams']
  BY <1>1, <1>2 DEF StreamTypes, StreamT
<1> QED
  BY <1>1, <1>2, <1>3, <1>4 DEF StreamTypes, OutlayT, StreamT

\* The next row of a rehash.
LEMMA NextRow ==
  ASSUME StreamTypes, RehashRow
  PROVE  \E j \in DOMAIN streams, h \in Hashes :
           /\ rehash.at = "rows" /\ j \in Left /\ \A i \in Left : j <= i
           /\ \/ PassesOver(j)
              \/ \E i \in DOMAIN streams :
                   /\ Merges(i, j, h)
                   /\ i = j => h \in DOMAIN rehash.kept /\ rehash.kept[h] = j
              \/ RowsBy(h) \subseteq {j} /\ GetsHash(j, h)
<1>1. PICK j \in Left :
        LET h == HashBy(rehash.keys, streams[j].entry)
            rivals == IF h \in DOMAIN rehash.kept THEN {rehash.kept[h]} \cap DOMAIN streams
                      ELSE RowsBy(h) \ {j}
        IN  /\ \A i \in Left : j <= i
            /\ \/ PassesOver(j)
               \/ \E i \in rivals : Merges(i, j, h)
               \/ rivals = {} /\ RowsBy(h) \subseteq {j} /\ GetsHash(j, h)
  BY DEF RehashRow
<1> DEFINE h == HashBy(rehash.keys, streams[j].entry)
           rivals == IF h \in DOMAIN rehash.kept THEN {rehash.kept[h]} \cap DOMAIN streams
                     ELSE RowsBy(h) \ {j}
<1>2. j \in DOMAIN streams /\ rehash.at = "rows"
  BY DEF Left, RehashRow
<1>3. h \in Hashes
  BY <1>2, HashByIsHash DEF StreamTypes, StreamT, RehashT, RowRecs
<1>4. \A i \in rivals : i \in DOMAIN streams
                          /\ (i = j => h \in DOMAIN rehash.kept /\ rehash.kept[h] = j)
  BY DEF RowsBy
<1> HIDE DEF h, rivals
<1>5. \/ PassesOver(j)
      \/ \E i \in rivals : Merges(i, j, h)
      \/ RowsBy(h) \subseteq {j} /\ GetsHash(j, h)
  BY <1>1 DEF h, rivals
<1>6. \A i \in Left : j <= i
  BY <1>1
<1> QED
  BY <1>2, <1>3, <1>4, <1>5, <1>6

\* A rehash's row: one row gets a hash that no other has then, and a row that is
\* deleted leaves no link.
LEMMA HashGiven ==
  ASSUME StreamTypes, RehashRow
  PROVE  \/ UNCHANGED <<streams, links, listedOn, pull>>
         \/ \E k \in DOMAIN streams, h \in Hashes, gone \in SUBSET DOMAIN streams :
              /\ streams' = [x \in DOMAIN streams \ gone |->
                               IF x = k THEN [streams[k] EXCEPT !.hash = h] ELSE streams[x]]
              /\ \A x \in DOMAIN streams \ gone : x # k => streams[x].hash # h
              /\ links' \in [Lineup -> SUBSET (DOMAIN streams \ gone)]
              /\ ListedLike(k, h)
<1>1. PICK j \in DOMAIN streams, h \in Hashes :
        \/ PassesOver(j)
        \/ \E i \in DOMAIN streams : Merges(i, j, h)
        \/ RowsBy(h) \subseteq {j} /\ GetsHash(j, h)
  BY NextRow
<1>2. CASE PassesOver(j)
  BY <1>2 DEF PassesOver
<1>3. ASSUME NEW i \in DOMAIN streams, Merges(i, j, h)
      PROVE  \E k \in DOMAIN streams, gone \in SUBSET DOMAIN streams :
              /\ streams' = [x \in DOMAIN streams \ gone |->
                               IF x = k THEN [streams[k] EXCEPT !.hash = h] ELSE streams[x]]
              /\ \A x \in DOMAIN streams \ gone : x # k => streams[x].hash # h
              /\ links' \in [Lineup -> SUBSET (DOMAIN streams \ gone)]
              /\ ListedLike(k, h)
  <2>1. PICK k \in {i, j}, g \in {i, j} :
          /\ {k, g} = {i, j} /\ links' = MovesLinks(k, g) /\ ListedLike(k, h)
          /\ streams' = Without([streams EXCEPT ![k].hash = h], {g})
    BY <1>3 DEF Merges, KeptAndGone
  <2>2. streams' = [x \in DOMAIN streams \ {g} |->
                      IF x = k THEN [streams[k] EXCEPT !.hash = h] ELSE streams[x]]
    BY <2>1 DEF Without
  <2>3. \A x \in DOMAIN streams \ {g} : x # k => streams[x].hash # h
    BY <1>3, <2>1 DEF Merges, RowsBy
  <2>4. links' \in [Lineup -> SUBSET (DOMAIN streams \ {g})]
    BY <2>1 DEF MovesLinks, StreamTypes, StreamT
  <2>5. {g} \in SUBSET DOMAIN streams /\ k \in DOMAIN streams
    OBVIOUS
  <2> QED
    BY <2>1, <2>2, <2>3, <2>4, <2>5
<1>4. CASE RowsBy(h) \subseteq {j} /\ GetsHash(j, h)
  <2>1. streams' = [x \in DOMAIN streams \ {} |->
                      IF x = j THEN [streams[j] EXCEPT !.hash = h] ELSE streams[x]]
    BY <1>4 DEF GetsHash
  <2>2. \A x \in DOMAIN streams \ {} : x # j => streams[x].hash # h
    BY <1>4 DEF RowsBy
  <2>3. links' \in [Lineup -> SUBSET (DOMAIN streams \ {})] /\ ListedLike(j, h)
    BY <1>4 DEF GetsHash, StreamTypes, StreamT
  <2> QED
    BY <2>1, <2>2, <2>3
<1> QED
  BY <1>1, <1>2, <1>3, <1>4

\* A rehash's row leaves one row of a hash.
LEMMA RehashKeepsRows ==
  ASSUME StreamTypes, RehashRow
  PROVE  OutlayT' /\ StreamT'
<1>1. outlay' = outlay
  BY DEF RehashRow
<1>2. CASE UNCHANGED <<streams, links>>
  BY <1>1, <1>2, RowsStay DEF StreamTypes
<1>3. ASSUME NEW k \in DOMAIN streams, NEW h \in Hashes, NEW gone \in SUBSET DOMAIN streams,
             streams' = [x \in DOMAIN streams \ gone |->
                           IF x = k THEN [streams[k] EXCEPT !.hash = h] ELSE streams[x]],
             \A x \in DOMAIN streams \ gone : x # k => streams[x].hash # h,
             links' \in [Lineup -> SUBSET (DOMAIN streams \ gone)]
      PROVE  StreamT' /\ OutlayT'
  <2>1. ASSUME NEW x \in DOMAIN streams \ gone
        PROVE  /\ streams'[x] \in RowRecs
               /\ streams'[x].hash = IF x = k THEN h ELSE streams[x].hash
    <3>1. streams[x] \in RowRecs
      BY DEF StreamTypes, StreamT
    <3>2. streams'[x] = IF x = k THEN [streams[k] EXCEPT !.hash = h] ELSE streams[x]
      BY <1>3
    <3> QED
      BY <3>1, <3>2 DEF RowRecs
  <2>2. DOMAIN streams' = DOMAIN streams \ gone
    BY <1>3
  <2>3. streams' \in [DOMAIN streams' -> RowRecs]
    BY <1>3, <2>1, <2>2
  <2>4. DOMAIN streams' \subseteq 1..outlay'["rows"] /\ OutlayT'
    BY <1>1, <2>2 DEF StreamTypes, StreamT, OutlayT
  <2>5. \A x, y \in DOMAIN streams' : streams'[x].hash = streams'[y].hash => x = y
    BY <1>3, <2>1, <2>2 DEF StreamTypes, StreamT
  <2> QED
    BY <1>3, <2>2, <2>3, <2>4, <2>5 DEF StreamT
<1> QED
  BY <1>2, <1>3, HashGiven

\* A channel gets a row that is there.
LEMMA LinkKeepsRows ==
  ASSUME StreamTypes, NEW c \in Lineup, NEW i \in DOMAIN streams, LinksRow(c, i)
  PROVE  OutlayT' /\ StreamT'
<1>1. OutlayT' /\ outlay'["rows"] = outlay["rows"]
  BY Spends, StreamAssumption DEF LinksRow, StreamTypes, Spendings
<1> QED
  BY <1>1 DEF LinksRow, StreamTypes, StreamT

\* Every step keeps the rows and the links ...
LEMMA StreamStepRows == StreamTypes /\ StreamNext => OutlayT' /\ StreamT'
<1> SUFFICES ASSUME StreamTypes, StreamNext PROVE OutlayT' /\ StreamT'
  OBVIOUS
<1>1. CASE \E w \in Pullers : \E e \in pull[w].todo : BatchWrites(w, e)
  BY <1>1, BatchKeepsRows
<1>2. CASE \E w \in Pullers : PullCleans(w)
  BY <1>2, CleanKeepsRows
<1>3. CASE RehashRow
  BY <1>3, RehashKeepsRows
<1>4. CASE \E c \in Lineup, i \in DOMAIN streams : LinksRow(c, i)
  BY <1>4, LinkKeepsRows
<1>5. CASE UNCHANGED <<streams, links>>
           /\ (outlay' = outlay \/ \E what \in Spendings \ {"rows"} : \E n \in Nat : Use(what, n))
  BY <1>5, RowsStay DEF StreamTypes
<1>6. CASE PullStep
  <2>1. CASE \E w \in Pullers : \/ \E a \in Accounts : PullBegins(w, a)
                                \/ \E e \in pull[w].todo : BatchFinds(w, e) \/ BatchFails(w, e)
                                \/ PullFetches(w) \/ PullReads(w)
                                \/ PullEnds(w) \/ PullFails(w) \/ PullDies(w)
    BY <1>5, <2>1, StreamAssumption
       DEF PullBegins, BatchFinds, BatchFails, PullFetches, PullReads, PullEnds, PullFails,
           PullDies, Mishap, streamDisk, Spendings
  <2>2. CASE \E a \in Accounts : PullsGroups(a)
    BY <1>5, <2>2, StreamAssumption DEF PullsGroups, Spendings
  <2> QED
    BY <1>1, <1>2, <1>6, <2>1, <2>2 DEF PullStep
<1>7. CASE RehashStep
  BY <1>3, <1>5, <1>7, StreamAssumption
     DEF RehashStep, SavesKeys, AsksRehash, RehashBegins, RehashEnds, RehashDies, M3uLockLapses,
         Mishap, streamDisk, Spendings
<1>8. CASE LineupStep
  BY <1>4, <1>5, <1>8, StreamAssumption
     DEF LineupStep, SwitchesGroup, DayPasses, streamDisk, Spendings
<1> QED
  BY <1>6, <1>7, <1>8 DEF StreamNext

\* The groups of a playlist are groups.
LEMMA GroupsTyped ==
  ASSUME ListsT, NEW a \in Accounts, NEW l \in Playlists(a), NEW day, SeesGroups(a, l, day)
  PROVE  DOMAIN groups' \subseteq Groups /\ l \in SUBSET Entries
<1>1. l \in SUBSET Entries /\ \A e \in l : AccountOf[e] = a
  BY DEF Playlists, EntriesOf
<1>2. \A e \in l : <<a, GroupTitle[e]>> \in Groups
  BY <1>1 DEF Groups
<1>3. DOMAIN groups' = DOMAIN groups \cup {<<a, GroupTitle[e]>> : e \in l}
  BY DEF SeesGroups
<1> QED
  BY <1>1, <1>2, <1>3 DEF ListsT

\* ... the groups and the playlist files ...
LEMMA StreamStepLists == StreamTypes /\ StreamNext => ListsT'
<1> SUFFICES ASSUME StreamTypes, StreamNext PROVE ListsT'
  OBVIOUS
<1>1. ListsT /\ pull \in [Pullers -> PullRecs]
  BY DEF StreamTypes, PullT
<1>2. CASE UNCHANGED <<groups, listCache>>
  BY <1>1, <1>2 DEF ListsT
<1>3. ASSUME NEW w \in Pullers, PullFetches(w) PROVE ListsT'
  <2>1. pull[w].account \in Accounts
    BY <1>3 DEF StreamTypes, PullT, Fits, PullFetches
  <2>2. PICK l \in Playlists(pull[w].account) :
          /\ SeesGroups(pull[w].account, l, pull[w].start)
          /\ listCache' = [listCache EXCEPT ![pull[w].account] = l]
    BY <1>3 DEF PullFetches
  <2>3. DOMAIN groups' \subseteq Groups /\ l \in SUBSET Entries
    BY <1>1, <2>1, <2>2, GroupsTyped
  <2> QED
    BY <1>1, <2>2, <2>3 DEF ListsT
<1>4. ASSUME NEW a \in Accounts, PullsGroups(a) PROVE ListsT'
  <2>1. PICK l \in Playlists(a) :
          SeesGroups(a, l, today) /\ listCache' = [listCache EXCEPT ![a] = l]
    BY <1>4 DEF PullsGroups
  <2>2. DOMAIN groups' \subseteq Groups /\ l \in SUBSET Entries
    BY <1>1, <2>1, GroupsTyped
  <2> QED
    BY <1>1, <2>1, <2>2 DEF ListsT
<1>5. ASSUME NEW w \in Pullers, PullEnds(w) PROVE ListsT'
  BY <1>1, <1>5 DEF PullEnds, ListsT, Without
<1>6. ASSUME NEW w \in Pullers, PullFails(w) PROVE ListsT'
  BY <1>1, <1>6 DEF PullFails, ListsT
<1>7. ASSUME NEW g \in DOMAIN groups, SwitchesGroup(g) PROVE ListsT'
  BY <1>1, <1>7 DEF SwitchesGroup, ListsT
<1>8. CASE PullStep
  <2>1. CASE \E w \in Pullers :
               \/ \E a \in Accounts : PullBegins(w, a)
               \/ \E e \in pull[w].todo : BatchFinds(w, e) \/ BatchWrites(w, e) \/ BatchFails(w, e)
               \/ PullReads(w) \/ PullCleans(w) \/ PullDies(w)
    BY <1>2, <2>1 DEF PullBegins, BatchFinds, BatchWrites, BatchFails, PullReads, PullCleans,
                      PullDies, streamDisk
  <2> QED
    BY <1>3, <1>4, <1>5, <1>6, <1>8, <2>1 DEF PullStep
<1>9. CASE RehashStep
  BY <1>2, <1>9 DEF RehashStep, SavesKeys, AsksRehash, RehashBegins, RehashRow, RehashEnds,
                    RehashDies, M3uLockLapses, streamDisk
<1>10. CASE LineupStep
  BY <1>2, <1>7, <1>10 DEF LineupStep, LinksRow, DayPasses, streamDisk
<1> QED
  BY <1>8, <1>9, <1>10 DEF StreamNext

\* ... the locks, the days and the keys ...
LEMMA StreamStepClock == StreamTypes /\ StreamNext => ClockT'
<1> SUFFICES ASSUME StreamTypes, StreamNext PROVE ClockT'
  OBVIOUS
<1>1. /\ ClockT /\ pull \in [Pullers -> PullRecs] /\ RehashT /\ today \in 0..MaxToday
      /\ \A w \in Pullers : pull[w].start \in 0..today
  BY DEF StreamTypes, PullT, ClockT, Fits, PullRecs
<1>2. CASE UNCHANGED <<hashKeys, today, m3uLock, listedOn>>
  BY <1>2, <1>1 DEF ClockT
<1>3. CASE PullStep
  <2>1. ASSUME NEW w \in Pullers, NEW a \in Accounts, PullBegins(w, a) PROVE ClockT'
    BY <1>1, <2>1 DEF PullBegins, ClockT
  <2>2. ASSUME NEW w \in Pullers, PullCleans(w) PROVE ClockT'
    <3>1. listedOn' = [h \in Hashes |-> IF h \in pull[w].had THEN pull[w].start ELSE listedOn[h]]
          /\ UNCHANGED <<hashKeys, today, m3uLock>>
      BY <2>2 DEF PullCleans
    <3>2. pull[w].start \in 0..MaxToday /\ pull[w].start <= today
      BY <1>1, StreamAssumption
    <3> QED
      BY <1>1, <3>1, <3>2 DEF ClockT
  <2>3. ASSUME NEW w \in Pullers, PullEnds(w) \/ PullFails(w) \/ PullDies(w) PROVE ClockT'
    BY <1>1, <2>3 DEF PullEnds, PullFails, PullDies, ClockT
  <2>4. CASE \/ \E w \in Pullers :
                  \/ \E e \in pull[w].todo : BatchFinds(w, e) \/ BatchWrites(w, e)
                                               \/ BatchFails(w, e)
                  \/ PullFetches(w) \/ PullReads(w)
             \/ \E a \in Accounts : PullsGroups(a)
    BY ZenonT(60), <1>2, <2>4 DEF BatchFinds, BatchWrites, BatchFails, PullFetches, PullReads, PullsGroups,
                      streamWork
  <2> QED
    BY <1>3, <2>1, <2>2, <2>3, <2>4 DEF PullStep
<1>4. CASE RehashStep
  <2>1. CASE RehashRow
    <3>1. UNCHANGED <<hashKeys, today, m3uLock>>
      BY <2>1 DEF RehashRow
    <3>2. CASE UNCHANGED listedOn
      BY <1>2, <3>1, <3>2
    <3>3. ASSUME NEW k \in DOMAIN streams, NEW h \in Hashes, ListedLike(k, h) PROVE ClockT'
      <4>1. streams[k].hash \in Hashes
        BY DEF StreamTypes, StreamT, RowRecs
      <4> QED
        BY <1>1, <3>1, <3>3, <4>1 DEF ListedLike, ClockT
    <3> QED
      BY <2>1, <3>2, <3>3, HashGiven
  <2>2. CASE RehashBegins \/ RehashEnds \/ RehashDies \/ \E a \in Accounts : M3uLockLapses(a)
    BY <1>1, <2>2 DEF RehashBegins, RehashEnds, RehashDies, M3uLockLapses, ClockT
  <2>3. CASE AsksRehash \/ \E k \in DOMAIN NameUnder : SavesKeys(k)
    BY <1>1, <2>3 DEF AsksRehash, SavesKeys, ClockT
  <2> QED
    BY <1>4, <2>1, <2>2, <2>3 DEF RehashStep
<1>5. CASE LineupStep
  BY <1>1, <1>5, StreamAssumption
     DEF LineupStep, LinksRow, SwitchesGroup, DayPasses, streamWork, ClockT
<1> QED
  BY <1>3, <1>4, <1>5 DEF StreamNext

\* ... the rehashes ...
LEMMA StreamStepRehash == StreamTypes /\ StreamNext => RehashT'
<1> SUFFICES ASSUME StreamTypes, StreamNext PROVE RehashT'
  OBVIOUS
<1>1. RehashT /\ hashKeys \in DOMAIN NameUnder
  BY DEF StreamTypes, ClockT
<1>2. CASE UNCHANGED <<rehash, rehashes>>
  BY <1>1, <1>2 DEF RehashT
<1>3. ASSUME NEW k \in DOMAIN NameUnder, rehashes' = Append(rehashes, k), UNCHANGED rehash
      PROVE  RehashT'
  BY <1>1, <1>3 DEF RehashT
<1>4. CASE RehashBegins
  <2>1. Head(rehashes) \in DOMAIN NameUnder /\ Tail(rehashes) \in Seq(DOMAIN NameUnder)
    BY <1>1, <1>4 DEF RehashBegins, RehashT
  <2>2. rehash' = rehash \/ rehash' = [NoRehash EXCEPT !.at = "rows", !.keys = Head(rehashes)]
    BY <1>4 DEF RehashBegins
  <2>3. [NoRehash EXCEPT !.at = "rows", !.keys = Head(rehashes)] \in RehashRecs
        /\ [NoRehash EXCEPT !.at = "rows", !.keys = Head(rehashes)].keys = Head(rehashes)
    BY <2>1, NoRehashTyped DEF RehashRecs, NoRehash
  <2> QED
    BY <1>1, <1>4, <2>1, <2>2, <2>3 DEF RehashBegins, RehashT
<1>5. CASE RehashRow
  <2>1. PICK j \in DOMAIN streams, h \in Hashes :
          \/ PassesOver(j)
          \/ \E i \in DOMAIN streams : Merges(i, j, h)
          \/ RowsBy(h) \subseteq {j} /\ GetsHash(j, h)
    BY <1>5, NextRow
  <2>2. DOMAIN streams \subseteq Nat
    BY DEF StreamTypes, StreamT
  <2>3. rehash' = [rehash EXCEPT !.last = j]
        \/ \E k \in DOMAIN streams : rehash' = [rehash EXCEPT !.last = j, !.kept = Put(rehash.kept, h, k)]
    BY <2>1 DEF PassesOver, Merges, GetsHash
  <2>4. rehash \in RehashRecs /\ rehashes' = rehashes
    BY <1>1, <1>5 DEF RehashT, RehashRow
  <2>5. rehash.kept \in Partial(Hashes, Nat)
    BY <2>4 DEF RehashRecs
  <2>6. \A k \in DOMAIN streams : Put(rehash.kept, h, k) \in Partial(Hashes, Nat)
    BY <2>2, <2>5, PutIsPartial
  <2>7. rehash' \in RehashRecs /\ rehash'.at = rehash.at /\ rehash'.keys = rehash.keys
    BY <2>2, <2>3, <2>4, <2>6 DEF RehashRecs
  <2> QED
    BY <1>1, <2>4, <2>7 DEF RehashT
<1>6. CASE RehashEnds \/ RehashDies
  BY <1>1, <1>6, NoRehashTyped DEF RehashEnds, RehashDies, RehashT
<1>7. CASE PullStep
  BY ZenonT(60), <1>2, <1>7 DEF PullStep, PullBegins, BatchFinds, BatchWrites, BatchFails, PullFetches,
     PullReads, PullCleans, PullEnds, PullFails, PullDies, PullsGroups, streamWork
<1>8. CASE RehashStep
  BY <1>1, <1>2, <1>3, <1>4, <1>5, <1>6, <1>8 DEF RehashStep, SavesKeys, AsksRehash, M3uLockLapses
<1>9. CASE LineupStep
  BY <1>2, <1>9 DEF LineupStep, LinksRow, SwitchesGroup, DayPasses, streamWork
<1> QED
  BY <1>7, <1>8, <1>9 DEF StreamNext

\* ... and the refreshes.
LEMMA StreamStepPulls == StreamTypes /\ StreamNext => PullT'
<1> SUFFICES ASSUME StreamTypes, StreamNext PROVE PullT'
  OBVIOUS
<1>1. /\ PullT /\ pull \in [Pullers -> PullRecs] /\ ListsT /\ today \in 0..MaxToday
      /\ hashKeys \in DOMAIN NameUnder /\ today \in Nat
  BY StreamAssumption DEF StreamTypes, PullT, ClockT
<1>2. CASE UNCHANGED <<pull, today>>
  BY <1>1, <1>2 DEF PullT, Fits
<1>3. ASSUME NEW w \in Pullers, NEW a \in Accounts, PullBegins(w, a) PROVE PullT'
  <2> DEFINE at == IF listCache[a] = Nothing THEN "begun" ELSE "grouped"
             l  == IF listCache[a] = Nothing THEN {} ELSE listCache[a]
             p  == [Idle EXCEPT !.at = at, !.account = a, !.start = today, !.list = l]
  <2>1. pull' = [pull EXCEPT ![w] = p] /\ today' = today
    BY <1>3 DEF PullBegins
  <2>2. l \in SUBSET Entries /\ at \in {"begun", "grouped"}
    BY <1>1 DEF ListsT
  <2> HIDE DEF at, l
  <2>3. p \in PullRecs /\ p.at = at /\ p.account = a /\ p.start = today
    BY <1>1, <2>2, IdleTyped DEF PullRecs, PullPlaces
  <2> HIDE DEF p
  <2>4. Fits(p)
    BY <1>1, <2>2, <2>3 DEF Fits
  <2> QED
    BY <1>1, <2>1, <2>3, <2>4, PullerMoves
<1>4. ASSUME NEW w \in Pullers,
             PullFetches(w) \/ PullReads(w) \/ PullCleans(w)
               \/ \E e \in pull[w].todo : BatchFinds(w, e) \/ BatchWrites(w, e) \/ BatchFails(w, e)
      PROVE  PullT'
  <2>1. pull[w] \in PullRecs /\ Fits(pull[w])
    BY <1>1 DEF PullT
  <2>2. CASE PullFetches(w)
    <3>1. PICK l \in Playlists(pull[w].account) :
            pull' = [pull EXCEPT ![w].at = "grouped", ![w].list = l]
      BY <2>2 DEF PullFetches
    <3> DEFINE p == [pull[w] EXCEPT !.at = "grouped", !.list = l]
    <3>2. pull' = [pull EXCEPT ![w] = p] /\ today' = today /\ pull[w].at = "begun"
      BY <1>1, <2>2, <3>1 DEF PullFetches
    <3>3. l \in SUBSET Entries
      BY DEF Playlists, EntriesOf
    <3>4. p \in PullRecs /\ Fits(p)
      BY <2>1, <3>2, <3>3 DEF PullRecs, PullPlaces, Fits
    <3> HIDE DEF p
    <3> QED
      BY <1>1, <3>2, <3>4, PullerMoves
  <2>3. CASE PullReads(w)
    <3> DEFINE todo == {e \in pull[w].list : IsOn(pull[w].account, GroupTitle[e])}
               p    == [pull[w] EXCEPT !.at = "batches", !.keys = hashKeys, !.todo = todo]
    <3>1. pull' = [pull EXCEPT ![w] = p] /\ today' = today /\ pull[w].at = "grouped"
      BY <1>1, <2>3 DEF PullReads
    <3>2. todo \in SUBSET Entries
      BY <2>1 DEF PullRecs
    <3> HIDE DEF todo
    <3>3. p \in PullRecs /\ Fits(p)
      BY <1>1, <2>1, <3>1, <3>2 DEF PullRecs, PullPlaces, Fits
    <3> HIDE DEF p
    <3> QED
      BY <1>1, <3>1, <3>3, PullerMoves
  <2>4. CASE PullCleans(w)
    <3> DEFINE p == [pull[w] EXCEPT !.at = "cleaned"]
    <3>1. pull' = [pull EXCEPT ![w] = p] /\ today' = today /\ pull[w].at = "batches"
      BY <1>1, <2>4 DEF PullCleans
    <3>2. p \in PullRecs /\ Fits(p)
      BY <2>1, <3>1 DEF PullRecs, PullPlaces, Fits
    <3> HIDE DEF p
    <3> QED
      BY <1>1, <3>1, <3>2, PullerMoves
  <2>5. ASSUME NEW e \in pull[w].todo, BatchFinds(w, e) PROVE PullT'
    <3> DEFINE f == Put(pull[w].found, e, RowsBy(HashBy(pull[w].keys, e)))
               p == [pull[w] EXCEPT !.found = f]
    <3>1. pull' = [pull EXCEPT ![w] = p] /\ today' = today
      BY <1>1, <2>5 DEF BatchFinds
    <3>2. RowsBy(HashBy(pull[w].keys, e)) \in SUBSET Nat /\ e \in Entries
          /\ pull[w].found \in Partial(Entries, SUBSET Nat)
      BY <2>1 DEF RowsBy, StreamTypes, StreamT, PullRecs
    <3>3. f \in Partial(Entries, SUBSET Nat)
      BY <3>2, PutIsPartial
    <3> HIDE DEF f
    <3>4. p \in PullRecs /\ Fits(p)
      BY <2>1, <3>3 DEF PullRecs, PullPlaces, Fits
    <3> HIDE DEF p
    <3> QED
      BY <1>1, <3>1, <3>4, PullerMoves
  <2>6. ASSUME NEW e \in pull[w].todo, NEW hs \in SUBSET Hashes, BatchIsDone(w, e, hs),
               today' = today
        PROVE  PullT'
    <3> DEFINE f == Without(pull[w].found, {e})
               p == [pull[w] EXCEPT !.had = @ \cup hs, !.todo = @ \ {e}, !.found = f]
    <3>1. pull' = [pull EXCEPT ![w] = p] /\ today' = today
      BY <1>1, <2>6 DEF BatchIsDone
    <3>2. pull[w].found \in Partial(Entries, SUBSET Nat)
      BY <2>1 DEF PullRecs
    <3>3. f \in Partial(Entries, SUBSET Nat)
      BY <3>2, WithoutIsPartial
    <3> HIDE DEF f
    <3>4. p \in PullRecs /\ Fits(p)
      BY <2>1, <3>3 DEF PullRecs, PullPlaces, Fits
    <3> HIDE DEF p
    <3> QED
      BY <1>1, <3>1, <3>4, PullerMoves
  <2>7. ASSUME NEW e \in pull[w].todo, BatchWrites(w, e) PROVE PullT'
    <3>1. /\ pull[w].at = "batches" /\ today' = today
          /\ \/ BatchIsDone(w, e, {HashBy(pull[w].keys, e)})
             \/ BatchIsDone(w, e, {streams[i].hash : i \in pull[w].found[e] \cap DOMAIN streams})
      BY <2>7 DEF BatchWrites
    <3>2. HashBy(pull[w].keys, e) \in Hashes
      BY <2>1, <3>1, HashByIsHash DEF Fits, PullRecs
    <3>3. {streams[i].hash : i \in pull[w].found[e] \cap DOMAIN streams} \in SUBSET Hashes
      BY DEF StreamTypes, StreamT, RowRecs
    <3> QED
      BY <2>6, <3>1, <3>2, <3>3
  <2>8. ASSUME NEW e \in pull[w].todo, BatchFails(w, e) PROVE PullT'
    BY <2>6, <2>8 DEF BatchFails
  <2> QED
    BY <1>4, <2>2, <2>3, <2>4, <2>5, <2>7, <2>8
<1>5. ASSUME NEW w \in Pullers, PullEnds(w) \/ PullFails(w) \/ PullDies(w) PROVE PullT'
  <2>1. pull' = [pull EXCEPT ![w] = Idle] /\ today' = today
    BY <1>5 DEF PullEnds, PullFails, PullDies
  <2>2. Idle \in PullRecs /\ Fits(Idle)
    BY <1>1, IdleTyped DEF Fits
  <2> QED
    BY <1>1, <2>1, <2>2, PullerMoves
<1>6. CASE RehashRow
  <2>1. today' = today
    BY <1>6 DEF RehashRow
  <2>2. ASSUME NEW k \in DOMAIN streams, NEW h \in Hashes, ListedLike(k, h) PROVE PullT'
    BY <1>1, <2>1, <2>2 DEF ListedLike, PullT, PullRecs, Fits
  <2> QED
    BY <1>2, <1>6, <2>1, <2>2, HashGiven
<1>7. CASE DayPasses
  BY <1>1, <1>7 DEF DayPasses, streamWork, PullT, PullRecs, Fits
<1>8. CASE PullStep
  <2>1. CASE \E a \in Accounts : PullsGroups(a)
    BY <1>2, <2>1 DEF PullsGroups, streamWork
  <2> QED
    BY <1>3, <1>4, <1>5, <1>8, <2>1 DEF PullStep
<1>9. CASE RehashStep
  BY <1>2, <1>6, <1>9 DEF RehashStep, SavesKeys, AsksRehash, RehashBegins, RehashEnds,
                          RehashDies, M3uLockLapses
<1>10. CASE LineupStep
  BY <1>2, <1>7, <1>10 DEF LineupStep, LinksRow, SwitchesGroup, streamWork
<1> QED
  BY <1>8, <1>9, <1>10 DEF StreamNext

\* The dates of the rows, and what a refresh notes.
LEMMA StreamStepDates == StreamInv /\ StreamNext => SeenLately' /\ NoOlder'
<1> SUFFICES ASSUME StreamInv, StreamNext PROVE SeenLately' /\ NoOlder'
  OBVIOUS
<1>1. /\ pull \in [Pullers -> PullRecs] /\ today \in 0..MaxToday /\ today \in Nat
      /\ streams \in [DOMAIN streams -> RowRecs] /\ listedOn \in [Hashes -> 0..MaxToday]
      /\ \A w \in Pullers : pull[w].start <= today /\ pull[w].start \in Nat
      /\ \A i \in DOMAIN streams : streams[i].hash \in Hashes /\ streams[i].seen \in 0..MaxToday
      /\ \A h \in Hashes : listedOn[h] <= today
      /\ SeenLately /\ NoOlder
  BY StreamAssumption DEF StreamInv, StreamTypes, StreamT, PullT, ClockT, Fits, PullRecs, RowRecs
\* The rows stay.
<1>2. ASSUME UNCHANGED streams, UNCHANGED listedOn,
             \A w \in Pullers : \/ pull'[w].had \subseteq pull[w].had
                                  /\ pull'[w].start = pull[w].start
                                \/ pull'[w].had = {}
      PROVE  SeenLately' /\ NoOlder'
  BY <1>1, <1>2 DEF SeenLately, NoOlder
<1>3. ASSUME NEW w \in Pullers, NEW e \in pull[w].todo, BatchWrites(w, e)
      PROVE  SeenLately' /\ NoOlder'
  <2> DEFINE p == pull[w]
             h == HashBy(p.keys, e)
             new == outlay["rows"] + 1
             hit == p.found[e] \cap DOMAIN streams
  <2>1. PICK hs : BatchIsDone(w, e, hs) /\ hs = IF p.found[e] = {} /\ RowsBy(h) = {} THEN {h}
                                                ELSE {streams[i].hash : i \in hit}
    BY <1>3 DEF BatchWrites
  <2>2. /\ pull'[w].had = pull[w].had \cup hs /\ pull'[w].start = pull[w].start
        /\ \A o \in Pullers : o # w => pull'[o] = pull[o]
    BY <1>1, <2>1 DEF BatchIsDone, PullRecs
  <2>3. listedOn' = listedOn
    BY <1>3 DEF BatchWrites
  <2>4. h \in Hashes
    BY <1>3, HashByIsHash DEF BatchWrites, StreamInv, StreamTypes, PullT, Fits, PullRecs
  <2>5. CASE p.found[e] = {} /\ RowsBy(h) = {}
    <3> DEFINE r == [hash |-> h, account |-> p.account, entry |-> e, seen |-> today]
    <3>1. streams' = Put(streams, new, r) /\ hs = {h}
      BY <1>3, <2>1, <2>5 DEF BatchWrites
    <3>2. DOMAIN streams' = DOMAIN streams \cup {new} /\ streams'[new] = r
          /\ \A i \in DOMAIN streams : i # new => streams'[i] = streams[i]
      BY <3>1 DEF Put
    <3>3. \A i \in DOMAIN streams : streams[i].hash # h
      BY <2>5 DEF RowsBy
    <3>4. r.hash = h /\ r.seen = today
      OBVIOUS
    <3> HIDE DEF r, h, new, hit
    <3>5. SeenLately'
      <4> SUFFICES ASSUME NEW o \in Pullers, NEW i \in DOMAIN streams', streams'[i].hash \in pull'[o].had
                   PROVE  streams'[i].seen >= pull'[o].start
        BY DEF SeenLately
      <4>1. CASE i = new
        BY <1>1, <2>2, <3>2, <3>4, <4>1
      <4>2. CASE i # new
        BY <1>1, <2>2, <3>1, <3>2, <3>3, <4>2 DEF SeenLately
      <4> QED
        BY <4>1, <4>2
    <3>6. NoOlder'
      <4>1. listedOn[h] <= today
        BY <1>1, <2>4
      <4> QED
        BY <1>1, <2>3, <3>2, <3>4, <4>1 DEF NoOlder
    <3> QED
      BY <3>5, <3>6
  <2>6. CASE ~(p.found[e] = {} /\ RowsBy(h) = {})
    <3>1. hs = {streams[i].hash : i \in hit} /\ DOMAIN streams' = DOMAIN streams
          /\ streams' = [i \in DOMAIN streams |->
               IF i \in hit THEN [streams[i] EXCEPT !.entry = e, !.seen = today] ELSE streams[i]]
      BY <1>3, <2>1, <2>6 DEF BatchWrites
    <3>2. hit \subseteq DOMAIN streams
      OBVIOUS
    <3> HIDE DEF h, new, hit
    <3>3. ASSUME NEW i \in DOMAIN streams
          PROVE  /\ streams'[i].hash = streams[i].hash
                 /\ streams'[i].seen = IF i \in hit THEN today ELSE streams[i].seen
      <4>1. streams[i] \in RowRecs
        BY <1>1
      <4>2. streams'[i] = IF i \in hit THEN [streams[i] EXCEPT !.entry = e, !.seen = today] ELSE streams[i]
        BY <3>1
      <4> QED
        BY <4>1, <4>2 DEF RowRecs
    <3>4. \A i \in DOMAIN streams : streams[i].hash \in hs => i \in hit
      BY <3>1, <3>2 DEF StreamInv, StreamTypes, StreamT
    <3>5. SeenLately'
      <4> SUFFICES ASSUME NEW o \in Pullers, NEW i \in DOMAIN streams', streams'[i].hash \in pull'[o].had
                   PROVE  streams'[i].seen >= pull'[o].start
        BY DEF SeenLately
      <4>1. CASE i \in hit
        BY <1>1, <2>2, <3>1, <3>3, <4>1
      <4>2. CASE i \notin hit
        BY <1>1, <2>2, <3>1, <3>3, <3>4, <4>2 DEF SeenLately
      <4> QED
        BY <4>1, <4>2
    <3>6. NoOlder'
      <4>1. ASSUME NEW i \in DOMAIN streams PROVE listedOn[streams[i].hash] <= streams'[i].seen
        <5>1. listedOn[streams[i].hash] \in 0..MaxToday /\ listedOn[streams[i].hash] <= today
          BY <1>1
        <5> QED
          BY <1>1, <3>3, <5>1 DEF NoOlder
      <4> QED
        BY <2>3, <3>1, <3>3, <4>1 DEF NoOlder
    <3> QED
      BY <3>5, <3>6
  <2> QED
    BY <2>5, <2>6
<1>4. ASSUME NEW w \in Pullers, PullCleans(w) PROVE SeenLately' /\ NoOlder'
  <2>1. PICK gone : streams' = Without(streams, gone)
    BY <1>4 DEF PullCleans
  <2>2. DOMAIN streams' \subseteq DOMAIN streams
          /\ \A i \in DOMAIN streams' : streams'[i] = streams[i]
    BY <2>1 DEF Without
  <2>3. \A o \in Pullers : pull'[o].had = pull[o].had /\ pull'[o].start = pull[o].start
    BY <1>1, <1>4 DEF PullCleans, PullRecs
  <2>4. \A h \in Hashes : listedOn'[h] = IF h \in pull[w].had THEN pull[w].start ELSE listedOn[h]
    BY <1>4 DEF PullCleans
  <2>5. SeenLately'
    BY <1>1, <2>2, <2>3 DEF SeenLately
  <2>6. NoOlder'
    <3> SUFFICES ASSUME NEW i \in DOMAIN streams' PROVE listedOn'[streams'[i].hash] <= streams'[i].seen
      BY DEF NoOlder
    <3>1. CASE streams[i].hash \in pull[w].had
      BY <1>1, <2>2, <2>4, <3>1 DEF SeenLately
    <3>2. CASE streams[i].hash \notin pull[w].had
      BY <1>1, <2>2, <2>4, <3>2 DEF NoOlder
    <3> QED
      BY <3>1, <3>2
  <2> QED
    BY <2>5, <2>6
<1>5. ASSUME RehashRow PROVE SeenLately' /\ NoOlder'
  <2>1. CASE UNCHANGED <<streams, links, listedOn, pull>>
    BY <1>2, <2>1
  <2>2. ASSUME NEW k \in DOMAIN streams, NEW h \in Hashes, NEW gone \in SUBSET DOMAIN streams,
               streams' = [x \in DOMAIN streams \ gone |->
                             IF x = k THEN [streams[k] EXCEPT !.hash = h] ELSE streams[x]],
               \A x \in DOMAIN streams \ gone : x # k => streams[x].hash # h,
               ListedLike(k, h)
        PROVE  SeenLately' /\ NoOlder'
    <3>1. ASSUME NEW x \in DOMAIN streams \ gone
          PROVE  /\ streams'[x].seen = streams[x].seen
                 /\ streams'[x].hash = IF x = k THEN h ELSE streams[x].hash
      <4>1. streams[x] \in RowRecs
        BY <1>1
      <4>2. streams'[x] = IF x = k THEN [streams[k] EXCEPT !.hash = h] ELSE streams[x]
        BY <2>2
      <4> QED
        BY <4>1, <4>2 DEF RowRecs
    <3>2. DOMAIN streams' = DOMAIN streams \ gone
      BY <2>2
    <3>3. \A o \in Pullers : pull'[o].had = pull[o].had \ {h} /\ pull'[o].start = pull[o].start
      BY <1>1, <2>2 DEF ListedLike, PullRecs
    <3>4. listedOn'[h] = listedOn[streams[k].hash]
          /\ \A n \in Hashes : n # h => listedOn'[n] = listedOn[n]
      BY <1>1, <2>2 DEF ListedLike
    <3>5. SeenLately'
      BY <1>1, <2>2, <3>1, <3>2, <3>3 DEF SeenLately
    <3>6. NoOlder'
      BY <1>1, <2>2, <3>1, <3>2, <3>4 DEF NoOlder
    <3> QED
      BY <3>5, <3>6
  <2> QED
    BY <1>5, <2>1, <2>2, HashGiven DEF StreamInv
<1>6. CASE PullStep
  <2>1. ASSUME NEW w \in Pullers,
               \/ \E a \in Accounts : PullBegins(w, a)
               \/ \E e \in pull[w].todo : BatchFinds(w, e) \/ BatchFails(w, e)
               \/ PullFetches(w) \/ PullReads(w) \/ PullEnds(w) \/ PullFails(w) \/ PullDies(w)
        PROVE  SeenLately' /\ NoOlder'
    <3>1. UNCHANGED streams /\ UNCHANGED listedOn
      BY <2>1 DEF PullBegins, BatchFinds, BatchFails, PullFetches, PullReads, PullEnds, PullFails,
                  PullDies, streamDisk
    <3>2. \A o \in Pullers : o # w => pull'[o] = pull[o]
      BY <1>1, <2>1 DEF PullBegins, BatchFinds, BatchFails, BatchIsDone, PullFetches, PullReads,
                        PullEnds, PullFails, PullDies
    <3>3. CASE PullEnds(w) \/ PullFails(w) \/ PullDies(w) \/ \E a \in Accounts : PullBegins(w, a)
      <4>1. ASSUME NEW a \in Accounts, PullBegins(w, a) PROVE pull'[w].had = {}
        <5> DEFINE at == IF listCache[a] = Nothing THEN "begun" ELSE "grouped"
                   l  == IF listCache[a] = Nothing THEN {} ELSE listCache[a]
        <5>1. pull'[w] = [Idle EXCEPT !.at = at, !.account = a, !.start = today, !.list = l]
          BY <1>1, <4>1 DEF PullBegins
        <5> HIDE DEF at, l
        <5> QED
          BY <5>1 DEF Idle
      <4>2. CASE PullEnds(w) \/ PullFails(w) \/ PullDies(w)
        <5>1. pull'[w] = Idle
          BY <1>1, <4>2 DEF PullEnds, PullFails, PullDies
        <5> QED
          BY <1>2, <3>1, <3>2, <5>1, IdleTyped
      <4> QED
        BY <1>2, <3>1, <3>2, <3>3, <4>1, <4>2
    <3>4. CASE PullFetches(w) \/ PullReads(w) \/ \E e \in pull[w].todo : BatchFinds(w, e)
      <4>1. pull'[w].had = pull[w].had /\ pull'[w].start = pull[w].start
        BY <1>1, <3>4 DEF PullFetches, PullReads, BatchFinds, PullRecs
      <4> QED
        BY <1>2, <3>1, <3>2, <4>1
    <3>5. ASSUME NEW e \in pull[w].todo, BatchFails(w, e) PROVE SeenLately' /\ NoOlder'
      <4>1. pull'[w].had = pull[w].had /\ pull'[w].start = pull[w].start
        BY <1>1, <3>5 DEF BatchFails, BatchIsDone, PullRecs
      <4> QED
        BY <1>2, <3>1, <3>2, <4>1
    <3> QED
      BY <2>1, <3>3, <3>4, <3>5
  <2>2. ASSUME NEW a \in Accounts, PullsGroups(a) PROVE SeenLately' /\ NoOlder'
    BY <1>2, <2>2 DEF PullsGroups, streamWork
  <2> QED
    BY <1>3, <1>4, <1>6, <2>1, <2>2 DEF PullStep
<1>7. CASE RehashStep
  BY <1>2, <1>5, <1>7 DEF RehashStep, SavesKeys, AsksRehash, RehashBegins, RehashEnds,
                          RehashDies, M3uLockLapses, streamDisk
<1>8. CASE LineupStep
  BY <1>2, <1>8 DEF LineupStep, LinksRow, SwitchesGroup, DayPasses, streamDisk, streamWork
<1> QED
  BY <1>6, <1>7, <1>8 DEF StreamNext

\* The invariant is inductive.
LEMMA StreamStepInv == StreamInv /\ [StreamNext]_streamVars => StreamInv'
<1>1. ASSUME StreamInv, StreamNext PROVE StreamInv'
  BY <1>1, StreamStepRows, StreamStepLists, StreamStepClock, StreamStepPulls, StreamStepRehash,
     StreamStepDates DEF StreamInv, StreamTypes
<1>2. ASSUME StreamInv, UNCHANGED streamVars PROVE StreamInv'
  <2>1. StreamTypes'
    BY <1>2 DEF StreamInv, streamVars, streamDisk, streamWork, StreamTypes, OutlayT, StreamT,
                ListsT, ClockT, PullT, Fits, RehashT, Groups
  <2>2. SeenLately' /\ NoOlder'
    BY <1>2 DEF StreamInv, streamVars, streamDisk, streamWork, SeenLately, NoOlder
  <2> QED
    BY <2>1, <2>2 DEF StreamInv
<1> QED
  BY <1>1, <1>2

\* Every entry has a row, of the day before the first.
LEMMA InitStreamInv == StreamInit => StreamInv
<1> SUFFICES ASSUME StreamInit PROVE StreamInv
  OBVIOUS
<1> DEFINE n == Cardinality(Entries)
<1>1. n \in Nat /\ n <= MaxStreams /\ {Retention, MaxStreams, MaxToday} \subseteq Nat
      /\ FirstKeys \in DOMAIN NameUnder /\ AccountOf \in [Entries -> Accounts]
  BY StreamAssumption, FS_CardinalityType
<1>2. PICK number \in [Entries -> 1..n] :
        /\ \A i \in 1..n : \E e \in Entries : number[e] = i
        /\ streams = [i \in 1..n |->
             LET e == CHOOSE e \in Entries : number[e] = i
             IN  [hash |-> HashBy(FirstKeys, e), account |-> AccountOf[e], entry |-> e, seen |-> 0]]
        /\ links = [c \in Lineup |-> {number[e] : e \in {FirstWants[c]} \cap Entries}]
  BY DEF StreamInit
<1>3. ASSUME NEW i \in 1..n
      PROVE  \E e \in Entries : /\ number[e] = i /\ streams[i].seen = 0 /\ streams[i] \in RowRecs
                               /\ streams[i].hash = HashBy(FirstKeys, e)
  <2> DEFINE e == CHOOSE e \in Entries : number[e] = i
  <2>1. e \in Entries /\ number[e] = i
    BY <1>2
  <2>2. streams[i] = [hash |-> HashBy(FirstKeys, e), account |-> AccountOf[e], entry |-> e, seen |-> 0]
    BY <1>2
  <2> HIDE DEF e
  <2>3. HashBy(FirstKeys, e) \in Hashes /\ AccountOf[e] \in Accounts
    BY <1>1, <2>1, HashByIsHash
  <2> QED
    BY <1>1, <2>1, <2>2, <2>3 DEF RowRecs
<1>4. \A d, e \in Entries : HashBy(FirstKeys, d) = HashBy(FirstKeys, e) => d = e
  BY StreamAssumption DEF HashBy
<1> HIDE DEF n
<1>5. DOMAIN streams = 1..n /\ streams \in [1..n -> RowRecs]
  BY <1>2, <1>3
<1>6. links \in [Lineup -> SUBSET (1..n)]
  BY <1>2
<1>7. outlay["rows"] = n /\ OutlayT
  BY <1>1 DEF StreamInit, OutlayT, Spendings, n
<1>8. StreamT
  BY <1>3, <1>4, <1>5, <1>6, <1>7 DEF StreamT
<1>9. ListsT
  BY DEF StreamInit, ListsT
<1>10. ClockT
  BY <1>1 DEF StreamInit, ClockT
<1>11. PullT
  BY <1>1, IdleTyped DEF StreamInit, PullT, Fits
<1>12. RehashT
  BY NoRehashTyped DEF StreamInit, RehashT
<1>13. SeenLately
  BY <1>11, IdleTyped DEF StreamInit, SeenLately, PullT
<1>14. NoOlder
  <2>1. ASSUME NEW i \in DOMAIN streams PROVE listedOn[streams[i].hash] <= streams[i].seen
    <3>1. streams[i].seen = 0 /\ streams[i].hash \in Hashes
      BY <1>3, <1>5 DEF RowRecs
    <3> QED
      BY <3>1 DEF StreamInit
  <2> QED
    BY <2>1 DEF NoOlder
<1> QED
  BY <1>7, <1>8, <1>9, <1>10, <1>11, <1>12, <1>13, <1>14 DEF StreamInv, StreamTypes

\* The invariant holds in every state.
LEMMA StreamInvHolds == StreamSpec => []StreamInv
<1>1. StreamInit => StreamInv
  BY InitStreamInv
<1>2. StreamInv /\ [StreamNext]_streamVars => StreamInv'
  BY StreamStepInv
<1> QED
  BY <1>1, <1>2, PTL DEF StreamSpec

\* A merge of two rows leaves no channel without a row.
LEMMA MergeKeepsLinks ==
  ASSUME StreamTypes, RehashRow, ~MeetsItself, NEW c \in Lineup, links[c] # {}
  PROVE  links'[c] # {}
<1>1. PICK j \in DOMAIN streams, h \in Hashes :
        /\ rehash.at = "rows" /\ j \in Left /\ \A i \in Left : j <= i
        /\ \/ PassesOver(j)
           \/ \E i \in DOMAIN streams :
                /\ Merges(i, j, h)
                /\ i = j => h \in DOMAIN rehash.kept /\ rehash.kept[h] = j
           \/ RowsBy(h) \subseteq {j} /\ GetsHash(j, h)
  BY NextRow
<1>2. CASE PassesOver(j) \/ GetsHash(j, h)
  BY <1>2 DEF PassesOver, GetsHash
<1>3. ASSUME NEW i \in DOMAIN streams, Merges(i, j, h),
             i = j => h \in DOMAIN rehash.kept /\ rehash.kept[h] = j
      PROVE  links'[c] # {}
  <2>1. i # j
    BY <1>1, <1>3 DEF MeetsItself
  <2>2. PICK k \in {i, j}, g \in {i, j} : {k, g} = {i, j} /\ links' = MovesLinks(k, g)
    BY <1>3 DEF Merges, KeptAndGone
  <2>3. k # g
    BY <2>1, <2>2
  <2>4. links'[c] = IF g \in links[c] THEN (links[c] \cup {k}) \ {g} ELSE links[c]
    BY <2>2 DEF MovesLinks
  <2> QED
    BY <2>3, <2>4
<1> QED
  BY <1>1, <1>2, <1>3

\* A channel that loses its last row.
LEMMA LastRowIsStale ==
  ASSUME StreamInv, StreamNext, NEW c \in Lineup, NEW i \in DOMAIN streams,
         i \in links[c], links'[c] = {}, ~MeetsItself,
         IsOn(streams[i].account, GroupTitle[streams[i].entry])
  PROVE  today - listedOn'[streams[i].hash] > Retention
<1>1. \E w \in Pullers : PullCleans(w)
  <2>1. ~RehashRow
    BY MergeKeepsLinks DEF StreamInv
  <2>2. ~\E d \in Lineup, j \in DOMAIN streams : LinksRow(d, j)
    <3> SUFFICES ASSUME NEW d \in Lineup, NEW j \in DOMAIN streams, LinksRow(d, j) PROVE FALSE
      OBVIOUS
    <3>1. i \in links'[c]
      BY DEF LinksRow, StreamInv, StreamTypes, StreamT
    <3> QED
      BY <3>1
  <2>3. links' # links
    OBVIOUS
  <2> QED
    BY <2>1, <2>2, <2>3
       DEF StreamNext, PullStep, RehashStep, LineupStep, PullBegins, BatchFinds, BatchWrites,
           BatchFails, PullFetches, PullReads, PullEnds, PullFails, PullDies, PullsGroups,
           SavesKeys, AsksRehash, RehashBegins, RehashEnds, RehashDies, M3uLockLapses,
           SwitchesGroup, DayPasses, streamDisk
<1>2. PICK w \in Pullers : PullCleans(w)
  BY <1>1
<1>3. /\ streams[i].account = pull[w].account /\ streams[i].seen < pull[w].start - Retention
      /\ listedOn' = [h \in Hashes |-> IF h \in pull[w].had THEN pull[w].start ELSE listedOn[h]]
  BY <1>2 DEF PullCleans, Cutoff
<1>4. /\ pull[w].start <= today /\ pull[w].start \in Nat /\ today \in Nat /\ Retention \in Nat
      /\ streams[i].hash \in Hashes /\ streams[i].seen \in Nat
      /\ listedOn[streams[i].hash] <= streams[i].seen /\ listedOn[streams[i].hash] \in Nat
      /\ streams[i].hash \in pull[w].had => streams[i].seen >= pull[w].start
  BY StreamAssumption
     DEF StreamInv, StreamTypes, StreamT, ClockT, PullT, Fits, PullRecs, RowRecs, SeenLately,
     NoOlder
<1>5. CASE streams[i].hash \in pull[w].had
  BY <1>3, <1>4, <1>5
<1>6. CASE streams[i].hash \notin pull[w].had
  BY <1>3, <1>4, <1>6
<1> QED
  BY <1>5, <1>6

\* The catalogue of streams keeps its types, one row to a hash, and no link to
\* a row that is gone (Stream.stream_hash, process_m3u_batch_direct,
\* rehash_streams).
THEOREM StreamsAreTyped == StreamSpec => []StreamTypeOK
<1>1. StreamInv => StreamTypeOK
  <2> SUFFICES ASSUME StreamInv PROVE StreamTypeOK
    OBVIOUS
  <2>1. DOMAIN streams \subseteq 1..MaxStreams
    BY StreamAssumption DEF StreamInv, StreamTypes, StreamT, OutlayT, Spendings
  <2> QED
    BY <2>1 DEF StreamInv, StreamTypes, StreamT, ListsT, ClockT, StreamTypeOK
<1> QED
  BY <1>1, StreamInvHolds, PTL

\* A channel loses its last row only when no refresh has written a row of that
\* hash for the retention, while the row's group is on (cleanup_streams,
\* process_m3u_batch_direct, rehash_streams), for any number of accounts,
\* refreshes, rehashes and failures.
THEOREM LastStreamsAreStale == StreamSpec => ChannelsKeepTheirStreams
<1>1. StreamInv /\ [StreamNext]_streamVars =>
        [\A c \in Lineup, i \in DOMAIN streams :
           /\ i \in links[c] /\ links'[c] = {} /\ ~MeetsItself
           /\ IsOn(streams[i].account, GroupTitle[streams[i].entry])
           => today - listedOn'[streams[i].hash] > Retention]_streamVars
  BY LastRowIsStale
<1> QED
  BY <1>1, StreamInvHolds, PTL DEF StreamSpec, ChannelsKeepTheirStreams

----------------------------------------------------------------------------
(* The channel numbers. *)

\* A numbering keeps clear of what is reserved, within the group's range, and
\* gives no number twice.
LEMMA NumberedFits ==
  ASSUME NEW g, NEW S \in SUBSET ChannelStreams, NEW reserved, NEW s \in S,
         Numbered(g, S, reserved)[s] # NoNumber
  PROVE  LET given == Numbered(g, S, reserved)
         IN  /\ given[s] \notin reserved /\ given[s] >= RangeStart[g]
             /\ RangeEnd[g] # NoNumber => given[s] <= RangeEnd[g]
             /\ \A r \in S : given[r] = given[s] => r = s
<1> DEFINE last   == IF RangeEnd[g] = NoNumber
                     THEN RangeStart[g] + Cardinality(reserved) + Cardinality(S) ELSE RangeEnd[g]
           free   == (RangeStart[g]..last) \ reserved
           Before(r) == {q \in S : q < r}
           Due(r) == {n \in free : Cardinality({m \in free : m < n}) = Cardinality(Before(r))}
           given  == Numbered(g, S, reserved)
<1>1. \A r \in S : given[r] = IF Due(r) = {} THEN NoNumber ELSE CHOOSE n \in Due(r) : TRUE
  BY DEF Numbered
<1>2. \A r \in S : given[r] # NoNumber => given[r] \in Due(r)
  BY <1>1
<1>3. given[s] \in free
  BY <1>2
<1>4. ASSUME NEW r \in S, given[r] = given[s] PROVE r = s
  <2>1. Cardinality(Before(r)) = Cardinality(Before(s))
    BY <1>2, <1>4
  <2>2. ASSUME NEW p \in S, NEW q \in S, p < q PROVE Cardinality(Before(p)) # Cardinality(Before(q))
    <3>1. \A n \in S : n \in Nat
      BY NumberingAssumption
    <3>2. Before(p) \subseteq Before(q) /\ p \in Before(q) /\ p \notin Before(p)
      BY <2>2, <3>1
    <3>3. IsFiniteSet(Before(q))
      BY NumberingAssumption, FS_Subset
    <3>4. Before(p) # Before(q)
      BY <3>2
    <3> HIDE DEF Before
    <3> QED
      BY <3>2, <3>3, <3>4, FS_Subset
  <2>3. r \in Nat /\ s \in Nat
    BY NumberingAssumption
  <2> QED
    BY <2>1, <2>2, <2>3
<1>5. given[s] >= RangeStart[g] /\ given[s] <= last
  BY <1>3
<1> QED
  BY <1>3, <1>4, <1>5


\* Who numbers, and when: a repack holds the lock from its read to its write, as
\* the sync does for all its stages.
PackHasLock ==
  /\ taskLock \in {"free", "sync", "repack"}
  /\ sync.at \in {"none", "loading", "creating", "packing"}
  /\ taskLock = "sync" <=> sync.at # "none"
  /\ taskLock = "repack" => pack.on
  /\ pack.on => taskLock = "repack" \/ sync.at = "packing"
  /\ ~pack.on => pack = NoPack

\* The shape of the variables.
NumberingShape ==
  /\ DOMAIN row = ChannelStreams
  /\ \A s \in ChannelStreams :
       /\ row[s] = [there |-> row[s].there, hidden |-> row[s].hidden, number |-> row[s].number]
       /\ row[s].there \in BOOLEAN /\ row[s].hidden \in BOOLEAN
  /\ sync = [at |-> sync.at, g |-> sync.g, used |-> sync.used, live |-> sync.live,
             seen |-> sync.seen]
  /\ pack = [on |-> pack.on, plan |-> pack.plan] /\ pack.on \in BOOLEAN
  /\ DOMAIN pack.plan \subseteq ChannelStreams /\ loose \subseteq Compact
  /\ sync.at = "packing" => Group \in Compact

\* An open transaction holds hidden channels that no other holds, and the sync
\* knows them as hidden.
UnhidesFit ==
  /\ \A t \in unhides : DOMAIN t \subseteq {s \in ChannelStreams : Hidden(s)}
  /\ \A t, u \in unhides : t = u \/ DOMAIN t \cap DOMAIN u = {}
  /\ sync.at = "creating" => DOMAIN sync.seen \subseteq InGroup(Group)
       /\ \A s \in InGroup(Group) : Locked(s) => s \in DOMAIN sync.seen /\ sync.seen[s]

\* In a group that nothing has loosened, no channel is both in a plan and in a
\* transaction.
PlansFit == \A s \in DOMAIN pack.plan : GroupOf[s] \notin loose => ~Locked(s)

\* The number a channel is to have once what is under way is written.
Awaited(s) ==
  IF s \in DOMAIN pack.plan THEN pack.plan[s]
  ELSE IF Locked(s) THEN (CHOOSE t \in unhides : s \in DOMAIN t)[s] ELSE row[s].number

\* The awaited numbers of a group, hidden channels included, are apart from each
\* other and from what is taken, and in its range.
NumbersFit(g) ==
  \A s \in InGroup(g) : row[s].there /\ Awaited(s) # NoNumber =>
    /\ Awaited(s) \notin Taken /\ Awaited(s) >= RangeStart[g]
    /\ RangeEnd[g] # NoNumber => Awaited(s) <= RangeEnd[g]
    /\ \A r \in InGroup(g) : row[r].there /\ Awaited(r) = Awaited(s) => r = s

\* A group the sync has created channels in and has yet to pack.
Unpacked(g) == sync.at = "packing" /\ ~pack.on /\ g = Group

GroupsFit == \A g \in Compact \ loose : NumbersFit(g) \/ Unpacked(g)

NumberingInv == PackHasLock /\ NumberingShape /\ UnhidesFit /\ PlansFit /\ GroupsFit

\* A group goes on fitting while its channels keep their numbers or lose them.
LEMMA FitsKept ==
  ASSUME NEW g, NumbersFit(g),
         \A s \in InGroup(g) : row'[s].there =>
           row[s].there /\ (Awaited(s)' = Awaited(s) \/ Awaited(s)' = NoNumber)
  PROVE  NumbersFit(g)'
<1> SUFFICES ASSUME NEW s \in InGroup(g), row'[s].there, Awaited(s)' # NoNumber
             PROVE  /\ Awaited(s)' \notin Taken /\ Awaited(s)' >= RangeStart[g]
                    /\ RangeEnd[g] # NoNumber => Awaited(s)' <= RangeEnd[g]
                    /\ \A r \in InGroup(g) : row'[r].there /\ Awaited(r)' = Awaited(s)' => r = s
  BY DEF NumbersFit, InGroup
<1>1. row[s].there /\ Awaited(s)' = Awaited(s)
  OBVIOUS
<1>2. ASSUME NEW r \in InGroup(g), row'[r].there, Awaited(r)' = Awaited(s)' PROVE r = s
  <2>1. row[r].there /\ Awaited(r) = Awaited(s)
    BY <1>1, <1>2
  <2> QED
    BY <1>1, <2>1 DEF NumbersFit
<1> QED
  BY <1>1, <1>2 DEF NumbersFit

\* Whose transaction a locked channel is in.
LEMMA TheHolder ==
  ASSUME UnhidesFit, NEW t \in unhides, NEW s \in DOMAIN t
  PROVE  Locked(s) /\ (CHOOSE u \in unhides : s \in DOMAIN u) = t
<1> DEFINE u == CHOOSE w \in unhides : s \in DOMAIN w
<1>1. u \in unhides /\ s \in DOMAIN u
  OBVIOUS
<1> QED
  BY <1>1 DEF UnhidesFit, Locked

\* The same, after a step.
LEMMA TheHolderAfter ==
  ASSUME UnhidesFit', NEW t \in unhides', NEW s \in DOMAIN t
  PROVE  Locked(s)' /\ (CHOOSE u \in unhides' : s \in DOMAIN u) = t
<1> DEFINE u == CHOOSE w \in unhides' : s \in DOMAIN w
<1>1. u \in unhides' /\ s \in DOMAIN u
  OBVIOUS
<1> QED
  BY <1>1 DEF UnhidesFit, Locked

\* At the start.
LEMMA NumberingStarts == NumberingInit => NumberingInv
<1> SUFFICES ASSUME NumberingInit PROVE NumberingInv
  OBVIOUS
<1>1. DOMAIN NoPack.plan = {} /\ NoPack.on = FALSE /\ NoSync.at = "none"
  BY DEF NoPack, NoSync
<1>2. PackHasLock /\ NumberingShape /\ UnhidesFit /\ PlansFit
  BY <1>1 DEF NumberingInit, PackHasLock, NumberingShape, UnhidesFit, PlansFit, NoPack, NoSync,
    NoRow, Locked
<1>3. \A s \in ChannelStreams : ~row[s].there
  BY DEF NumberingInit, NoRow
<1>4. GroupsFit
  BY <1>3 DEF GroupsFit, NumbersFit, InGroup
<1> QED
  BY <1>2, <1>4 DEF NumberingInv

\* The sync up to its pack.
LEMMA SyncKeepsNumbers ==
  ASSUME NumberingInv,
         \/ \E live \in Scans : SyncStarts(live)
         \/ GroupIsEmpty \/ GroupRenumbers \/ GroupCreates \/ SyncEnds \/ SyncFails
  PROVE  NumberingInv'
<1> USE DEF NumberingInv
<1>1. UNCHANGED unhides /\ \A s : Locked(s)' <=> Locked(s)
  BY DEF SyncStarts, GroupIsEmpty, GroupRenumbers, GroupCreates, SyncEnds, SyncFails, Locked
<1>2. CASE SyncFails
  <2>1. DOMAIN pack'.plan = {} /\ ~pack'.on /\ sync'.at = "none" /\ taskLock' = "free"
    BY <1>2 DEF SyncFails, NoPack, NoSync
  <2>2. PackHasLock'
    BY <1>2, <2>1 DEF PackHasLock, SyncFails
  <2>3. NumberingShape' /\ UnhidesFit'
    BY <1>1, <1>2, <2>1 DEF NumberingShape, UnhidesFit, SyncFails, NoPack, NoSync, Hidden
  <2>4. PlansFit' /\ GroupsFit'
    BY <1>2, <2>1 DEF PlansFit, GroupsFit, SyncFails
  <2> QED
    BY <2>2, <2>3, <2>4
<1>3. CASE ~SyncFails
  <2>1. UNCHANGED <<pack, loose>>
    BY <1>3 DEF SyncStarts, GroupIsEmpty, GroupRenumbers, GroupCreates, SyncEnds
  <2>2. PlansFit'
    BY <1>1, <2>1 DEF PlansFit
  \* The stage that is left and the one that comes.
  <2>3. /\ PackHasLock' /\ sync'.at \in {"none", "loading", "creating", "packing"}
        /\ sync' = [at |-> sync'.at, g |-> sync'.g, used |-> sync'.used, live |-> sync'.live,
                    seen |-> sync'.seen]
        /\ sync'.at = "creating" =>
             sync.at = "loading" /\ sync'.g = sync.g /\ GroupRenumbers
        /\ sync'.at = "packing" =>
             sync.at = "creating" /\ sync'.g = sync.g /\ GroupCreates /\ Group \in Compact
        /\ sync.at # "packing" /\ ~pack.on
    <3>1. CASE \E live \in Scans : SyncStarts(live)
      BY <2>1, <3>1 DEF SyncStarts, PackHasLock
    <3>2. CASE GroupIsEmpty
      BY <2>1, <3>2 DEF GroupIsEmpty, NextGroup, PackHasLock, NumberingShape
    <3>3. CASE GroupRenumbers
      BY <2>1, <3>3 DEF GroupRenumbers, PackHasLock, NumberingShape
    <3>4. CASE GroupCreates
      BY <2>1, <3>4 DEF GroupCreates, NextGroup, PackHasLock, NumberingShape
    <3>5. CASE SyncEnds
      BY <2>1, <3>5 DEF SyncEnds, NoSync, PackHasLock
    <3> QED
      BY <1>3, <3>1, <3>2, <3>3, <3>4, <3>5
  <2>4. \A s \in ChannelStreams : Awaited(s) = IF Locked(s) THEN (CHOOSE t \in unhides : s \in DOMAIN t)[s]
                                                ELSE row[s].number
    BY <2>3 DEF Awaited, PackHasLock, NoPack
  <2>5. \A s \in ChannelStreams : Awaited(s)' = IF Locked(s) THEN (CHOOSE t \in unhides : s \in DOMAIN t)[s]
                                                 ELSE row'[s].number
    BY <1>1, <2>1, <2>3 DEF Awaited, PackHasLock, NoPack
  \* What becomes of a row.
  <2>6. /\ DOMAIN row' = ChannelStreams
        /\ \A s \in ChannelStreams :
             /\ row'[s] = [there |-> row'[s].there, hidden |-> row'[s].hidden,
                           number |-> row'[s].number]
             /\ row'[s].there \in BOOLEAN /\ row'[s].hidden \in BOOLEAN
             /\ Locked(s) => Hidden(s)'
             /\ row'[s].there /\ GroupOf[s] \in Compact =>
                  \/ row[s].there /\ row'[s].number = row[s].number
                  \/ sync'.at = "packing" /\ GroupOf[s] = Group
    <3>1. \A s \in ChannelStreams : Locked(s) => Hidden(s)
      BY DEF UnhidesFit, Locked
    <3>2. CASE (\E live \in Scans : SyncStarts(live)) \/ SyncEnds
      BY <3>1, <3>2 DEF SyncStarts, SyncEnds, NumberingShape, Hidden
    <3>3. CASE GroupIsEmpty
      BY <3>1, <3>3 DEF GroupIsEmpty, NumberingShape, Hidden, Visible, NoRow
    <3>4. CASE GroupRenumbers
      <4>1. PICK gone, number :
              /\ gone = OutOfRange(Group, number) /\ number = Renumbered(Group).number
              /\ row' = [s \in ChannelStreams |->
                           IF s \in gone THEN NoRow
                           ELSE IF s \in Existing(Group)
                                THEN [row[s] EXCEPT !.number = number[s]] ELSE row[s]]
        BY <3>4 DEF GroupRenumbers
      <4>2. \A s \in gone : Visible(s)
        BY <4>1 DEF OutOfRange
      <4>3. Group \in Compact => \A s \in Existing(Group) : number[s] = row[s].number
        BY <4>1 DEF Renumbered
      <4>4. \A s \in Existing(Group) : GroupOf[s] = Group
        BY DEF Existing, InGroup
      <4>5. DOMAIN row' = ChannelStreams
        BY <4>1
      <4>6. ASSUME NEW s \in ChannelStreams
            PROVE  /\ row'[s] = [there |-> row'[s].there, hidden |-> row'[s].hidden,
                                 number |-> row'[s].number]
                   /\ row'[s].there \in BOOLEAN /\ row'[s].hidden \in BOOLEAN
                   /\ Locked(s) => Hidden(s)'
                   /\ row'[s].there /\ GroupOf[s] \in Compact =>
                        row[s].there /\ row'[s].number = row[s].number
        <5>1. CASE s \in gone
          BY <3>1, <4>1, <4>2, <5>1 DEF Hidden, Visible, NoRow
        <5>2. CASE s \notin gone /\ s \in Existing(Group)
          <6>1. row'[s] = [row[s] EXCEPT !.number = number[s]]
            BY <4>1, <5>2
          <6>2. /\ row'[s] = [there |-> row[s].there, hidden |-> row[s].hidden, number |-> number[s]]
                /\ row[s].there \in BOOLEAN /\ row[s].hidden \in BOOLEAN /\ row[s].there
            BY <5>2, <6>1 DEF NumberingShape, Existing
          <6>3. GroupOf[s] \in Compact => number[s] = row[s].number
            BY <4>3, <4>4, <5>2
          <6> QED
            BY <3>1, <6>2, <6>3 DEF Hidden
        <5>3. CASE s \notin gone /\ s \notin Existing(Group)
          BY <3>1, <4>1, <5>3 DEF NumberingShape, Hidden
        <5> QED
          BY <5>1, <5>2, <5>3
      <4> QED
        BY <4>5, <4>6
    <3>5. CASE GroupCreates
      <4> DEFINE number == Created(Group).number
                 new  == {s \in sync.live \cap InGroup(Group) :
                            s \notin DOMAIN sync.seen /\ number[s] # NoNumber}
                 gone == {s \in DOMAIN sync.seen : s \notin sync.live /\ ~sync.seen[s]}
      <4>1. /\ row' = [s \in ChannelStreams |->
                         IF s \in gone THEN NoRow
                         ELSE IF s \in new THEN NewRow(number[s]) ELSE row[s]]
            /\ Group \in Compact => sync'.at = "packing"
        BY <3>5 DEF GroupCreates, NumberingShape
      <4> HIDE DEF number
      <4>2. \A s \in gone \cup new : s \in InGroup(Group) /\ ~Locked(s)
        BY <3>5, <4>1 DEF UnhidesFit, GroupCreates
      <4> QED
        BY <3>1, <4>1, <4>2 DEF NumberingShape, Hidden, NoRow, NewRow, InGroup
    <3> QED
      BY <1>3, <3>2, <3>3, <3>4, <3>5
  <2>7. NumberingShape'
    BY <2>1, <2>3, <2>6 DEF NumberingShape, Group
  <2>8. UnhidesFit'
    <3>1. \A t \in unhides' : DOMAIN t \subseteq {s \in ChannelStreams : Hidden(s)'}
      BY <1>1, <2>6 DEF UnhidesFit, Locked
    <3>2. ASSUME sync'.at = "creating"
          PROVE  /\ DOMAIN sync'.seen \subseteq InGroup(Group')
                 /\ \A s \in InGroup(Group') : Locked(s) => s \in DOMAIN sync'.seen /\ sync'.seen[s]
      <4>1. PICK gone : /\ gone \subseteq {s \in Existing(Group) : Visible(s)} /\ Group' = Group
                        /\ sync'.seen = [s \in Existing(Group) \ gone |-> row[s].hidden]
        BY <2>3, <3>2 DEF GroupRenumbers, OutOfRange, NumberingShape, Group
      <4>2. \A s \in InGroup(Group) : Locked(s) => s \in Existing(Group) /\ row[s].hidden
                                        /\ ~Visible(s)
        BY DEF UnhidesFit, Locked, Hidden, Visible, Existing
      <4> QED
        BY <4>1, <4>2 DEF Existing, InGroup
    <3> QED
      BY <1>1, <3>1, <3>2 DEF UnhidesFit, InGroup
  <2>9. GroupsFit'
    <3> SUFFICES ASSUME NEW g \in Compact \ loose, ~Unpacked(g)' PROVE NumbersFit(g)'
      BY <2>1 DEF GroupsFit
    <3>1. NumbersFit(g)
      BY <2>3 DEF GroupsFit, Unpacked
    <3>2. ~(sync'.at = "packing" /\ g = Group)
      BY <2>1, <2>3 DEF Unpacked, Group
    <3>3. \A s \in InGroup(g) : row'[s].there => row[s].there /\ Awaited(s)' = Awaited(s)
      BY <2>4, <2>5, <2>6, <3>2 DEF InGroup
    <3> QED
      BY <3>1, <3>3, FitsKept
  <2> QED
    BY <2>2, <2>3, <2>7, <2>8, <2>9
<1> QED
  BY <1>2, <1>3


\* What a pack of a group is to write.
LEMMA PlanNumbers ==
  ASSUME NumberingShape, NEW g
  PROVE  /\ DOMAIN PackPlan(g) \subseteq Existing(g)
         /\ \A s \in Existing(g) :
              (IF s \in DOMAIN PackPlan(g) THEN PackPlan(g)[s] ELSE row[s].number)
                = (IF Visible(s) THEN Numbered(g, {r \in InGroup(g) : Visible(r)},
                                               ReservedBut(InGroup(g)))[s]
                   ELSE NoNumber)
<1> DEFINE given == Numbered(g, {s \in InGroup(g) : Visible(s)}, ReservedBut(InGroup(g)))
           want  == [s \in Existing(g) |-> IF Visible(s) THEN given[s] ELSE NoNumber]
           moves == {s \in Existing(g) : want[s] # row[s].number}
<1>1. PackPlan(g) = [s \in moves |-> want[s]]
  BY DEF PackPlan
<1> HIDE DEF given
<1>2. /\ DOMAIN PackPlan(g) \subseteq Existing(g)
      /\ \A s \in Existing(g) :
           (IF s \in DOMAIN PackPlan(g) THEN PackPlan(g)[s] ELSE row[s].number)
             = (IF Visible(s) THEN given[s] ELSE NoNumber)
  BY <1>1
<1> QED
  BY <1>2 DEF given

\* A pack reads.
LEMMA PackReadKeepsNumbers ==
  ASSUME NumberingInv, GroupPackBegins \/ \E g \in Compact : RepackBegins(g)
  PROVE  NumberingInv'
<1> USE DEF NumberingInv
<1>1. PICK g : /\ PackReads(g) /\ ~pack.on /\ UNCHANGED <<row, sync, unhides>>
               /\ \/ sync.at = "packing" /\ g = Group /\ UNCHANGED taskLock
                  \/ g \in Compact /\ taskLock = "free" /\ taskLock' = "repack"
  <2>1. CASE GroupPackBegins
    BY <2>1 DEF GroupPackBegins
  <2>2. CASE \E g \in Compact : RepackBegins(g)
    BY <2>2 DEF RepackBegins, PackHasLock
  <2> QED
    BY <2>1, <2>2
<1>2. /\ pack' = [on |-> TRUE, plan |-> PackPlan(g)] /\ pack = NoPack
      /\ loose' = IF \E t \in unhides : DOMAIN t \cap InGroup(g) # {}
                  THEN loose \cup {g} ELSE loose \ {g}
  BY <1>1 DEF PackReads, PackHasLock
<1>3. DOMAIN PackPlan(g) \subseteq Existing(g) /\ Existing(g) \subseteq ChannelStreams
      /\ \A s \in Existing(g) : GroupOf[s] = g
  BY PlanNumbers DEF Existing, InGroup
<1>4. \A s : Locked(s)' <=> Locked(s)
  BY <1>1 DEF Locked
<1>5. g \in Compact
  BY <1>1 DEF NumberingShape
<1>6. PackHasLock' /\ UnhidesFit'
  BY <1>1, <1>2, <1>4 DEF PackHasLock, UnhidesFit, Hidden, Group
<1>7. NumberingShape'
  <2>1. loose' \subseteq Compact
    BY <1>2, <1>5 DEF NumberingShape
  <2> QED
    BY <1>1, <1>2, <1>3, <1>5, <2>1 DEF NumberingShape, Group
<1>8. PlansFit'
  <2> SUFFICES ASSUME NEW s \in Existing(g), g \notin loose' PROVE ~Locked(s)
    BY <1>2, <1>3, <1>4 DEF PlansFit
  <2>1. \A t \in unhides : DOMAIN t \cap InGroup(g) = {}
    BY <1>2
  <2> QED
    BY <2>1 DEF Locked, Existing
<1>9. GroupsFit'
  <2> SUFFICES ASSUME NEW k \in Compact \ loose' PROVE NumbersFit(k)'
    BY DEF GroupsFit
  <2>1. \A s : s \notin DOMAIN pack.plan
    BY <1>2 DEF NoPack
  <2>2. CASE k # g
    <3>1. k \notin loose /\ ~Unpacked(k)
      BY <1>1, <1>2, <2>2 DEF Unpacked, PackHasLock
    <3>2. NumbersFit(k)
      BY <3>1 DEF GroupsFit
    <3>3. \A s \in InGroup(k) : s \notin DOMAIN PackPlan(g)
      BY <1>3, <2>2 DEF InGroup
    <3>4. \A s \in InGroup(k) : row'[s] = row[s] /\ Awaited(s)' = Awaited(s)
      BY <1>1, <1>2, <1>4, <2>1, <3>3 DEF Awaited
    <3> QED
      BY <3>2, <3>4, FitsKept
  <2>3. CASE k = g
    <3> DEFINE V == {r \in InGroup(g) : Visible(r)}
               given == Numbered(g, V, ReservedBut(InGroup(g)))
    <3>1. \A s \in InGroup(g) : ~Locked(s)
      BY <1>2, <2>3 DEF Locked
    <3>2. \A s \in InGroup(g) : row[s].there =>
            Awaited(s)' = IF s \in V THEN given[s] ELSE NoNumber
      BY <1>1, <1>2, <1>4, <3>1, PlanNumbers DEF Awaited, Existing
    <3>3. \A s \in V : given[s] # NoNumber =>
            /\ given[s] \notin Taken /\ given[s] >= RangeStart[g]
            /\ RangeEnd[g] # NoNumber => given[s] <= RangeEnd[g]
            /\ \A r \in V : given[r] = given[s] => r = s
      <4>1. V \subseteq ChannelStreams
        BY DEF InGroup
      <4>2. Taken \subseteq ReservedBut(InGroup(g))
        BY DEF ReservedBut
      <4>3. ASSUME NEW s \in V, given[s] # NoNumber
            PROVE  /\ given[s] \notin ReservedBut(InGroup(g)) /\ given[s] >= RangeStart[g]
                   /\ RangeEnd[g] # NoNumber => given[s] <= RangeEnd[g]
                   /\ \A r \in V : given[r] = given[s] => r = s
        <5> HIDE DEF V
        <5> QED
          BY <4>1, <4>3, NumberedFits
      <4> HIDE DEF V, given
      <4> QED
        BY <4>2, <4>3
    <3> HIDE DEF V, given
    <3> QED
      BY <1>1, <2>3, <3>2, <3>3 DEF NumbersFit
  <2> QED
    BY <2>2, <2>3
<1> QED
  BY <1>6, <1>7, <1>8, <1>9

\* A pack writes.
LEMMA PackWriteKeepsNumbers ==
  ASSUME NumberingInv, PackWrites PROVE NumberingInv'
<1> USE DEF NumberingInv
<1>1. /\ pack.on /\ pack' = NoPack /\ UNCHANGED <<unhides, loose>>
      /\ \A s \in DOMAIN pack.plan : ~Locked(s)
      /\ row' = [s \in ChannelStreams |->
                   IF s \in DOMAIN pack.plan /\ row[s].there
                   THEN [row[s] EXCEPT !.number = pack.plan[s]] ELSE row[s]]
  BY DEF PackWrites
<1>2. /\ \A s : Locked(s)' <=> Locked(s)
      /\ \A s : s \notin DOMAIN pack'.plan
      /\ ~pack'.on
  BY <1>1 DEF Locked, NoPack
<1>3. \/ sync.at = "packing" /\ UNCHANGED taskLock /\ sync'.at = "loading"
         /\ sync' = [at |-> sync'.at, g |-> sync'.g, used |-> sync'.used, live |-> sync'.live,
                     seen |-> sync'.seen]
      \/ sync.at = "none" /\ taskLock' = "free" /\ sync' = sync
  BY <1>1 DEF PackWrites, PackHasLock, NextGroup, NumberingShape
<1>4. ASSUME NEW s \in ChannelStreams
      PROVE  /\ row'[s] = [there |-> row'[s].there, hidden |-> row'[s].hidden,
                           number |-> row'[s].number]
             /\ row'[s].there = row[s].there /\ row'[s].hidden = row[s].hidden
             /\ row'[s].number = IF s \in DOMAIN pack.plan /\ row[s].there
                                 THEN pack.plan[s] ELSE row[s].number
  BY <1>1 DEF NumberingShape
<1>5. PackHasLock' /\ PlansFit'
  BY <1>1, <1>2, <1>3 DEF PackHasLock, PlansFit
<1>6. NumberingShape'
  BY <1>1, <1>2, <1>3, <1>4 DEF NumberingShape, NoPack
<1>7. UnhidesFit'
  BY <1>1, <1>3, <1>4 DEF UnhidesFit, Hidden
<1>8. GroupsFit'
  <2> SUFFICES ASSUME NEW g \in Compact \ loose PROVE NumbersFit(g)'
    BY <1>1 DEF GroupsFit
  <2>1. NumbersFit(g)
    BY <1>1 DEF GroupsFit, Unpacked
  <2>2. \A s \in InGroup(g) : row'[s].there => row[s].there /\ Awaited(s)' = Awaited(s)
    BY <1>1, <1>2, <1>4 DEF Awaited, InGroup
  <2> QED
    BY <2>1, <2>2, FitsKept
<1> QED
  BY <1>5, <1>6, <1>7, <1>8

\* A channel is hidden, or shown with the number it has.
LEMMA EditKeepsNumbers ==
  ASSUME NumberingInv,
         \/ \E s \in ChannelStreams : HideChannel(s)
         \/ \E S \in SUBSET ChannelStreams : UnhideDefers(S)
  PROVE  NumberingInv'
<1> USE DEF NumberingInv
<1>1. /\ UNCHANGED <<taskLock, sync, pack, unhides, loose>>
      /\ DOMAIN row' = ChannelStreams
      /\ \A s \in ChannelStreams :
           /\ row'[s] = [there |-> row'[s].there, hidden |-> row'[s].hidden,
                         number |-> row'[s].number]
           /\ row'[s].there = row[s].there /\ row'[s].hidden \in BOOLEAN
           /\ Locked(s) => row'[s] = row[s]
           /\ row'[s].number = row[s].number \/ row'[s].number = NoNumber
  <2>1. CASE \E s \in ChannelStreams : HideChannel(s)
    <3>1. PICK c \in ChannelStreams :
            /\ ~Locked(c) /\ UNCHANGED <<taskLock, sync, pack, unhides, loose>>
            /\ row' = [row EXCEPT ![c].hidden = TRUE,
                         ![c].number = IF GroupOf[c] \in Compact THEN NoNumber ELSE @]
      BY <2>1 DEF HideChannel
    <3>2. /\ DOMAIN row' = ChannelStreams
          /\ \A s \in ChannelStreams : s # c => row'[s] = row[s]
      BY <3>1 DEF NumberingShape
    <3>3. /\ row[c] = [there |-> row[c].there, hidden |-> row[c].hidden, number |-> row[c].number]
          /\ row[c].there \in BOOLEAN
      BY DEF NumberingShape
    <3>4. PICK n \in {NoNumber, row[c].number} :
            row'[c] = [there |-> row[c].there, hidden |-> TRUE, number |-> n]
      <4> DEFINE n == IF GroupOf[c] \in Compact THEN NoNumber ELSE row[c].number
      <4>1. row'[c] = [[row[c] EXCEPT !.hidden = TRUE] EXCEPT !.number = n]
        BY <3>1, <3>3 DEF NumberingShape
      <4>2. n \in {NoNumber, row[c].number}
        OBVIOUS
      <4> HIDE DEF n
      <4>3. row'[c] = [there |-> row[c].there, hidden |-> TRUE, number |-> n]
        BY <3>3, <4>1
      <4> QED
        BY <4>2, <4>3
    <3>5. \A s \in ChannelStreams :
            /\ row[s] = [there |-> row[s].there, hidden |-> row[s].hidden, number |-> row[s].number]
            /\ row[s].there \in BOOLEAN /\ row[s].hidden \in BOOLEAN
      BY DEF NumberingShape
    <3>6. ASSUME NEW s \in ChannelStreams
          PROVE  /\ row'[s] = [there |-> row'[s].there, hidden |-> row'[s].hidden,
                               number |-> row'[s].number]
                 /\ row'[s].there = row[s].there /\ row'[s].hidden \in BOOLEAN
                 /\ Locked(s) => row'[s] = row[s]
                 /\ row'[s].number = row[s].number \/ row'[s].number = NoNumber
      <4>1. CASE s = c
        <5>1. /\ row'[c] = [there |-> row'[c].there, hidden |-> row'[c].hidden,
                            number |-> row'[c].number]
              /\ row'[c].there = row[c].there /\ row'[c].hidden = TRUE /\ row'[c].number = n
          BY <3>4
        <5>2. row'[s] = row'[c] /\ row[s] = row[c] /\ ~Locked(s)
          BY <3>1, <4>1
        <5> QED
          BY <5>1, <5>2
      <4>2. CASE s # c
        BY <3>2, <3>5, <4>2
      <4> QED
        BY <4>1, <4>2
    <3> QED
      BY <3>1, <3>2, <3>6
  <2>2. CASE \E S \in SUBSET ChannelStreams : UnhideDefers(S)
    <3>1. PICK S \in SUBSET ChannelStreams :
            /\ \A s \in S : ~Locked(s)
            /\ UNCHANGED <<taskLock, sync, pack, unhides, loose>>
            /\ row' = [s \in ChannelStreams |->
                         IF s \in S THEN [row[s] EXCEPT !.hidden = FALSE] ELSE row[s]]
      BY <2>2 DEF UnhideDefers, Unhidden
    <3>2. \A s \in S : row'[s] = [there |-> row[s].there, hidden |-> FALSE, number |-> row[s].number]
      <4> SUFFICES ASSUME NEW s \in S
                   PROVE  row'[s] = [there |-> row[s].there, hidden |-> FALSE, number |-> row[s].number]
        OBVIOUS
      <4>1. row'[s] = [row[s] EXCEPT !.hidden = FALSE]
        BY <3>1
      <4>2. row[s] = [there |-> row[s].there, hidden |-> row[s].hidden, number |-> row[s].number]
        BY DEF NumberingShape
      <4> QED
        BY <4>1, <4>2
    <3> QED
      BY ZenonT(60), <3>1, <3>2 DEF NumberingShape
  <2> QED
    BY <2>1, <2>2
<1>2. \A s : Locked(s)' <=> Locked(s)
  BY <1>1 DEF Locked
<1>3. PackHasLock' /\ PlansFit' /\ NumberingShape'
  BY <1>1, <1>2 DEF PackHasLock, PlansFit, NumberingShape, Group
<1>4. UnhidesFit'
  BY <1>1, <1>2 DEF UnhidesFit, Hidden, Group, Locked
<1>5. GroupsFit'
  <2> SUFFICES ASSUME NEW g \in Compact \ loose, ~Unpacked(g)' PROVE NumbersFit(g)'
    BY <1>1 DEF GroupsFit
  <2>1. NumbersFit(g)
    BY <1>1 DEF GroupsFit, Unpacked, Group
  <2>2. \A s \in InGroup(g) : row'[s].there =>
          row[s].there /\ (Awaited(s)' = Awaited(s) \/ Awaited(s)' = NoNumber)
    BY <1>1, <1>2 DEF Awaited, InGroup
  <2> QED
    BY <2>1, <2>2, FitsKept
<1> QED
  BY <1>3, <1>4, <1>5

\* A transaction opens with its numbers.
LEMMA AssignKeepsNumbers ==
  ASSUME NumberingInv, NEW S \in SUBSET ChannelStreams, UnhideAssigns(S)
  PROVE  NumberingInv'
<1> USE DEF NumberingInv
<1> DEFINE of(g)    == Numberless(S) \cap InGroup(g)
           given(g) == Numbered(g, of(g), ReservedBut(of(g)))
           new == [s \in S |-> IF s \in Numberless(S) THEN given(GroupOf[s])[s] ELSE row[s].number]
<1>1. /\ taskLock = "free" /\ unhides' = unhides \cup {new}
      /\ UNCHANGED <<row, taskLock, sync, pack>> /\ \A s \in S : Hidden(s) /\ ~Locked(s)
      /\ loose' = loose \cup (IF unhides = {} THEN {} ELSE {GroupOf[s] : s \in Numberless(S)})
  BY DEF UnhideAssigns
<1>2. pack = NoPack /\ sync.at = "none"
  BY <1>1 DEF PackHasLock
<1>3. \A s : s \notin DOMAIN pack.plan
  BY <1>2 DEF NoPack
<1>4. Numberless(S) \subseteq S /\ \A s \in Numberless(S) : GroupOf[s] \in Compact
  BY DEF Numberless
<1>5. PackHasLock' /\ PlansFit' /\ NumberingShape'
  BY <1>1, <1>2, <1>3, <1>4 DEF PackHasLock, PlansFit, NumberingShape
<1>6. UnhidesFit'
  <2>1. DOMAIN new = S
    OBVIOUS
  <2>2. \A t \in unhides : DOMAIN t \cap S = {}
    BY <1>1 DEF Locked, UnhidesFit
  <2> HIDE DEF new
  <2> QED
    BY <1>1, <1>2, <2>1, <2>2 DEF UnhidesFit, Hidden
<1>7. GroupsFit'
  <2> SUFFICES ASSUME NEW g \in Compact \ loose' PROVE NumbersFit(g)'
    BY DEF GroupsFit
  <2>1. NumbersFit(g) /\ (unhides = {} \/ of(g) = {})
    BY <1>1, <1>2, <1>4 DEF GroupsFit, Unpacked, InGroup
  <2>2. \A s \in S : Awaited(s)' = new[s]
    <3>1. new \in unhides' /\ DOMAIN new = S
      BY <1>1
    <3> HIDE DEF new
    <3> QED
      BY <1>1, <1>3, <1>6, <3>1, TheHolderAfter DEF Awaited
  <2>3. \A s \in ChannelStreams \ S : Awaited(s)' = Awaited(s)
    <3> SUFFICES ASSUME NEW s \in ChannelStreams \ S PROVE Awaited(s)' = Awaited(s)
      OBVIOUS
    <3>1. CASE Locked(s)
      <4>1. PICK t \in unhides : s \in DOMAIN t
        BY <3>1 DEF Locked
      <4>2. t \in unhides'
        BY <1>1
      <4>3. Locked(s)' /\ (CHOOSE u \in unhides' : s \in DOMAIN u) = t
        BY <1>6, <4>1, <4>2, TheHolderAfter
      <4>4. (CHOOSE u \in unhides : s \in DOMAIN u) = t
        BY <4>1, TheHolder
      <4>5. Awaited(s) = t[s]
        BY <1>3, <3>1, <4>4 DEF Awaited
      <4>6. Awaited(s)' = t[s]
        BY <1>1, <1>3, <4>3 DEF Awaited
      <4> QED
        BY <4>5, <4>6
    <3>2. CASE ~Locked(s)
      <4>1. ~Locked(s)'
        BY <1>1, <3>2 DEF Locked
      <4> QED
        BY <1>1, <1>3, <3>2, <4>1 DEF Awaited
    <3> QED
      BY <3>1, <3>2
  <2>4. \A s \in S : ~Locked(s) /\ Awaited(s) = row[s].number
    BY <1>1, <1>3 DEF Awaited
  <2>5. CASE of(g) = {}
    <3>1. \A s \in InGroup(g) : Awaited(s)' = Awaited(s)
      BY <2>2, <2>3, <2>4, <2>5 DEF InGroup
    <3> QED
      BY <1>1, <2>1, <3>1, FitsKept
  <2>6. CASE unhides = {}
    <3>1. \A s \in InGroup(g) : Awaited(s) = row[s].number
      BY <1>3, <2>6 DEF Awaited, Locked
    <3>2. \A s \in InGroup(g) : Awaited(s)' = IF s \in of(g) THEN given(g)[s] ELSE row[s].number
      BY <1>4, <2>2, <2>3, <3>1 DEF InGroup
    <3>3. \A s \in of(g) : given(g)[s] # NoNumber =>
            /\ given(g)[s] \notin ReservedBut(of(g)) /\ given(g)[s] >= RangeStart[g]
            /\ RangeEnd[g] # NoNumber => given(g)[s] <= RangeEnd[g]
            /\ \A r \in of(g) : given(g)[r] = given(g)[s] => r = s
      <4>1. of(g) \subseteq ChannelStreams
        BY DEF InGroup
      <4> QED
        BY <4>1, NumberedFits
    <3>4. Taken \subseteq ReservedBut(of(g))
      BY DEF ReservedBut
    <3>5. \A s \in InGroup(g) \ of(g) :
            row[s].there /\ row[s].number # NoNumber => row[s].number \in ReservedBut(of(g))
      BY DEF ReservedBut, NumbersOf, InGroup
    <3> DEFINE G == of(g)
               n == given(g)
    <3>6. \A s \in InGroup(g) : row'[s].there = row[s].there
      BY <1>1
    <3>7. \A s \in InGroup(g) \ G : row[s].there /\ row[s].number # NoNumber =>
            /\ row[s].number \notin Taken /\ row[s].number >= RangeStart[g]
            /\ RangeEnd[g] # NoNumber => row[s].number <= RangeEnd[g]
            /\ \A r \in InGroup(g) : row[r].there /\ row[r].number = row[s].number => r = s
      BY <2>1, <3>1 DEF NumbersFit
    <3> HIDE DEF G, n
    <3> SUFFICES ASSUME NEW s \in InGroup(g), row[s].there, Awaited(s)' # NoNumber
                 PROVE  /\ Awaited(s)' \notin Taken /\ Awaited(s)' >= RangeStart[g]
                        /\ RangeEnd[g] # NoNumber => Awaited(s)' <= RangeEnd[g]
                        /\ \A r \in InGroup(g) :
                             row[r].there /\ Awaited(r)' = Awaited(s)' => r = s
      BY <3>6 DEF NumbersFit, InGroup
    <3>8. CASE s \in G
      <4>1. Awaited(s)' = n[s] /\ n[s] \notin Taken /\ n[s] >= RangeStart[g]
            /\ (RangeEnd[g] # NoNumber => n[s] <= RangeEnd[g])
        BY <3>2, <3>3, <3>4, <3>8 DEF G, n
      <4>2. ASSUME NEW r \in InGroup(g), row[r].there, Awaited(r)' = Awaited(s)' PROVE r = s
        <5>1. CASE r \in G
          BY <3>2, <3>3, <3>8, <4>2, <5>1 DEF G, n
        <5>2. CASE r \notin G
          <6>1. row[r].number = n[s] /\ n[s] # NoNumber
            BY <3>2, <3>8, <4>2, <5>2 DEF G, n
          <6> QED
            BY <3>3, <3>5, <3>8, <4>2, <5>2, <6>1 DEF G, n
        <5> QED
          BY <5>1, <5>2
      <4> QED
        BY <4>1, <4>2
    <3>9. CASE s \notin G
      <4>1. Awaited(s)' = row[s].number
        BY <3>2, <3>9 DEF G
      <4>2. ASSUME NEW r \in InGroup(g), row[r].there, Awaited(r)' = Awaited(s)' PROVE r = s
        <5>1. CASE r \in G
          BY <3>2, <3>3, <3>5, <3>9, <4>1, <4>2, <5>1 DEF G, n
        <5>2. CASE r \notin G
          BY <3>2, <3>7, <3>9, <4>1, <4>2, <5>2 DEF G
        <5> QED
          BY <5>1, <5>2
      <4> QED
        BY <3>7, <3>9, <4>1, <4>2
    <3> QED
      BY <3>8, <3>9
  <2> QED
    BY <2>1, <2>5, <2>6
<1> QED
  BY <1>5, <1>6, <1>7

\* A transaction commits: its channels are what it held.
LEMMA CommitKeepsNumbers ==
  ASSUME NumberingInv, NEW t \in unhides, UnhideCommits(t)
  PROVE  NumberingInv'
<1> USE DEF NumberingInv
<1>1. /\ unhides' = unhides \ {t} /\ UNCHANGED <<taskLock, sync, pack, loose>>
      /\ row' = [s \in ChannelStreams |-> IF s \in DOMAIN t THEN NewRow(t[s]) ELSE row[s]]
  BY DEF UnhideCommits
<1>2. \A s : Locked(s)' => Locked(s) /\ s \notin DOMAIN t
  BY <1>1 DEF Locked, UnhidesFit
<1>3. PackHasLock' /\ PlansFit'
  BY <1>1, <1>2 DEF PackHasLock, PlansFit
<1>4. NumberingShape'
  BY <1>1 DEF NumberingShape, NewRow, Group
<1>5. UnhidesFit'
  BY <1>1, <1>2 DEF UnhidesFit, Hidden, Group
<1>6. GroupsFit'
  <2> SUFFICES ASSUME NEW g \in Compact \ loose, ~Unpacked(g)' PROVE NumbersFit(g)'
    BY <1>1 DEF GroupsFit
  <2>1. NumbersFit(g)
    BY <1>1 DEF GroupsFit, Unpacked, Group
  <2>2. ASSUME NEW s \in InGroup(g)
        PROVE  row'[s].there => row[s].there /\ Awaited(s)' = Awaited(s)
    <3>1. s \in ChannelStreams
      BY DEF InGroup
    <3>2. CASE s \in DOMAIN t
      <4>1. row[s].there /\ row'[s].number = t[s] /\ ~Locked(s)'
        BY <1>1, <1>2, <3>1, <3>2 DEF UnhidesFit, Hidden, NewRow
      <4>2. s \notin DOMAIN pack.plan
        BY <2>1, <3>2, TheHolder DEF PlansFit, InGroup
      <4> QED
        BY <1>1, <3>2, <4>1, <4>2, TheHolder DEF Awaited
    <3>3. CASE s \notin DOMAIN t /\ Locked(s)
      <4>1. PICK u \in unhides : s \in DOMAIN u
        BY <3>3 DEF Locked
      <4>2. u \in unhides'
        BY <1>1, <3>3, <4>1
      <4>3. Locked(s)' /\ (CHOOSE w \in unhides' : s \in DOMAIN w) = u
        BY <1>5, <4>1, <4>2, TheHolderAfter
      <4>4. (CHOOSE w \in unhides : s \in DOMAIN w) = u
        BY <4>1, TheHolder
      <4>5. s \notin DOMAIN pack.plan
        BY <2>2, <3>3 DEF PlansFit, InGroup
      <4>6. Awaited(s) = u[s]
        BY <3>3, <4>4, <4>5 DEF Awaited
      <4>7. Awaited(s)' = u[s]
        BY <1>1, <4>3, <4>5 DEF Awaited
      <4> QED
        BY <1>1, <3>1, <3>3, <4>6, <4>7
    <3>4. CASE s \notin DOMAIN t /\ ~Locked(s)
      BY <1>1, <1>2, <3>1, <3>4 DEF Awaited
    <3> QED
      BY <3>2, <3>3, <3>4
  <2> QED
    BY <2>1, <2>2, FitsKept
<1> QED
  BY <1>3, <1>4, <1>5, <1>6

\* Always, for any account, groups, ranges and streams, and whatever syncs,
\* repacks, hides and unhides have gone before.
THEOREM NumbersAreDistinct == NumberingSpec => []PackedNumbersAreDistinct
<1>1. ASSUME NumberingInv, [NumberingNext]_numberingVars PROVE NumberingInv'
  <2>1. CASE NumberingNext
    BY <1>1, <2>1, SyncKeepsNumbers, PackReadKeepsNumbers, PackWriteKeepsNumbers, EditKeepsNumbers,
      AssignKeepsNumbers, CommitKeepsNumbers DEF NumberingNext, SyncStep, PackStep, EditStep
  <2>2. CASE UNCHANGED numberingVars
    <3>1. UNCHANGED <<row, taskLock, sync, pack, unhides, loose>>
      BY <2>2 DEF numberingVars
    <3>2. \A s : Locked(s)' <=> Locked(s)
      BY <3>1 DEF Locked
    <3>3. PackHasLock' /\ NumberingShape' /\ UnhidesFit' /\ PlansFit'
      BY <1>1, <3>1, <3>2 DEF NumberingInv, PackHasLock, NumberingShape, UnhidesFit, PlansFit,
         Hidden,
        Group
    <3>4. \A s \in ChannelStreams : Awaited(s)' = Awaited(s)
      BY <3>1, <3>2 DEF Awaited
    <3>5. ASSUME NEW g \in Compact \ loose, ~Unpacked(g)' PROVE NumbersFit(g)'
      <4>1. NumbersFit(g)
        BY <1>1, <3>1, <3>5 DEF NumberingInv, GroupsFit, Unpacked, Group
      <4>2. \A s \in InGroup(g) : row'[s].there => row[s].there /\ Awaited(s)' = Awaited(s)
        BY <3>1, <3>4 DEF InGroup
      <4> QED
        BY <4>1, <4>2, FitsKept
    <3> QED
      BY <3>1, <3>3, <3>5 DEF NumberingInv, GroupsFit
  <2> QED
    BY <1>1, <2>1, <2>2
<1>2. ASSUME NumberingInv PROVE PackedNumbersAreDistinct
  <2> SUFFICES ASSUME taskLock = "free", NEW g \in Compact \ loose
               PROVE  LET shown == {s \in InGroup(g) : Visible(s) /\ row[s].number # NoNumber}
                      IN  /\ \A s, r \in shown : row[s].number = row[r].number => s = r
                          /\ \A s \in shown :
                               /\ row[s].number \notin Taken
                               /\ row[s].number >= RangeStart[g]
                               /\ RangeEnd[g] # NoNumber => row[s].number <= RangeEnd[g]
    BY DEF PackedNumbersAreDistinct
  <2>1. NumbersFit(g) /\ pack = NoPack
    BY <1>2 DEF NumberingInv, GroupsFit, Unpacked, PackHasLock
  <2>2. \A s \in InGroup(g) : Visible(s) => row[s].there /\ Awaited(s) = row[s].number
    BY <1>2, <2>1 DEF Visible, Awaited, NoPack, Locked, NumberingInv, UnhidesFit, Hidden
  <2> QED
    BY <2>1, <2>2 DEF NumbersFit
<1> QED
  BY <1>1, <1>2, NumberingStarts, PTL DEF NumberingSpec

----------------------------------------------------------------------------
(* A recording. *)


\* The records of DvrTypeOK.
JobRecs == [at : JobPlaces \cup {"idle"}, deadline : 0..MaxNow, file : Paths \cup {NoPath},
            confirmed : BOOLEAN, interrupted : BOOLEAN, draft : Rows]
Recoveries == [at : {"idle", "queued", "active", "expired", "saving"},
               rec : Rows, crossed : BOOLEAN]

\* What an edit of a row, of a task and of a recovery leaves is one.
LEMMA RowEdits ==
  ASSUME NEW r \in Rows
  PROVE  /\ \A s \in Statuses : [r EXCEPT !.status = s] \in Rows
         /\ \A d \in BOOLEAN : [r EXCEPT !.dir = d] \in Rows
         /\ \A f \in Paths \cup {NoPath} :
              [r EXCEPT !.status = "recording", !.dir = TRUE, !.file = f] \in Rows
         /\ \A e \in 0..MaxNow : [r EXCEPT !.end = e] \in Rows
         /\ \A e \in 0..MaxNow : [r EXCEPT !.status = "interrupted", !.end = e] \in Rows
         /\ r.end \in 0..MaxNow /\ r.file \in Paths \cup {NoPath} /\ r.there \in BOOLEAN
         /\ r.dir \in BOOLEAN /\ r.status \in Statuses
<1>1. /\ \A s \in Statuses : [r EXCEPT !.status = s] \in Rows
      /\ \A d \in BOOLEAN : [r EXCEPT !.dir = d] \in Rows
      /\ \A e \in 0..MaxNow : [r EXCEPT !.end = e] \in Rows
  BY DEF Rows
<1>2. \A f \in Paths \cup {NoPath} :
        [r EXCEPT !.status = "recording", !.dir = TRUE, !.file = f] \in Rows
  BY DEF Rows, Statuses
<1>3. \A e \in 0..MaxNow : [r EXCEPT !.status = "interrupted", !.end = e] \in Rows
  BY DEF Rows, Statuses
<1>4. /\ r.end \in 0..MaxNow /\ r.file \in Paths \cup {NoPath} /\ r.there \in BOOLEAN
      /\ r.dir \in BOOLEAN /\ r.status \in Statuses
  BY DEF Rows
<1> QED
  BY <1>1, <1>2, <1>3, <1>4

\* A new row and a deleted one are rows.
LEMMA RowsThere == NewRec \in Rows /\ Gone \in Rows /\ ~Gone.there
<1>1. 1 \in 0..MaxNow
  BY DvrAssumption
<1>2. NewRec \in Rows
  BY <1>1 DEF NewRec, Rows, Statuses, NoPath
<1> QED
  BY <1>2 DEF Gone, Rows

\* What a step of a task leaves of its record is one.
LEMMA JobEdits ==
  ASSUME NEW r \in JobRecs
  PROVE  /\ \A p \in JobPlaces : [r EXCEPT !.at = p] \in JobRecs
         /\ \A p \in JobPlaces, d \in 0..MaxNow : [r EXCEPT !.at = p, !.deadline = d] \in JobRecs
         /\ \A p \in JobPlaces, f \in Paths : [r EXCEPT !.at = p, !.file = f] \in JobRecs
         /\ \A p \in JobPlaces, b \in BOOLEAN : [r EXCEPT !.at = p, !.interrupted = b] \in JobRecs
         /\ \A p \in JobPlaces, d \in Rows : [r EXCEPT !.at = p, !.draft = d] \in JobRecs
         /\ \A b \in BOOLEAN : [r EXCEPT !.confirmed = b] \in JobRecs
         /\ \A d \in 0..MaxNow : [r EXCEPT !.deadline = d] \in JobRecs
         /\ r.at \in JobPlaces \cup {"idle"} /\ r.file \in Paths \cup {NoPath} /\ r.draft \in Rows
         /\ r.interrupted \in BOOLEAN /\ r.confirmed \in BOOLEAN /\ r.deadline \in 0..MaxNow
BY DEF JobRecs

RowT == rec \in Rows
JobT == job \in [Jobs -> JobRecs]
TapeT ==
  /\ folder \in [there : BOOLEAN, parts : SUBSET (1..MaxParts)]
  /\ files \in [Paths -> SUBSET (1..MaxParts)] /\ taped \in 0..MaxParts
ReadT == recovery \in Recoveries /\ stale \in BOOLEAN
CleanT == cleaning \in [on : BOOLEAN, file : Paths \cup {NoPath}, dir : BOOLEAN]
LockT ==
  /\ active \in Jobs \cup {NoJob} /\ dispatchLock \in BOOLEAN /\ recoverLock \in BOOLEAN
  /\ beat \in BOOLEAN
WorldT ==
  /\ worker \in {"up", "stopping", "down"} /\ now \in 0..MaxNow
  /\ faults \in 0..MaxFaults /\ edits \in 0..MaxEdits

\* The types, in the parts the steps disturb one or two at a time.
LEMMA TypesSplit == DvrTypeOK <=> RowT /\ JobT /\ TapeT /\ ReadT /\ CleanT /\ LockT /\ WorldT
BY DEF DvrTypeOK, RowT, JobT, TapeT, ReadT, CleanT, LockT, WorldT, JobRecs, Recoveries

\* No step leaves the types.
LEMMA StepTypes ==
  ASSUME RowT, JobT, TapeT, ReadT, CleanT, LockT, WorldT, [DvrNext]_dvrVars
  PROVE  RowT' /\ JobT' /\ TapeT' /\ ReadT' /\ CleanT' /\ LockT' /\ WorldT'
<1> USE DvrAssumption DEF diskVars, lockVars, workerVars, startVars, NoJob
<1>1. ASSUME NEW j \in Jobs, BeatFires(j)
      PROVE  RowT' /\ JobT' /\ TapeT' /\ ReadT' /\ CleanT' /\ LockT' /\ WorldT'
  <2>1. RowT'
    BY <1>1, RowEdits, RowsThere DEF BeatFires, RowT
  <2>2. JobT'
    <3>1. job' = [job EXCEPT ![j] = [job[j] EXCEPT !.at = "guard", !.deadline = rec.end]]
      BY <1>1 DEF BeatFires, Dispatched
    <3>2. "guard" \in JobPlaces /\ rec.end \in 0..MaxNow
      BY RowEdits DEF JobPlaces, RowT
    <3> QED
      BY <3>1, <3>2, JobEdits DEF JobT
  <2>3. TapeT'
    BY <1>1, JobEdits DEF BeatFires, TapeT
  <2>4. ReadT'
    BY <1>1, RowsThere DEF BeatFires, ReadT
  <2>5. CleanT'
    BY <1>1, RowEdits DEF BeatFires, CleanT
  <2>6. LockT'
    BY <1>1 DEF BeatFires, LockT
  <2>7. WorldT'
    BY <1>1 DEF BeatFires, WorldT
  <2> QED
    BY <2>1, <2>2, <2>3, <2>4, <2>5, <2>6, <2>7
<1>2. ASSUME NEW j \in Jobs, Guard(j)
      PROVE  RowT' /\ JobT' /\ TapeT' /\ ReadT' /\ CleanT' /\ LockT' /\ WorldT'
  <2>1. RowT'
    BY <1>2, RowEdits, RowsThere DEF Guard, RowT
  <2>2. JobT'
    <3>1. PICK p \in {"done", "prepare"} : job' = [job EXCEPT ![j].at = p]
      BY <1>2 DEF Guard, TakeLock, Goes
    <3>2. p \in JobPlaces
      BY DEF JobPlaces
    <3> QED
      BY <3>1, <3>2, JobEdits DEF JobT
  <2>3. TapeT'
    BY <1>2, JobEdits DEF Guard, TapeT
  <2>4. ReadT'
    BY <1>2, RowsThere DEF Guard, ReadT, Recoveries
  <2>5. CleanT'
    BY <1>2, RowEdits DEF Guard, CleanT
  <2>6. LockT'
    BY <1>2 DEF Guard, TakeLock, LockT
  <2>7. WorldT'
    BY <1>2 DEF Guard, WorldT
  <2> QED
    BY <2>1, <2>2, <2>3, <2>4, <2>5, <2>6, <2>7
<1>3. ASSUME NEW j \in Jobs, Prepare(j)
      PROVE  RowT' /\ JobT' /\ TapeT' /\ ReadT' /\ CleanT' /\ LockT' /\ WorldT'
  <2>1. RowT'
    BY <1>3, RowEdits, RowsThere DEF Prepare, RowT
  <2>2. JobT'
    <3>1. CASE \E p \in {"check", "done"} : job' = [job EXCEPT ![j].at = p]
      <4>1. PICK p \in {"check", "done"} : job' = [job EXCEPT ![j].at = p]
        BY <3>1
      <4>2. p \in JobPlaces
        BY DEF JobPlaces
      <4> QED
        BY <4>1, <4>2, JobEdits DEF JobT
    <3>2. CASE \E f \in Paths : job' = [job EXCEPT ![j].at = "prime", ![j].file = f]
      <4>1. PICK f \in Paths : job' = [job EXCEPT ![j].at = "prime", ![j].file = f]
        BY <3>2
      <4>2. job' = [job EXCEPT ![j] = [job[j] EXCEPT !.at = "prime", !.file = f]]
        BY <4>1
      <4>3. "prime" \in JobPlaces
        BY DEF JobPlaces
      <4> QED
        BY <4>2, <4>3, JobEdits DEF JobT
    <3> QED
      BY <1>3, <3>1, <3>2 DEF Prepare, Goes
  <2>3. TapeT'
    BY <1>3, JobEdits DEF Prepare, TapeT
  <2>4. ReadT'
    BY <1>3, RowsThere DEF Prepare, ReadT
  <2>5. CleanT'
    BY <1>3, RowEdits DEF Prepare, CleanT
  <2>6. LockT'
    BY <1>3 DEF Prepare, LockT
  <2>7. WorldT'
    BY <1>3 DEF Prepare, WorldT
  <2> QED
    BY <2>1, <2>2, <2>3, <2>4, <2>5, <2>6, <2>7
<1>4. ASSUME NEW j \in Jobs, Prime(j)
      PROVE  RowT' /\ JobT' /\ TapeT' /\ ReadT' /\ CleanT' /\ LockT' /\ WorldT'
  <2>1. RowT'
    <3>1. CASE rec' = rec
      BY <3>1 DEF RowT
    <3>2. CASE rec' = [rec EXCEPT !.status = "recording", !.dir = TRUE, !.file = job[j].file]
      <4>1. job[j].file \in Paths \cup {NoPath}
        BY JobEdits DEF JobT
      <4> QED
        BY <3>2, <4>1, RowEdits DEF RowT
    <3> QED
      BY <1>4, <3>1, <3>2 DEF Prime
  <2>2. JobT'
    BY <1>4, RowEdits, JobEdits DEF Prime, Goes, JobT, JobPlaces
  <2>3. TapeT'
    BY <1>4, JobEdits DEF Prime, TapeT
  <2>4. ReadT'
    BY <1>4, RowsThere DEF Prime, ReadT
  <2>5. CleanT'
    BY <1>4, RowEdits DEF Prime, CleanT
  <2>6. LockT'
    BY <1>4 DEF Prime, LockT
  <2>7. WorldT'
    BY <1>4 DEF Prime, WorldT
  <2> QED
    BY <2>1, <2>2, <2>3, <2>4, <2>5, <2>6, <2>7
<1>5. ASSUME NEW j \in Jobs, Check(j)
      PROVE  RowT' /\ JobT' /\ TapeT' /\ ReadT' /\ CleanT' /\ LockT' /\ WorldT'
  <2>1. RowT'
    BY <1>5, RowEdits, RowsThere DEF Check, RowT
  <2>2. JobT'
    <3>1. PICK p \in {"loop", "ended"} :
            job' = [job EXCEPT ![j] = [job[j] EXCEPT !.at = p, !.interrupted = ~rec.there]]
      BY <1>5 DEF Check
    <3>2. p \in JobPlaces /\ (~rec.there) \in BOOLEAN
      BY DEF JobPlaces
    <3> QED
      BY <3>1, <3>2, JobEdits DEF JobT
  <2>3. TapeT'
    BY <1>5, JobEdits DEF Check, TapeT
  <2>4. ReadT'
    BY <1>5, RowsThere DEF Check, ReadT
  <2>5. CleanT'
    BY <1>5, RowEdits DEF Check, CleanT
  <2>6. LockT'
    BY <1>5 DEF Check, LockT
  <2>7. WorldT'
    BY <1>5 DEF Check, WorldT
  <2> QED
    BY <2>1, <2>2, <2>3, <2>4, <2>5, <2>6, <2>7
<1>6. ASSUME NEW j \in Jobs, StartTaping(j)
      PROVE  RowT' /\ JobT' /\ TapeT' /\ ReadT' /\ CleanT' /\ LockT' /\ WorldT'
  <2>1. RowT'
    BY <1>6, RowEdits, RowsThere DEF StartTaping, RowT
  <2>2. JobT'
    BY <1>6, RowEdits, JobEdits DEF StartTaping, Goes, JobT, JobPlaces
  <2>3. TapeT'
    BY <1>6, JobEdits DEF StartTaping, TapeT
  <2>4. ReadT'
    BY <1>6, RowsThere DEF StartTaping, ReadT
  <2>5. CleanT'
    BY <1>6, RowEdits DEF StartTaping, CleanT
  <2>6. LockT'
    BY <1>6 DEF StartTaping, LockT
  <2>7. WorldT'
    BY <1>6 DEF StartTaping, WorldT
  <2> QED
    BY <2>1, <2>2, <2>3, <2>4, <2>5, <2>6, <2>7
<1>7. ASSUME NEW j \in Jobs, Tape(j)
      PROVE  RowT' /\ JobT' /\ TapeT' /\ ReadT' /\ CleanT' /\ LockT' /\ WorldT'
  <2>1. RowT'
    BY <1>7, RowEdits, RowsThere DEF Tape, RowT
  <2>2. JobT'
    BY <1>7, RowEdits, JobEdits DEF Tape, JobT
  <2>3. TapeT'
    <3>1. taped' = taped + 1 /\ folder' = Folder(TRUE, folder.parts \cup {taped'}) /\ files' = files
          /\ taped < MaxParts
      BY <1>7 DEF Tape
    <3>2. taped' \in 0..MaxParts /\ taped' \in 1..MaxParts
      BY <3>1 DEF TapeT
    <3>3. folder.parts \cup {taped'} \in SUBSET (1..MaxParts)
      BY <3>2 DEF TapeT
    <3> QED
      BY <3>1, <3>2, <3>3 DEF TapeT, Folder
  <2>4. ReadT'
    BY <1>7, RowsThere DEF Tape, ReadT
  <2>5. CleanT'
    BY <1>7, RowEdits DEF Tape, CleanT
  <2>6. LockT'
    BY <1>7 DEF Tape, LockT
  <2>7. WorldT'
    BY <1>7 DEF Tape, WorldT
  <2> QED
    BY <2>1, <2>2, <2>3, <2>4, <2>5, <2>6, <2>7
<1>8. ASSUME NEW j \in Jobs, PollEnd(j)
      PROVE  RowT' /\ JobT' /\ TapeT' /\ ReadT' /\ CleanT' /\ LockT' /\ WorldT'
  <2>1. RowT'
    BY <1>8, RowEdits, RowsThere DEF PollEnd, RowT
  <2>2. JobT'
    BY <1>8, RowEdits, JobEdits DEF PollEnd, JobT, RowT
  <2>3. TapeT'
    BY <1>8, JobEdits DEF PollEnd, TapeT
  <2>4. ReadT'
    BY <1>8, RowsThere DEF PollEnd, ReadT
  <2>5. CleanT'
    BY <1>8, RowEdits DEF PollEnd, CleanT
  <2>6. LockT'
    BY <1>8 DEF PollEnd, LockT
  <2>7. WorldT'
    BY <1>8 DEF PollEnd, WorldT
  <2> QED
    BY <2>1, <2>2, <2>3, <2>4, <2>5, <2>6, <2>7
<1>9. ASSUME NEW j \in Jobs, TapingEnds(j)
      PROVE  RowT' /\ JobT' /\ TapeT' /\ ReadT' /\ CleanT' /\ LockT' /\ WorldT'
  <2>1. RowT'
    BY <1>9, RowEdits, RowsThere DEF TapingEnds, RowT
  <2>2. JobT'
    BY <1>9, RowEdits, JobEdits DEF TapingEnds, Goes, JobT, JobPlaces
  <2>3. TapeT'
    BY <1>9, JobEdits DEF TapingEnds, TapeT
  <2>4. ReadT'
    BY <1>9, RowsThere DEF TapingEnds, ReadT
  <2>5. CleanT'
    BY <1>9, RowEdits DEF TapingEnds, CleanT
  <2>6. LockT'
    BY <1>9 DEF TapingEnds, LockT
  <2>7. WorldT'
    BY <1>9 DEF TapingEnds, WorldT
  <2> QED
    BY <2>1, <2>2, <2>3, <2>4, <2>5, <2>6, <2>7
<1>10. ASSUME NEW j \in Jobs, TapingFails(j)
       PROVE  RowT' /\ JobT' /\ TapeT' /\ ReadT' /\ CleanT' /\ LockT' /\ WorldT'
  <2>1. RowT'
    BY <1>10, RowEdits, RowsThere DEF TapingFails, RowT
  <2>2. JobT'
    <3>1. CASE job' = [job EXCEPT ![j].at = "backoff"]
      BY <3>1, JobEdits DEF JobT, JobPlaces
    <3>2. CASE job' = [job EXCEPT ![j].at = "ended", ![j].interrupted = job[j].confirmed]
      <4>1. job' = [job EXCEPT ![j] = [job[j] EXCEPT !.at = "ended", !.interrupted = job[j].confirmed]]
        BY <3>2
      <4>2. "ended" \in JobPlaces /\ job[j].confirmed \in BOOLEAN
        BY JobEdits DEF JobPlaces, JobT
      <4> QED
        BY <4>1, <4>2, JobEdits DEF JobT
    <3> QED
      BY <1>10, <3>1, <3>2 DEF TapingFails, Goes
  <2>3. TapeT'
    BY <1>10, JobEdits DEF TapingFails, TapeT
  <2>4. ReadT'
    BY <1>10, RowsThere DEF TapingFails, ReadT
  <2>5. CleanT'
    BY <1>10, RowEdits DEF TapingFails, CleanT
  <2>6. LockT'
    BY <1>10 DEF TapingFails, LockT
  <2>7. WorldT'
    BY <1>10 DEF TapingFails, WorldT
  <2> QED
    BY <2>1, <2>2, <2>3, <2>4, <2>5, <2>6, <2>7
<1>11. ASSUME NEW j \in Jobs, BackoffElapses(j)
       PROVE  RowT' /\ JobT' /\ TapeT' /\ ReadT' /\ CleanT' /\ LockT' /\ WorldT'
  <2>1. RowT'
    BY <1>11, RowEdits, RowsThere DEF BackoffElapses, RowT
  <2>2. JobT'
    <3>1. PICK p \in {"loop", "ended"} :
            job' = [job EXCEPT ![j] = [job[j] EXCEPT !.at = p, !.interrupted = ~rec.there]]
      BY <1>11 DEF BackoffElapses
    <3>2. p \in JobPlaces /\ (~rec.there) \in BOOLEAN
      BY DEF JobPlaces
    <3> QED
      BY <3>1, <3>2, JobEdits DEF JobT
  <2>3. TapeT'
    BY <1>11, JobEdits DEF BackoffElapses, TapeT
  <2>4. ReadT'
    BY <1>11, RowsThere DEF BackoffElapses, ReadT
  <2>5. CleanT'
    BY <1>11, RowEdits DEF BackoffElapses, CleanT
  <2>6. LockT'
    BY <1>11 DEF BackoffElapses, LockT
  <2>7. WorldT'
    BY <1>11 DEF BackoffElapses, WorldT
  <2> QED
    BY <2>1, <2>2, <2>3, <2>4, <2>5, <2>6, <2>7
<1>12. ASSUME NEW j \in Jobs, FolderVanished(j)
       PROVE  RowT' /\ JobT' /\ TapeT' /\ ReadT' /\ CleanT' /\ LockT' /\ WorldT'
  <2>1. RowT'
    BY <1>12, RowEdits, RowsThere DEF FolderVanished, RowT
  <2>2. JobT'
    BY <1>12, RowEdits, JobEdits DEF FolderVanished, Goes, JobT, JobPlaces
  <2>3. TapeT'
    BY <1>12, JobEdits DEF FolderVanished, TapeT
  <2>4. ReadT'
    BY <1>12, RowsThere DEF FolderVanished, ReadT
  <2>5. CleanT'
    BY <1>12, RowEdits DEF FolderVanished, CleanT
  <2>6. LockT'
    BY <1>12 DEF FolderVanished, LockT
  <2>7. WorldT'
    BY <1>12 DEF FolderVanished, WorldT
  <2> QED
    BY <2>1, <2>2, <2>3, <2>4, <2>5, <2>6, <2>7
<1>13. ASSUME NEW j \in Jobs, TapeEnds(j)
       PROVE  RowT' /\ JobT' /\ TapeT' /\ ReadT' /\ CleanT' /\ LockT' /\ WorldT'
  <2>1. RowT'
    <3>1. rec' = rec \/ rec' = [rec EXCEPT !.status = "interrupted"]
      BY <1>13 DEF TapeEnds
    <3> QED
      BY <3>1, RowEdits DEF RowT, Statuses
  <2>2. JobT'
    <3>1. CASE job' = [job EXCEPT ![j].at = "done"]
      BY <3>1, JobEdits DEF JobT, JobPlaces
    <3>2. CASE job' = [job EXCEPT ![j].at = "concat", ![j].interrupted = @ \/ ~job[j].confirmed]
      <4>1. job' = [job EXCEPT ![j] = [job[j] EXCEPT !.at = "concat",
                                             !.interrupted = job[j].interrupted
                                               \/ ~job[j].confirmed]]
        BY <3>2
      <4>2. "concat" \in JobPlaces /\ (job[j].interrupted \/ ~job[j].confirmed) \in BOOLEAN
        BY DEF JobPlaces
      <4> QED
        BY <4>1, <4>2, JobEdits DEF JobT
    <3> QED
      BY <1>13, <3>1, <3>2 DEF TapeEnds, Goes
  <2>3. TapeT'
    <3>1. taped' = taped /\ (folder' = folder \/ folder' = Folder(FALSE, {}))
          /\ (files' = files \/ files' = [f \in Paths |-> IF f = job[j].file THEN {} ELSE files[f]])
      BY <1>13 DEF TapeEnds
    <3>2. folder' \in [there : BOOLEAN, parts : SUBSET (1..MaxParts)]
      <4>1. Folder(FALSE, {}) \in [there : BOOLEAN, parts : SUBSET (1..MaxParts)]
        BY DEF Folder
      <4>2. folder \in [there : BOOLEAN, parts : SUBSET (1..MaxParts)]
        BY DEF TapeT
      <4>3. folder' = folder \/ folder' = Folder(FALSE, {})
        BY <3>1
      <4> QED
        BY <4>1, <4>2, <4>3, Zenon
    <3>3. files' \in [Paths -> SUBSET (1..MaxParts)]
      BY <3>1 DEF TapeT
    <3> QED
      BY <3>1, <3>2, <3>3 DEF TapeT
  <2>4. ReadT'
    BY <1>13, RowsThere DEF TapeEnds, ReadT
  <2>5. CleanT'
    BY <1>13, RowEdits DEF TapeEnds, CleanT
  <2>6. LockT'
    BY <1>13 DEF TapeEnds, LockT
  <2>7. WorldT'
    BY <1>13 DEF TapeEnds, WorldT
  <2> QED
    BY <2>1, <2>2, <2>3, <2>4, <2>5, <2>6, <2>7
<1>14. ASSUME NEW j \in Jobs, Concat(j)
       PROVE  RowT' /\ JobT' /\ TapeT' /\ ReadT' /\ CleanT' /\ LockT' /\ WorldT'
  <2>1. RowT'
    BY <1>14, RowEdits, RowsThere DEF Concat, RowT
  <2>2. JobT'
    <3>1. PICK p \in {"final", "waiting"} : job' = [job EXCEPT ![j].at = p]
      BY <1>14 DEF Concat, Goes
    <3>2. p \in JobPlaces
      BY DEF JobPlaces
    <3> QED
      BY <3>1, <3>2, JobEdits DEF JobT
  <2>3. TapeT'
    BY <1>14, JobEdits DEF Concat, TapeT
  <2>4. ReadT'
    BY <1>14, RowsThere DEF Concat, ReadT
  <2>5. CleanT'
    BY <1>14, RowEdits DEF Concat, CleanT
  <2>6. LockT'
    BY <1>14 DEF Concat, LockT
  <2>7. WorldT'
    BY <1>14 DEF Concat, WorldT
  <2> QED
    BY <2>1, <2>2, <2>3, <2>4, <2>5, <2>6, <2>7
<1>15. ASSUME NEW j \in Jobs, ClearFolder(j)
       PROVE  RowT' /\ JobT' /\ TapeT' /\ ReadT' /\ CleanT' /\ LockT' /\ WorldT'
  <2>1. RowT'
    BY <1>15, RowEdits, RowsThere DEF ClearFolder, RowT
  <2>2. JobT'
    BY <1>15, RowEdits, JobEdits DEF ClearFolder, Goes, JobT, JobPlaces
  <2>3. TapeT'
    BY <1>15, JobEdits DEF ClearFolder, Folder, TapeT
  <2>4. ReadT'
    BY <1>15, RowsThere DEF ClearFolder, ReadT
  <2>5. CleanT'
    BY <1>15, RowEdits DEF ClearFolder, CleanT
  <2>6. LockT'
    BY <1>15 DEF ClearFolder, LockT
  <2>7. WorldT'
    BY <1>15 DEF ClearFolder, WorldT
  <2> QED
    BY <2>1, <2>2, <2>3, <2>4, <2>5, <2>6, <2>7
<1>16. ASSUME NEW j \in Jobs, UnsetFolder(j)
       PROVE  RowT' /\ JobT' /\ TapeT' /\ ReadT' /\ CleanT' /\ LockT' /\ WorldT'
  <2>1. RowT'
    BY <1>16, RowEdits, RowsThere DEF UnsetFolder, RowT
  <2>2. JobT'
    BY <1>16, RowEdits, JobEdits DEF UnsetFolder, Goes, JobT, JobPlaces
  <2>3. TapeT'
    BY <1>16, JobEdits DEF UnsetFolder, TapeT
  <2>4. ReadT'
    BY <1>16, RowsThere DEF UnsetFolder, ReadT
  <2>5. CleanT'
    BY <1>16, RowEdits DEF UnsetFolder, CleanT
  <2>6. LockT'
    BY <1>16 DEF UnsetFolder, LockT
  <2>7. WorldT'
    BY <1>16 DEF UnsetFolder, WorldT
  <2> QED
    BY <2>1, <2>2, <2>3, <2>4, <2>5, <2>6, <2>7
<1>17. ASSUME NEW j \in Jobs, Finalize(j)
       PROVE  RowT' /\ JobT' /\ TapeT' /\ ReadT' /\ CleanT' /\ LockT' /\ WorldT'
  <2>1. RowT'
    BY <1>17, RowEdits, RowsThere DEF Finalize, RowT
  <2>2. JobT'
    <3>1. CASE job' = [job EXCEPT ![j].at = "done"]
      BY <3>1, JobEdits DEF JobT, JobPlaces
    <3>2. CASE job' # [job EXCEPT ![j].at = "done"]
      <4>1. PICK s \in {"stopped", "interrupted", "completed"} :
              job' = [job EXCEPT ![j].at = "save", ![j].draft = [rec EXCEPT !.status = s]]
        BY <1>17, <3>2 DEF Finalize, Goes
      <4>2. job' = [job EXCEPT ![j] = [job[j] EXCEPT !.at = "save", !.draft = [rec EXCEPT !.status = s]]]
        BY <4>1
      <4>3. "save" \in JobPlaces /\ [rec EXCEPT !.status = s] \in Rows
        BY RowEdits DEF JobPlaces, RowT, Statuses
      <4> QED
        BY <4>2, <4>3, JobEdits DEF JobT
    <3> QED
      BY <3>1, <3>2
  <2>3. TapeT'
    BY <1>17, JobEdits DEF Finalize, TapeT
  <2>4. ReadT'
    BY <1>17, RowsThere DEF Finalize, ReadT
  <2>5. CleanT'
    BY <1>17, RowEdits DEF Finalize, CleanT
  <2>6. LockT'
    BY <1>17 DEF Finalize, LockT
  <2>7. WorldT'
    BY <1>17 DEF Finalize, WorldT
  <2> QED
    BY <2>1, <2>2, <2>3, <2>4, <2>5, <2>6, <2>7
<1>18. ASSUME NEW j \in Jobs, SaveFinal(j)
       PROVE  RowT' /\ JobT' /\ TapeT' /\ ReadT' /\ CleanT' /\ LockT' /\ WorldT'
  <2>1. RowT'
    <3>1. rec' = rec \/ rec' = [job[j].draft EXCEPT !.end = rec.end]
      BY <1>18 DEF SaveFinal
    <3>2. job[j].draft \in Rows /\ rec.end \in 0..MaxNow
      BY JobEdits, RowEdits DEF JobT, RowT
    <3>3. [job[j].draft EXCEPT !.end = rec.end] \in Rows
      BY <3>2, RowEdits
    <3> QED
      BY <3>1, <3>3 DEF RowT
  <2>2. JobT'
    BY <1>18, RowEdits, JobEdits DEF SaveFinal, Goes, JobT, JobPlaces
  <2>3. TapeT'
    BY <1>18, JobEdits DEF SaveFinal, TapeT
  <2>4. ReadT'
    BY <1>18, RowsThere DEF SaveFinal, ReadT
  <2>5. CleanT'
    BY <1>18, RowEdits DEF SaveFinal, CleanT
  <2>6. LockT'
    BY <1>18 DEF SaveFinal, LockT
  <2>7. WorldT'
    BY <1>18 DEF SaveFinal, WorldT
  <2> QED
    BY <2>1, <2>2, <2>3, <2>4, <2>5, <2>6, <2>7
<1>19. ASSUME NEW j \in Jobs, RecoverResumes(j)
       PROVE  RowT' /\ JobT' /\ TapeT' /\ ReadT' /\ CleanT' /\ LockT' /\ WorldT'
  <2>1. RowT'
    BY <1>19, RowEdits, RowsThere DEF RecoverResumes, RowT, ReadT, Recoveries
  <2>2. JobT'
    BY <1>19, RowEdits, JobEdits DEF RecoverResumes, Dispatched, JobT, RowT, JobPlaces
  <2>3. TapeT'
    BY <1>19, JobEdits DEF RecoverResumes, TapeT
  <2>4. ReadT'
    BY <1>19, RowsThere DEF RecoverResumes, RecoveryDone, ActsOnRead, ReadT, Recoveries, NoRecovery
  <2>5. CleanT'
    BY <1>19, RowEdits DEF RecoverResumes, CleanT
  <2>6. LockT'
    BY <1>19 DEF RecoverResumes, RecoveryDone, LockT
  <2>7. WorldT'
    BY <1>19 DEF RecoverResumes, WorldT
  <2> QED
    BY <2>1, <2>2, <2>3, <2>4, <2>5, <2>6, <2>7
<1>20. CASE RecoverFetch
  <2>1. RowT'
    BY <1>20, RowEdits, RowsThere DEF RecoverFetch, RowT
  <2>2. JobT'
    BY <1>20, RowEdits, JobEdits DEF RecoverFetch, JobT
  <2>3. TapeT'
    BY <1>20, JobEdits DEF RecoverFetch, TapeT
  <2>4. ReadT'
    <3>1. \/ recovery' = NoRecovery
          \/ \E as \in {"active", "expired"} : Reads(as)
      BY <1>20 DEF RecoverFetch, RecoveryDone
    <3>2. stale' = stale
      BY <1>20 DEF RecoverFetch
    <3>3. NoRecovery \in Recoveries
      BY RowsThere DEF NoRecovery, Recoveries
    <3>4. ASSUME NEW as \in {"active", "expired"}, Reads(as) PROVE recovery' \in Recoveries
      <4>1. (\E k \in Jobs : Running(k)) \in BOOLEAN
        OBVIOUS
      <4>2. PICK b \in BOOLEAN : recovery' = [at |-> as, rec |-> rec, crossed |-> b]
        BY <3>4, <4>1, Zenon DEF Reads
      <4> QED
        BY <4>2 DEF RowT, Recoveries
    <3> QED
      BY <3>1, <3>2, <3>3, <3>4 DEF ReadT
  <2>5. CleanT'
    BY <1>20, RowEdits DEF RecoverFetch, CleanT
  <2>6. LockT'
    BY <1>20 DEF RecoverFetch, RecoveryDone, LockT
  <2>7. WorldT'
    BY <1>20 DEF RecoverFetch, WorldT
  <2> QED
    BY <2>1, <2>2, <2>3, <2>4, <2>5, <2>6, <2>7
<1>21. CASE RecoverSkips
  <2>1. RowT'
    BY <1>21, RowEdits, RowsThere DEF RecoverSkips, RowT
  <2>2. JobT'
    BY <1>21, RowEdits, JobEdits DEF RecoverSkips, JobT
  <2>3. TapeT'
    BY <1>21, JobEdits DEF RecoverSkips, TapeT
  <2>4. ReadT'
    BY <1>21, RowsThere DEF RecoverSkips, RecoveryDone, ReadT, Recoveries, NoRecovery
  <2>5. CleanT'
    BY <1>21, RowEdits DEF RecoverSkips, CleanT
  <2>6. LockT'
    BY <1>21 DEF RecoverSkips, RecoveryDone, LockT
  <2>7. WorldT'
    BY <1>21 DEF RecoverSkips, WorldT
  <2> QED
    BY <2>1, <2>2, <2>3, <2>4, <2>5, <2>6, <2>7
<1>22. CASE RecoverJoins
  <2>1. RowT'
    BY <1>22, RowEdits, RowsThere DEF RecoverJoins, RowT
  <2>2. JobT'
    BY <1>22, RowEdits, JobEdits DEF RecoverJoins, JobT
  <2>3. TapeT'
    <3>1. taped' = taped
          /\ \/ UNCHANGED <<folder, files>>
             \/ files' = [files EXCEPT ![recovery.rec.file] = folder.parts]
                  /\ folder' = Folder(FALSE, {})
      BY <1>22 DEF RecoverJoins
    <3>2. folder' \in [there : BOOLEAN, parts : SUBSET (1..MaxParts)]
      <4>1. Folder(FALSE, {}) \in [there : BOOLEAN, parts : SUBSET (1..MaxParts)]
        BY DEF Folder
      <4>2. folder \in [there : BOOLEAN, parts : SUBSET (1..MaxParts)]
        BY DEF TapeT
      <4>3. folder' = folder \/ folder' = Folder(FALSE, {})
        BY <3>1
      <4> QED
        BY <4>1, <4>2, <4>3, Zenon
    <3>3. files' \in [Paths -> SUBSET (1..MaxParts)]
      <4>1. folder.parts \in SUBSET (1..MaxParts)
        BY DEF TapeT
      <4> QED
        BY <3>1, <4>1 DEF TapeT
    <3> QED
      BY <3>1, <3>2, <3>3 DEF TapeT
  <2>4. ReadT'
    BY <1>22, RowsThere DEF RecoverJoins, ActsOnRead, ReadT, Recoveries
  <2>5. CleanT'
    BY <1>22, RowEdits DEF RecoverJoins, CleanT
  <2>6. LockT'
    BY <1>22 DEF RecoverJoins, LockT
  <2>7. WorldT'
    BY <1>22 DEF RecoverJoins, WorldT
  <2> QED
    BY <2>1, <2>2, <2>3, <2>4, <2>5, <2>6, <2>7
<1>23. CASE RecoverSaves
  <2>1. RowT'
    BY <1>23, RowEdits, RowsThere DEF RecoverSaves, RowT, ReadT, Recoveries
  <2>2. JobT'
    BY <1>23, RowEdits, JobEdits DEF RecoverSaves, JobT
  <2>3. TapeT'
    BY <1>23, JobEdits DEF RecoverSaves, TapeT
  <2>4. ReadT'
    BY <1>23, RowsThere DEF RecoverSaves, RecoveryDone, ActsOnRead, ReadT, Recoveries, NoRecovery
  <2>5. CleanT'
    BY <1>23, RowEdits DEF RecoverSaves, CleanT
  <2>6. LockT'
    BY <1>23 DEF RecoverSaves, RecoveryDone, LockT
  <2>7. WorldT'
    BY <1>23 DEF RecoverSaves, WorldT
  <2> QED
    BY <2>1, <2>2, <2>3, <2>4, <2>5, <2>6, <2>7
<1>24. CASE Shutdown
  <2>1. RowT'
    BY <1>24, RowEdits, RowsThere DEF Shutdown, RowT
  <2>2. JobT'
    BY <1>24, RowEdits, JobEdits DEF Shutdown, JobT
  <2>3. TapeT'
    BY <1>24, JobEdits DEF Shutdown, TapeT
  <2>4. ReadT'
    BY <1>24, RowsThere DEF Shutdown, ReadT
  <2>5. CleanT'
    BY <1>24, RowEdits DEF Shutdown, CleanT
  <2>6. LockT'
    BY <1>24 DEF Shutdown, LockT
  <2>7. WorldT'
    BY <1>24 DEF Shutdown, WorldT
  <2> QED
    BY <2>1, <2>2, <2>3, <2>4, <2>5, <2>6, <2>7
<1>25. CASE Crash
  <2>1. RowT'
    BY <1>25, RowEdits, RowsThere DEF Crash, RowT
  <2>2. JobT'
    BY <1>25, RowEdits, JobEdits DEF Crash, JobT, JobPlaces
  <2>3. TapeT'
    BY <1>25, JobEdits DEF Crash, TapeT
  <2>4. ReadT'
    BY <1>25, RowsThere DEF Crash, ReadT, Recoveries, NoRecovery
  <2>5. CleanT'
    BY <1>25, RowEdits DEF Crash, CleanT
  <2>6. LockT'
    BY <1>25 DEF Crash, LockT
  <2>7. WorldT'
    BY <1>25 DEF Crash, WorldT
  <2> QED
    BY <2>1, <2>2, <2>3, <2>4, <2>5, <2>6, <2>7
<1>26. CASE Boot
  <2>1. RowT'
    BY <1>26, RowEdits, RowsThere DEF Boot, RowT
  <2>2. JobT'
    BY <1>26, RowEdits, JobEdits DEF Boot, JobT
  <2>3. TapeT'
    BY <1>26, JobEdits DEF Boot, TapeT
  <2>4. ReadT'
    BY <1>26, RowsThere DEF Boot, ReadT, Recoveries
  <2>5. CleanT'
    BY <1>26, RowEdits DEF Boot, CleanT
  <2>6. LockT'
    BY <1>26 DEF Boot, LockT
  <2>7. WorldT'
    BY <1>26 DEF Boot, WorldT
  <2> QED
    BY <2>1, <2>2, <2>3, <2>4, <2>5, <2>6, <2>7
<1>27. CASE ActiveLapses
  <2>1. RowT'
    BY <1>27, RowEdits, RowsThere DEF ActiveLapses, RowT
  <2>2. JobT'
    BY <1>27, RowEdits, JobEdits DEF ActiveLapses, JobT
  <2>3. TapeT'
    BY <1>27, JobEdits DEF ActiveLapses, TapeT
  <2>4. ReadT'
    BY <1>27, RowsThere DEF ActiveLapses, ReadT
  <2>5. CleanT'
    BY <1>27, RowEdits DEF ActiveLapses, CleanT
  <2>6. LockT'
    BY <1>27 DEF ActiveLapses, LockT
  <2>7. WorldT'
    BY <1>27 DEF ActiveLapses, WorldT
  <2> QED
    BY <2>1, <2>2, <2>3, <2>4, <2>5, <2>6, <2>7
<1>28. CASE StartLocksLapse
  <2>1. RowT'
    BY <1>28, RowEdits, RowsThere DEF StartLocksLapse, RowT
  <2>2. JobT'
    BY <1>28, RowEdits, JobEdits DEF StartLocksLapse, JobT
  <2>3. TapeT'
    BY <1>28, JobEdits DEF StartLocksLapse, TapeT
  <2>4. ReadT'
    BY <1>28, RowsThere DEF StartLocksLapse, ReadT
  <2>5. CleanT'
    BY <1>28, RowEdits DEF StartLocksLapse, CleanT
  <2>6. LockT'
    BY <1>28 DEF StartLocksLapse, LockT
  <2>7. WorldT'
    BY <1>28 DEF StartLocksLapse, WorldT
  <2> QED
    BY <2>1, <2>2, <2>3, <2>4, <2>5, <2>6, <2>7
<1>29. CASE TimePasses
  <2>1. RowT'
    BY <1>29, RowEdits, RowsThere DEF TimePasses, RowT
  <2>2. JobT'
    BY <1>29, RowEdits, JobEdits DEF TimePasses, JobT
  <2>3. TapeT'
    BY <1>29, JobEdits DEF TimePasses, TapeT
  <2>4. ReadT'
    BY <1>29, RowsThere DEF TimePasses, ReadT
  <2>5. CleanT'
    BY <1>29, RowEdits DEF TimePasses, CleanT
  <2>6. LockT'
    BY <1>29 DEF TimePasses, LockT
  <2>7. WorldT'
    BY <1>29 DEF TimePasses, WorldT
  <2> QED
    BY <2>1, <2>2, <2>3, <2>4, <2>5, <2>6, <2>7
<1>30. CASE Stop
  <2>1. RowT'
    <3>1. rec' = [rec EXCEPT !.status = "stopped"]
      BY <1>30 DEF Stop
    <3> QED
      BY <3>1, RowEdits DEF RowT, Statuses
  <2>2. JobT'
    BY <1>30, RowEdits, JobEdits DEF Stop, JobT
  <2>3. TapeT'
    BY <1>30, JobEdits DEF Stop, TapeT
  <2>4. ReadT'
    BY <1>30, RowsThere DEF Stop, ReadT
  <2>5. CleanT'
    BY <1>30, RowEdits DEF Stop, CleanT
  <2>6. LockT'
    BY <1>30 DEF Stop, LockT
  <2>7. WorldT'
    BY <1>30 DEF Stop, WorldT
  <2> QED
    BY <2>1, <2>2, <2>3, <2>4, <2>5, <2>6, <2>7
<1>31. CASE Extend
  <2>1. RowT'
    <3>1. rec' = [rec EXCEPT !.end = rec.end + 1] /\ rec.end < MaxNow
      BY <1>31 DEF Extend
    <3>2. rec.end + 1 \in 0..MaxNow
      <4>1. rec.end \in 0..MaxNow
        BY RowEdits DEF RowT
      <4> QED
        BY <3>1, <4>1
    <3> QED
      BY <3>1, <3>2, RowEdits DEF RowT
  <2>2. JobT'
    BY <1>31, RowEdits, JobEdits DEF Extend, JobT
  <2>3. TapeT'
    BY <1>31, JobEdits DEF Extend, TapeT
  <2>4. ReadT'
    BY <1>31, RowsThere DEF Extend, ReadT
  <2>5. CleanT'
    BY <1>31, RowEdits DEF Extend, CleanT
  <2>6. LockT'
    BY <1>31 DEF Extend, LockT
  <2>7. WorldT'
    BY <1>31 DEF Extend, WorldT
  <2> QED
    BY <2>1, <2>2, <2>3, <2>4, <2>5, <2>6, <2>7
<1>32. CASE Edit
  <2>1. RowT'
    <3>1. rec' = [rec EXCEPT !.end = rec.end + 1] /\ rec.end < MaxNow
      BY <1>32 DEF Edit
    <3>2. rec.end + 1 \in 0..MaxNow
      <4>1. rec.end \in 0..MaxNow
        BY RowEdits DEF RowT
      <4> QED
        BY <3>1, <4>1
    <3> QED
      BY <3>1, <3>2, RowEdits DEF RowT
  <2>2. JobT'
    BY <1>32, RowEdits, JobEdits DEF Edit, JobT
  <2>3. TapeT'
    BY <1>32, JobEdits DEF Edit, TapeT
  <2>4. ReadT'
    BY <1>32, RowsThere DEF Edit, ReadT
  <2>5. CleanT'
    BY <1>32, RowEdits DEF Edit, CleanT
  <2>6. LockT'
    <3>1. beat' = beat \/ beat' = (now < rec.end + 1)
      BY <1>32 DEF Edit
    <3>2. beat' \in BOOLEAN
      <4>1. (now < rec.end + 1) \in BOOLEAN
        OBVIOUS
      <4> QED
        BY <3>1, <4>1 DEF LockT
    <3>3. UNCHANGED <<active, dispatchLock, recoverLock>>
      BY <1>32 DEF Edit
    <3> QED
      BY <3>2, <3>3 DEF LockT
  <2>7. WorldT'
    BY <1>32 DEF Edit, WorldT
  <2> QED
    BY <2>1, <2>2, <2>3, <2>4, <2>5, <2>6, <2>7
<1>33. CASE Destroy
  <2>1. RowT'
    BY <1>33, RowEdits, RowsThere DEF Destroy, RowT
  <2>2. JobT'
    BY <1>33, RowEdits, JobEdits DEF Destroy, JobT
  <2>3. TapeT'
    BY <1>33, JobEdits DEF Destroy, TapeT
  <2>4. ReadT'
    BY <1>33, RowsThere DEF Destroy, ReadT
  <2>5. CleanT'
    BY <1>33, RowEdits DEF Destroy, CleanT, RowT
  <2>6. LockT'
    BY <1>33 DEF Destroy, LockT
  <2>7. WorldT'
    BY <1>33 DEF Destroy, WorldT
  <2> QED
    BY <2>1, <2>2, <2>3, <2>4, <2>5, <2>6, <2>7
<1>34. CASE Clean
  <2>1. RowT'
    BY <1>34, RowEdits, RowsThere DEF Clean, RowT
  <2>2. JobT'
    BY <1>34, RowEdits, JobEdits DEF Clean, JobT
  <2>3. TapeT'
    BY <1>34, JobEdits DEF Clean, Folder, TapeT
  <2>4. ReadT'
    BY <1>34, RowsThere DEF Clean, ReadT
  <2>5. CleanT'
    BY <1>34, RowEdits DEF Clean, CleanT
  <2>6. LockT'
    BY <1>34 DEF Clean, LockT
  <2>7. WorldT'
    BY <1>34 DEF Clean, WorldT
  <2> QED
    BY <2>1, <2>2, <2>3, <2>4, <2>5, <2>6, <2>7
<1>35. CASE UNCHANGED dvrVars
  <2>1. RowT'
    BY <1>35, RowEdits, RowsThere DEF dvrVars, RowT
  <2>2. JobT'
    BY <1>35, RowEdits, JobEdits DEF dvrVars, JobT
  <2>3. TapeT'
    BY <1>35, JobEdits DEF dvrVars, TapeT
  <2>4. ReadT'
    BY <1>35, RowsThere DEF dvrVars, ReadT
  <2>5. CleanT'
    BY <1>35, RowEdits DEF dvrVars, CleanT
  <2>6. LockT'
    BY <1>35 DEF dvrVars, LockT
  <2>7. WorldT'
    BY <1>35 DEF dvrVars, WorldT
  <2> QED
    BY <2>1, <2>2, <2>3, <2>4, <2>5, <2>6, <2>7
<1> QED
  BY <1>1, <1>2, <1>3, <1>4, <1>5, <1>6, <1>7, <1>8, <1>9, <1>10, <1>11, <1>12, <1>13, <1>14,
     <1>15, <1>16, <1>17, <1>18, <1>19, <1>20, <1>21, <1>22, <1>23, <1>24, <1>25, <1>26, <1>27,
     <1>28, <1>29, <1>30, <1>31, <1>32, <1>33, <1>34, <1>35 DEF DvrNext, JobBegins, JobTapes,
     JobFinishes, RecoveryStep, FaultStep, LapseStep, UserStep

----------------------------------------------------------------------------
(* The invariant. *)

\* Tasks run for the recording one at a time: each holds the active lock up to
\* the end of its taping, and marks the row before it tapes, which the guard
\* refuses afterwards, when the lock may have lapsed.
Holding(j) == job[j].at \in {"prepare", "prime", "check", "loop", "taping", "backoff", "ended"}
Closing(j) == job[j].at \in {"concat", "waiting", "unset", "final", "save"}
Marked(j)  == Running(j) /\ job[j].at \notin {"prepare", "prime"}

OneTask   == \A j, k \in Jobs : Running(j) /\ Running(k) => j = k
HeldLock  == \A j \in Jobs : Holding(j) => active = j
MarkedRow == \A j \in Jobs : Marked(j) => ~rec.there \/ rec.status \in {"recording", "stopped"}

\* The workers' death leaves no task, a recovery knows of every task since its
\* read, and what is deleted stays so.
Reading  == recovery.at \in {"active", "expired", "saving"}
Dead     == worker = "down" => \A j \in Jobs : ~Running(j)
Known    == Reading => recovery.crossed \/ \A j \in Jobs : ~Running(j)
Deleted  == cleaning.on => ~rec.there
NoFolder == ~folder.there => folder.parts = {}
Shadows  == Dead /\ Known /\ Deleted /\ NoFolder

\* A folder holds all of what its file holds: the row's, as long as the row
\* says there is one, and a task's until it has joined its parts.
RowsFolder  == rec.dir /\ rec.file # NoPath /\ folder.there
  => files[rec.file] \subseteq folder.parts
TaskFolder(j) ==
  /\ job[j].at \in {"prime", "check", "loop", "taping", "backoff", "ended", "concat"} =>
       job[j].file # NoPath /\ files[job[j].file] \subseteq folder.parts
  /\ job[j].at = "waiting" => job[j].file # NoPath /\ folder.parts \subseteq files[job[j].file]
  /\ Marked(j) => rec.file = job[j].file
TasksFolder == \A j \in Jobs : TaskFolder(j)

\* What a task or a recovery will write back is what the row says.
WritesTheSame(r) == r.there /\ r.dir = rec.dir /\ r.file = rec.file
DraftHolds(j) == job[j].at = "save" => WritesTheSame(job[j].draft)
HeldRows ==
  /\ \A j \in Jobs : DraftHolds(j)
  /\ Reading /\ ~recovery.crossed => WritesTheSame(recovery.rec)

\* Every part is in the folder or in a file.
Taped == \A p \in 1..taped : p \in folder.parts \/ \E f \in Paths : p \in files[f]

\* Where a step takes its task; the others stay.
Move(j, from, to) ==
  /\ job[j].at = from /\ job'[j].at \in to
  /\ \A k \in Jobs \ {j} : job'[k] = job[k]

\* Where each action takes the task it is an action of.
LEMMA TaskMoves ==
  ASSUME JobT, NEW j \in Jobs
  PROVE
    /\ BeatFires(j) => Move(j, "idle", {"guard"})
    /\ RecoverResumes(j) => Move(j, "idle", {"guard"})
    /\ Guard(j) => Move(j, "guard", {"done", "prepare"})
    /\ Prepare(j) => Move(j, "prepare", {"check", "done", "prime"})
    /\ Prime(j) => Move(j, "prime", {"done", "check"})
    /\ Check(j) => Move(j, "check", {"loop", "ended"})
    /\ StartTaping(j) => Move(j, "loop", {"taping", "ended"})
    /\ Tape(j) => Move(j, "taping", {"taping"})
    /\ PollEnd(j) => Move(j, "taping", {"taping"})
    /\ TapingEnds(j) => Move(j, "taping", {"ended"})
    /\ TapingFails(j) => Move(j, "taping", {"backoff", "ended"})
    /\ BackoffElapses(j) => Move(j, "backoff", {"loop", "ended"})
    /\ FolderVanished(j) => Move(j, "taping", {"done"})
    /\ TapeEnds(j) => Move(j, "ended", {"done", "concat"})
    /\ Concat(j) => Move(j, "concat", {"final", "waiting"})
    /\ ClearFolder(j) => Move(j, "waiting", {"unset"})
    /\ UnsetFolder(j) => Move(j, "unset", {"final"})
    /\ Finalize(j) => Move(j, "final", {"done", "save"})
    /\ SaveFinal(j) => Move(j, "save", {"done"})
<1>1. BeatFires(j) => Move(j, "idle", {"guard"})
  BY DEF BeatFires, Dispatched, Move, JobT, JobRecs
<1>2. RecoverResumes(j) => Move(j, "idle", {"guard"})
  BY DEF RecoverResumes, Dispatched, Move, JobT, JobRecs
<1>3. Guard(j) => Move(j, "guard", {"done", "prepare"})
  BY DEF Guard, TakeLock, Goes, At, Move, JobT, JobRecs
<1>4. Prepare(j) => Move(j, "prepare", {"check", "done", "prime"})
  <2> SUFFICES ASSUME Prepare(j) PROVE Move(j, "prepare", {"check", "done", "prime"})
    OBVIOUS
  <2>0. job[j].at = "prepare"
    BY DEF Prepare, At
  <2>1. CASE \E p \in {"check", "done"} : job' = [job EXCEPT ![j].at = p]
    BY <2>0, <2>1 DEF Move, JobT, JobRecs
  <2>2. CASE \E g \in Paths : job' = [job EXCEPT ![j].at = "prime", ![j].file = g]
    <3>1. PICK g \in Paths : job' = [job EXCEPT ![j].at = "prime", ![j].file = g]
      BY <2>2
    <3>2. job' = [job EXCEPT ![j] = [job[j] EXCEPT !.at = "prime", !.file = g]]
      BY <3>1 DEF JobT, JobRecs
    <3> QED
      BY <3>2 DEF Prepare, At, Move, JobT, JobRecs
  <2> QED
    BY <2>1, <2>2 DEF Prepare, Goes
<1>5. Prime(j) => Move(j, "prime", {"done", "check"})
  BY DEF Prime, Goes, At, Move, JobT, JobRecs
<1>6. Check(j) => Move(j, "check", {"loop", "ended"})
  BY DEF Check, At, Move, JobT, JobRecs
<1>7. StartTaping(j) => Move(j, "loop", {"taping", "ended"})
  BY DEF StartTaping, Goes, At, Move, JobT, JobRecs
<1>8. Tape(j) => Move(j, "taping", {"taping"})
  BY DEF Tape, At, Move, JobT, JobRecs
<1>9. PollEnd(j) => Move(j, "taping", {"taping"})
  BY DEF PollEnd, At, Move, JobT, JobRecs
<1>10. TapingEnds(j) => Move(j, "taping", {"ended"})
  BY DEF TapingEnds, Goes, At, Move, JobT, JobRecs
<1>11. TapingFails(j) => Move(j, "taping", {"backoff", "ended"})
  BY DEF TapingFails, Goes, At, Move, JobT, JobRecs
<1>12. BackoffElapses(j) => Move(j, "backoff", {"loop", "ended"})
  BY DEF BackoffElapses, At, Move, JobT, JobRecs
<1>13. FolderVanished(j) => Move(j, "taping", {"done"})
  BY DEF FolderVanished, Goes, At, Move, JobT, JobRecs
<1>14. TapeEnds(j) => Move(j, "ended", {"done", "concat"})
  <2> SUFFICES ASSUME TapeEnds(j) PROVE Move(j, "ended", {"done", "concat"})
    OBVIOUS
  <2>1. CASE job' = [job EXCEPT ![j].at = "done"]
    BY <2>1 DEF TapeEnds, At, Move, JobT, JobRecs
  <2>2. CASE \E b : job' = [job EXCEPT ![j].at = "concat", ![j].interrupted = b]
    <3>1. PICK b : job' = [job EXCEPT ![j] = [job[j] EXCEPT !.at = "concat", !.interrupted = b]]
      BY <2>2 DEF JobT, JobRecs
    <3> QED
      BY <3>1 DEF TapeEnds, At, Move, JobT, JobRecs
  <2>3. job' = [job EXCEPT ![j].at = "done"]
        \/ job' = [job EXCEPT ![j].at = "concat", ![j].interrupted = @ \/ ~job[j].confirmed]
    BY DEF TapeEnds, Goes
  <2>4. ASSUME job' = [job EXCEPT ![j].at = "concat", ![j].interrupted = @ \/ ~job[j].confirmed]
        PROVE  job' = [job EXCEPT ![j].at = "concat", ![j].interrupted = job[j].interrupted \/ ~job[j].confirmed]
    BY <2>4 DEF JobT, JobRecs
  <2> QED
    BY <2>1, <2>2, <2>3, <2>4
<1>15. Concat(j) => Move(j, "concat", {"final", "waiting"})
  BY DEF Concat, Goes, At, Move, JobT, JobRecs
<1>16. ClearFolder(j) => Move(j, "waiting", {"unset"})
  BY DEF ClearFolder, Goes, At, Move, JobT, JobRecs
<1>17. UnsetFolder(j) => Move(j, "unset", {"final"})
  BY DEF UnsetFolder, Goes, At, Move, JobT, JobRecs
<1>18. Finalize(j) => Move(j, "final", {"done", "save"})
  BY DEF Finalize, Goes, At, Move, JobT, JobRecs
<1>19. SaveFinal(j) => Move(j, "save", {"done"})
  BY DEF SaveFinal, Goes, At, Move, JobT, JobRecs
<1> QED
  BY <1>1, <1>2, <1>3, <1>4, <1>5, <1>6, <1>7, <1>8, <1>9, <1>10, <1>11, <1>12, <1>13, <1>14,
     <1>15, <1>16, <1>17, <1>18, <1>19

\* No step wakes a dead worker's task, hides a task from a recovery that has read,
\* brings back a deleted row or fills a folder that is not there.
LEMMA StepShadows ==
  ASSUME RowT, JobT, TapeT, ReadT, CleanT, LockT, WorldT, Shadows, [DvrNext]_dvrVars
  PROVE  Dead' /\ Known' /\ Deleted' /\ NoFolder'
<1> USE DEF diskVars, lockVars, workerVars, startVars, NoJob
<1>1. ASSUME NEW j \in Jobs, BeatFires(j) PROVE Dead' /\ Known' /\ Deleted' /\ NoFolder'
  <2>1. Dead'
    BY <1>1, TaskMoves DEF BeatFires, Dead
  <2>2. Known'
    BY <1>1, TaskMoves DEF BeatFires, Shadows, Known, Running, Move, Reading
  <2>3. Deleted'
    BY <1>1 DEF BeatFires, Shadows, Deleted
  <2>4. NoFolder'
    BY <1>1 DEF BeatFires, Shadows, NoFolder
  <2> QED
    BY <2>1, <2>2, <2>3, <2>4
<1>2. ASSUME NEW j \in Jobs, Guard(j) PROVE Dead' /\ Known' /\ Deleted' /\ NoFolder'
  <2>1. Dead'
    BY <1>2, TaskMoves DEF Guard, At, Dead
  <2>2. Known'
    BY <1>2, TaskMoves DEF Guard, Shadows, Known, Running, Move, Reading, ReadT, Recoveries
  <2>3. Deleted'
    BY <1>2 DEF Guard, Shadows, Deleted
  <2>4. NoFolder'
    BY <1>2 DEF Guard, Shadows, NoFolder
  <2> QED
    BY <2>1, <2>2, <2>3, <2>4
<1>3. ASSUME NEW j \in Jobs, Prepare(j) PROVE Dead' /\ Known' /\ Deleted' /\ NoFolder'
  <2>1. Dead'
    BY <1>3, TaskMoves DEF Prepare, At, Dead
  <2>2. Known'
    BY <1>3, TaskMoves DEF Prepare, At, Shadows, Known, Running, Reading
  <2>3. Deleted'
    BY <1>3 DEF Prepare, Shadows, Deleted
  <2>4. NoFolder'
    BY <1>3 DEF Prepare, Shadows, NoFolder
  <2> QED
    BY <2>1, <2>2, <2>3, <2>4
<1>4. ASSUME NEW j \in Jobs, Prime(j) PROVE Dead' /\ Known' /\ Deleted' /\ NoFolder'
  <2>1. Dead'
    BY <1>4, TaskMoves DEF Prime, At, Dead
  <2>2. Known'
    BY <1>4, TaskMoves DEF Prime, At, Shadows, Known, Running, Reading
  <2>3. Deleted'
    BY <1>4 DEF Prime, Shadows, Deleted
  <2>4. NoFolder'
    BY <1>4 DEF Prime, Shadows, NoFolder
  <2> QED
    BY <2>1, <2>2, <2>3, <2>4
<1>5. ASSUME NEW j \in Jobs, Check(j) PROVE Dead' /\ Known' /\ Deleted' /\ NoFolder'
  <2>1. Dead'
    BY <1>5, TaskMoves DEF Check, At, Dead
  <2>2. Known'
    BY <1>5, TaskMoves DEF Check, At, Shadows, Known, Running, Reading
  <2>3. Deleted'
    BY <1>5 DEF Check, Shadows, Deleted
  <2>4. NoFolder'
    BY <1>5 DEF Check, Shadows, NoFolder
  <2> QED
    BY <2>1, <2>2, <2>3, <2>4
<1>6. ASSUME NEW j \in Jobs, StartTaping(j) PROVE Dead' /\ Known' /\ Deleted' /\ NoFolder'
  <2>1. Dead'
    BY <1>6, TaskMoves DEF StartTaping, At, Dead
  <2>2. Known'
    BY <1>6, TaskMoves DEF StartTaping, At, Shadows, Known, Running, Reading
  <2>3. Deleted'
    BY <1>6 DEF StartTaping, Shadows, Deleted
  <2>4. NoFolder'
    BY <1>6 DEF StartTaping, Shadows, NoFolder
  <2> QED
    BY <2>1, <2>2, <2>3, <2>4
<1>7. ASSUME NEW j \in Jobs, Tape(j) PROVE Dead' /\ Known' /\ Deleted' /\ NoFolder'
  <2>1. Dead'
    BY <1>7, TaskMoves DEF Tape, At, Dead
  <2>2. Known'
    BY <1>7, TaskMoves DEF Tape, Shadows, Known, Running, Reading
  <2>3. Deleted'
    BY <1>7 DEF Tape, Shadows, Deleted
  <2>4. NoFolder'
    BY <1>7 DEF Tape, Folder, NoFolder
  <2> QED
    BY <2>1, <2>2, <2>3, <2>4
<1>8. ASSUME NEW j \in Jobs, PollEnd(j) PROVE Dead' /\ Known' /\ Deleted' /\ NoFolder'
  <2>1. Dead'
    BY <1>8, TaskMoves DEF PollEnd, At, Dead
  <2>2. Known'
    BY <1>8, TaskMoves DEF PollEnd, Shadows, Known, Running, Reading
  <2>3. Deleted'
    BY <1>8 DEF PollEnd, Shadows, Deleted
  <2>4. NoFolder'
    BY <1>8 DEF PollEnd, Shadows, NoFolder
  <2> QED
    BY <2>1, <2>2, <2>3, <2>4
<1>9. ASSUME NEW j \in Jobs, TapingEnds(j) PROVE Dead' /\ Known' /\ Deleted' /\ NoFolder'
  <2>1. Dead'
    BY <1>9, TaskMoves DEF TapingEnds, At, Dead
  <2>2. Known'
    BY <1>9, TaskMoves DEF TapingEnds, At, Shadows, Known, Running, Reading
  <2>3. Deleted'
    BY <1>9 DEF TapingEnds, Shadows, Deleted
  <2>4. NoFolder'
    BY <1>9 DEF TapingEnds, Shadows, NoFolder
  <2> QED
    BY <2>1, <2>2, <2>3, <2>4
<1>10. ASSUME NEW j \in Jobs, TapingFails(j) PROVE Dead' /\ Known' /\ Deleted' /\ NoFolder'
  <2>1. Dead'
    BY <1>10, TaskMoves DEF TapingFails, At, Dead
  <2>2. Known'
    BY <1>10, TaskMoves DEF TapingFails, At, Shadows, Known, Running, Reading
  <2>3. Deleted'
    BY <1>10 DEF TapingFails, Shadows, Deleted
  <2>4. NoFolder'
    BY <1>10 DEF TapingFails, Shadows, NoFolder
  <2> QED
    BY <2>1, <2>2, <2>3, <2>4
<1>11. ASSUME NEW j \in Jobs, BackoffElapses(j) PROVE Dead' /\ Known' /\ Deleted' /\ NoFolder'
  <2>1. Dead'
    BY <1>11, TaskMoves DEF BackoffElapses, At, Dead
  <2>2. Known'
    BY <1>11, TaskMoves DEF BackoffElapses, At, Shadows, Known, Running, Reading
  <2>3. Deleted'
    BY <1>11 DEF BackoffElapses, Shadows, Deleted
  <2>4. NoFolder'
    BY <1>11 DEF BackoffElapses, Shadows, NoFolder
  <2> QED
    BY <2>1, <2>2, <2>3, <2>4
<1>12. ASSUME NEW j \in Jobs, FolderVanished(j) PROVE Dead' /\ Known' /\ Deleted' /\ NoFolder'
  <2>1. Dead'
    BY <1>12, TaskMoves DEF FolderVanished, At, Dead
  <2>2. Known'
    BY <1>12, TaskMoves DEF FolderVanished, At, Shadows, Known, Running, Reading
  <2>3. Deleted'
    BY <1>12 DEF FolderVanished, Shadows, Deleted
  <2>4. NoFolder'
    BY <1>12 DEF FolderVanished, Shadows, NoFolder
  <2> QED
    BY <2>1, <2>2, <2>3, <2>4
<1>13. ASSUME NEW j \in Jobs, TapeEnds(j) PROVE Dead' /\ Known' /\ Deleted' /\ NoFolder'
  <2>1. Dead'
    BY <1>13, TaskMoves DEF TapeEnds, At, Dead
  <2>2. Known'
    BY <1>13, TaskMoves DEF TapeEnds, At, Shadows, Known, Running, Reading
  <2>3. Deleted'
    BY <1>13 DEF TapeEnds, Shadows, Deleted
  <2>4. NoFolder'
    BY <1>13 DEF TapeEnds, Folder, Shadows, NoFolder
  <2> QED
    BY <2>1, <2>2, <2>3, <2>4
<1>14. ASSUME NEW j \in Jobs, Concat(j) PROVE Dead' /\ Known' /\ Deleted' /\ NoFolder'
  <2>1. Dead'
    BY <1>14, TaskMoves DEF Concat, At, Dead
  <2>2. Known'
    BY <1>14, TaskMoves DEF Concat, At, Shadows, Known, Running, Reading
  <2>3. Deleted'
    BY <1>14 DEF Concat, Shadows, Deleted
  <2>4. NoFolder'
    BY <1>14 DEF Concat, Shadows, NoFolder
  <2> QED
    BY <2>1, <2>2, <2>3, <2>4
<1>15. ASSUME NEW j \in Jobs, ClearFolder(j) PROVE Dead' /\ Known' /\ Deleted' /\ NoFolder'
  <2>1. Dead'
    BY <1>15, TaskMoves DEF ClearFolder, At, Dead
  <2>2. Known'
    BY <1>15, TaskMoves DEF ClearFolder, At, Shadows, Known, Running, Reading
  <2>3. Deleted'
    BY <1>15 DEF ClearFolder, Shadows, Deleted
  <2>4. NoFolder'
    BY <1>15 DEF ClearFolder, Folder, NoFolder
  <2> QED
    BY <2>1, <2>2, <2>3, <2>4
<1>16. ASSUME NEW j \in Jobs, UnsetFolder(j) PROVE Dead' /\ Known' /\ Deleted' /\ NoFolder'
  <2>1. Dead'
    BY <1>16, TaskMoves DEF UnsetFolder, At, Dead
  <2>2. Known'
    BY <1>16, TaskMoves DEF UnsetFolder, At, Shadows, Known, Running, Reading
  <2>3. Deleted'
    BY <1>16 DEF UnsetFolder, Shadows, Deleted
  <2>4. NoFolder'
    BY <1>16 DEF UnsetFolder, Shadows, NoFolder
  <2> QED
    BY <2>1, <2>2, <2>3, <2>4
<1>17. ASSUME NEW j \in Jobs, Finalize(j) PROVE Dead' /\ Known' /\ Deleted' /\ NoFolder'
  <2>1. Dead'
    BY <1>17, TaskMoves DEF Finalize, At, Dead
  <2>2. Known'
    BY <1>17, TaskMoves DEF Finalize, At, Shadows, Known, Running, Reading
  <2>3. Deleted'
    BY <1>17 DEF Finalize, Shadows, Deleted
  <2>4. NoFolder'
    BY <1>17 DEF Finalize, Shadows, NoFolder
  <2> QED
    BY <2>1, <2>2, <2>3, <2>4
<1>18. ASSUME NEW j \in Jobs, SaveFinal(j) PROVE Dead' /\ Known' /\ Deleted' /\ NoFolder'
  <2>1. Dead'
    BY <1>18, TaskMoves DEF SaveFinal, At, Dead
  <2>2. Known'
    BY <1>18, TaskMoves DEF SaveFinal, At, Shadows, Known, Running, Reading
  <2>3. Deleted'
    BY <1>18 DEF SaveFinal, Shadows, Deleted
  <2>4. NoFolder'
    BY <1>18 DEF SaveFinal, Shadows, NoFolder
  <2> QED
    BY <2>1, <2>2, <2>3, <2>4
<1>19. ASSUME NEW j \in Jobs, RecoverResumes(j) PROVE Dead' /\ Known' /\ Deleted' /\ NoFolder'
  <2>1. Dead'
    BY <1>19, TaskMoves DEF RecoverResumes, RecoveryIs, Dead
  <2>2. Known'
    BY <1>19, TaskMoves DEF RecoverResumes, RecoveryDone, Known, Reading, NoRecovery
  <2>3. Deleted'
    BY <1>19 DEF RecoverResumes, Shadows, Deleted
  <2>4. NoFolder'
    BY <1>19 DEF RecoverResumes, Shadows, NoFolder
  <2> QED
    BY <2>1, <2>2, <2>3, <2>4
<1>20. CASE RecoverFetch
  <2>1. Dead'
    BY <1>20 DEF RecoverFetch, RecoveryIs, Dead
  <2>2. Known'
    BY <1>20 DEF RecoverFetch, RecoveryDone, Reads, Known, Running, Reading, NoRecovery
  <2>3. Deleted'
    BY <1>20 DEF RecoverFetch, Shadows, Deleted
  <2>4. NoFolder'
    BY <1>20 DEF RecoverFetch, Shadows, NoFolder
  <2> QED
    BY <2>1, <2>2, <2>3, <2>4
<1>21. CASE RecoverSkips
  <2>1. Dead'
    BY <1>21 DEF RecoverSkips, RecoveryIs, Dead
  <2>2. Known'
    BY <1>21 DEF RecoverSkips, RecoveryDone, Known, Reading, NoRecovery
  <2>3. Deleted'
    BY <1>21 DEF RecoverSkips, Shadows, Deleted
  <2>4. NoFolder'
    BY <1>21 DEF RecoverSkips, Shadows, NoFolder
  <2> QED
    BY <2>1, <2>2, <2>3, <2>4
<1>22. CASE RecoverJoins
  <2>1. Dead'
    BY <1>22 DEF RecoverJoins, RecoveryIs, Dead
  <2>2. Known'
    BY <1>22 DEF RecoverJoins, RecoveryIs, Shadows, Known, Running, Reading
  <2>3. Deleted'
    BY <1>22 DEF RecoverJoins, Shadows, Deleted
  <2>4. NoFolder'
    BY <1>22 DEF RecoverJoins, Folder, Shadows, NoFolder
  <2> QED
    BY <2>1, <2>2, <2>3, <2>4
<1>23. CASE RecoverSaves
  <2>1. Dead'
    BY <1>23 DEF RecoverSaves, RecoveryIs, Dead
  <2>2. Known'
    BY <1>23 DEF RecoverSaves, RecoveryDone, Known, Reading, NoRecovery
  <2>3. Deleted'
    BY <1>23 DEF RecoverSaves, Shadows, Deleted
  <2>4. NoFolder'
    BY <1>23 DEF RecoverSaves, Shadows, NoFolder
  <2> QED
    BY <2>1, <2>2, <2>3, <2>4
<1>24. CASE Shutdown
  <2>1. Dead'
    BY <1>24 DEF Shutdown, Dead
  <2>2. Known'
    BY <1>24 DEF Shutdown, Shadows, Known, Running, Reading
  <2>3. Deleted'
    BY <1>24 DEF Shutdown, Shadows, Deleted
  <2>4. NoFolder'
    BY <1>24 DEF Shutdown, Shadows, NoFolder
  <2> QED
    BY <2>1, <2>2, <2>3, <2>4
<1>25. CASE Crash
  <2>1. Dead'
    BY <1>25 DEF Crash, Dead, Running
  <2>2. Known'
    BY <1>25 DEF Crash, Known, Running
  <2>3. Deleted'
    BY <1>25 DEF Crash, Shadows, Deleted
  <2>4. NoFolder'
    BY <1>25 DEF Crash, Shadows, NoFolder
  <2> QED
    BY <2>1, <2>2, <2>3, <2>4
<1>26. CASE Boot
  <2>1. Dead'
    BY <1>26 DEF Boot, Dead
  <2>2. Known'
    BY <1>26 DEF Boot, Shadows, Known, Dead, Running
  <2>3. Deleted'
    BY <1>26 DEF Boot, Shadows, Deleted
  <2>4. NoFolder'
    BY <1>26 DEF Boot, Shadows, NoFolder
  <2> QED
    BY <2>1, <2>2, <2>3, <2>4
<1>27. CASE ActiveLapses
  <2>1. Dead'
    BY <1>27 DEF ActiveLapses, Shadows, Dead, Running
  <2>2. Known'
    BY <1>27 DEF ActiveLapses, Shadows, Known, Running, Reading
  <2>3. Deleted'
    BY <1>27 DEF ActiveLapses, Shadows, Deleted
  <2>4. NoFolder'
    BY <1>27 DEF ActiveLapses, Shadows, NoFolder
  <2> QED
    BY <2>1, <2>2, <2>3, <2>4
<1>28. CASE StartLocksLapse
  <2>1. Dead'
    BY <1>28 DEF StartLocksLapse, Shadows, Dead, Running
  <2>2. Known'
    BY <1>28 DEF StartLocksLapse, Shadows, Known, Running, Reading
  <2>3. Deleted'
    BY <1>28 DEF StartLocksLapse, Shadows, Deleted
  <2>4. NoFolder'
    BY <1>28 DEF StartLocksLapse, Shadows, NoFolder
  <2> QED
    BY <2>1, <2>2, <2>3, <2>4
<1>29. CASE TimePasses
  <2>1. Dead'
    BY <1>29 DEF TimePasses, Shadows, Dead, Running
  <2>2. Known'
    BY <1>29 DEF TimePasses, Shadows, Known, Running, Reading
  <2>3. Deleted'
    BY <1>29 DEF TimePasses, Shadows, Deleted
  <2>4. NoFolder'
    BY <1>29 DEF TimePasses, Shadows, NoFolder
  <2> QED
    BY <2>1, <2>2, <2>3, <2>4
<1>30. CASE Stop
  <2>1. Dead'
    BY <1>30 DEF Stop, Shadows, Dead, Running
  <2>2. Known'
    BY <1>30 DEF Stop, Shadows, Known, Running, Reading
  <2>3. Deleted'
    BY <1>30 DEF Stop, Shadows, Deleted
  <2>4. NoFolder'
    BY <1>30 DEF Stop, Shadows, NoFolder
  <2> QED
    BY <2>1, <2>2, <2>3, <2>4
<1>31. CASE Extend
  <2>1. Dead'
    BY <1>31 DEF Extend, Shadows, Dead, Running
  <2>2. Known'
    BY <1>31 DEF Extend, Shadows, Known, Running, Reading
  <2>3. Deleted'
    BY <1>31 DEF Extend, Shadows, Deleted
  <2>4. NoFolder'
    BY <1>31 DEF Extend, Shadows, NoFolder
  <2> QED
    BY <2>1, <2>2, <2>3, <2>4
<1>32. CASE Edit
  <2>1. Dead'
    BY <1>32 DEF Edit, Shadows, Dead, Running
  <2>2. Known'
    BY <1>32 DEF Edit, Shadows, Known, Running, Reading
  <2>3. Deleted'
    BY <1>32 DEF Edit, Shadows, Deleted
  <2>4. NoFolder'
    BY <1>32 DEF Edit, Shadows, NoFolder
  <2> QED
    BY <2>1, <2>2, <2>3, <2>4
<1>33. CASE Destroy
  <2>1. Dead'
    BY <1>33 DEF Destroy, Shadows, Dead, Running
  <2>2. Known'
    BY <1>33 DEF Destroy, Shadows, Known, Running, Reading
  <2>3. Deleted'
    BY <1>33 DEF Destroy, Deleted, Gone
  <2>4. NoFolder'
    BY <1>33 DEF Destroy, Shadows, NoFolder
  <2> QED
    BY <2>1, <2>2, <2>3, <2>4
<1>34. CASE Clean
  <2>1. Dead'
    BY <1>34 DEF Clean, Shadows, Dead, Running
  <2>2. Known'
    BY <1>34 DEF Clean, Shadows, Known, Running, Reading
  <2>3. Deleted'
    BY <1>34 DEF Clean, Deleted
  <2>4. NoFolder'
    BY <1>34 DEF Clean, Folder, Shadows, NoFolder
  <2> QED
    BY <2>1, <2>2, <2>3, <2>4
<1>35. CASE UNCHANGED dvrVars
  <2>1. Dead'
    BY <1>35 DEF dvrVars, Shadows, Dead, Running
  <2>2. Known'
    BY <1>35 DEF dvrVars, Shadows, Known, Running, Reading
  <2>3. Deleted'
    BY <1>35 DEF dvrVars, Shadows, Deleted
  <2>4. NoFolder'
    BY <1>35 DEF dvrVars, Shadows, NoFolder
  <2> QED
    BY <2>1, <2>2, <2>3, <2>4
<1> QED
  BY <1>1, <1>2, <1>3, <1>4, <1>5, <1>6, <1>7, <1>8, <1>9, <1>10, <1>11, <1>12, <1>13, <1>14,
     <1>15, <1>16, <1>17, <1>18, <1>19, <1>20, <1>21, <1>22, <1>23, <1>24, <1>25, <1>26, <1>27,
     <1>28, <1>29, <1>30, <1>31, <1>32, <1>33, <1>34, <1>35 DEF DvrNext, JobBegins, JobTapes,
     JobFinishes, RecoveryStep, FaultStep, LapseStep, UserStep

\* A task that runs is the only one, so that its step leaves it so; and one
\* that ends, or has not begun, is none beside it.
LEMMA OneTaskMoves ==
  ASSUME OneTask, NEW j \in Jobs, NEW from, NEW to, Move(j, from, to),
         from \notin {"idle", "guard", "done"} \/ to \subseteq {"guard", "done"}
  PROVE  OneTask'
<1>1. CASE to \subseteq {"guard", "done"}
  BY <1>1 DEF OneTask, Running, Move
<1>2. CASE from \notin {"idle", "guard", "done"}
  <2>1. \A k \in Jobs \ {j} : ~Running(k)
    BY <1>2 DEF OneTask, Running, Move
  <2>2. \A k \in Jobs \ {j} : ~Running(k)'
    BY <2>1 DEF Running, Move
  <2> QED
    BY <2>2 DEF OneTask
<1> QED
  BY <1>1, <1>2

\* Where a task holds the active lock.
HoldingPlaces == {"prepare", "prime", "check", "loop", "taping", "backoff", "ended"}

\* The lock stays its holder's through a step that does not touch it.
LEMMA HeldLockMoves ==
  ASSUME HeldLock, NEW j \in Jobs, NEW from, NEW to, Move(j, from, to), UNCHANGED active,
         from \in HoldingPlaces \/ to \cap HoldingPlaces = {}
  PROVE  HeldLock'
<1>1. \A k \in Jobs : Holding(k)' => Holding(k)
  BY DEF Holding, HoldingPlaces, Move
<1> QED
  BY <1>1 DEF HeldLock

\* Where it has marked the row.
MarkedPlaces == JobPlaces \ {"guard", "done", "prepare", "prime"}

\* The row stays marked through a step that does not change it.
LEMMA MarkedRowMoves ==
  ASSUME MarkedRow, NEW j \in Jobs, NEW from, NEW to, Move(j, from, to),
         UNCHANGED <<rec.there, rec.status>>,
         from \in MarkedPlaces \/ to \subseteq {"guard", "done", "prepare", "prime"}
  PROVE  MarkedRow'
<1>1. \A k \in Jobs \ {j} : Marked(k)' => Marked(k)
  BY DEF Marked, Running, Move
<1>2. Marked(j)' => Marked(j)
  BY DEF Marked, Running, MarkedPlaces, JobPlaces, Move
<1> QED
  BY <1>1, <1>2 DEF MarkedRow

\* No step starts a second task while one holds the lock or has marked the row, as
\* long as no recovery has acted on an old read.
LEMMA StepTasks ==
  ASSUME RowT, JobT, TapeT, ReadT, CleanT, LockT, WorldT,
         Shadows, OneTask, HeldLock, MarkedRow, ~stale', [DvrNext]_dvrVars
  PROVE  OneTask' /\ HeldLock' /\ MarkedRow'
<1> USE DEF diskVars, lockVars, workerVars, startVars, NoJob
<1>1. ASSUME NEW j \in Jobs, BeatFires(j) PROVE OneTask' /\ HeldLock' /\ MarkedRow'
  <2>1. OneTask'
    <3>1. Move(j, "idle", {"guard"})
      BY <1>1, TaskMoves
    <3> QED
      BY <3>1, OneTaskMoves
  <2>2. HeldLock'
    <3>1. Move(j, "idle", {"guard"})
      BY <1>1, TaskMoves
    <3>2. UNCHANGED active
      BY <1>1 DEF BeatFires
    <3> QED
      BY <3>1, <3>2, HeldLockMoves DEF HoldingPlaces
  <2>3. MarkedRow'
    <3>1. Move(j, "idle", {"guard"})
      BY <1>1, TaskMoves
    <3>2. UNCHANGED <<rec.there, rec.status>>
      BY <1>1 DEF BeatFires
    <3> QED
      BY <3>1, <3>2, MarkedRowMoves DEF MarkedPlaces, JobPlaces
  <2> QED
    BY <2>1, <2>2, <2>3
<1>2. ASSUME NEW j \in Jobs, Guard(j) PROVE OneTask' /\ HeldLock' /\ MarkedRow'
  <2>1. OneTask'
    <3>1. Move(j, "guard", {"done", "prepare"})
      BY <1>2, TaskMoves
    <3>2. CASE job'[j].at = "done"
      BY <3>1, <3>2 DEF OneTask, Running, Move
    <3>3. ASSUME job'[j].at = "prepare", NEW k \in Jobs, k # j, Running(k)
          PROVE  FALSE
      <4>1. active = NoJob /\ rec.there /\ rec.status \notin {"recording", "stopped"}
        BY <3>1, <3>3, <1>2 DEF Guard, TakeLock, Goes, JobT, JobRecs
      <4>2. ~Holding(k)
        BY <4>1, <3>3 DEF HeldLock, Jobs
      <4>3. Marked(k)
        BY <4>2, <3>3 DEF Holding, Marked, Running
      <4> QED
        BY <4>1, <4>3 DEF MarkedRow
    <3>4. job'[j].at \in {"done", "prepare"}
      BY <3>1 DEF Move
    <3>5. CASE job'[j].at = "prepare"
      <4>1. \A k \in Jobs \ {j} : ~Running(k)
        BY <3>3, <3>5
      <4>2. \A k \in Jobs \ {j} : ~Running(k)'
        BY <3>1, <4>1 DEF Running, Move
      <4> QED
        BY <4>2 DEF OneTask
    <3> QED
      BY <3>2, <3>4, <3>5
  <2>2. HeldLock'
    <3>1. Move(j, "guard", {"done", "prepare"})
      BY <1>2, TaskMoves
    <3>2. CASE job' = [job EXCEPT ![j].at = "done"] /\ UNCHANGED active
      <4>1. job'[j].at = "done"
        BY <3>2 DEF JobT, JobRecs
      <4> QED
        BY <3>1, <3>2, <4>1 DEF HeldLock, Holding, Move
    <3>3. CASE job' = [job EXCEPT ![j].at = "prepare"] /\ active' = j /\ active = NoJob
      <4>1. \A k \in Jobs \ {j} : ~Holding(k)
        BY <3>3 DEF HeldLock, Jobs
      <4>2. \A k \in Jobs \ {j} : ~Holding(k)'
        BY <3>1, <4>1 DEF Holding, Move
      <4> QED
        BY <3>3, <4>2 DEF HeldLock
    <3> QED
      BY <1>2, <3>2, <3>3 DEF Guard, TakeLock, Goes
  <2>3. MarkedRow'
    <3>1. Move(j, "guard", {"done", "prepare"})
      BY <1>2, TaskMoves
    <3>2. UNCHANGED <<rec.there, rec.status>>
      BY <1>2 DEF Guard
    <3> QED
      BY <3>1, <3>2, MarkedRowMoves DEF MarkedPlaces, JobPlaces
  <2> QED
    BY <2>1, <2>2, <2>3
<1>3. ASSUME NEW j \in Jobs, Prepare(j) PROVE OneTask' /\ HeldLock' /\ MarkedRow'
  <2>1. OneTask'
    <3>1. Move(j, "prepare", {"check", "done", "prime"})
      BY <1>3, TaskMoves
    <3> QED
      BY <3>1, OneTaskMoves
  <2>2. HeldLock'
    <3>1. Move(j, "prepare", {"check", "done", "prime"})
      BY <1>3, TaskMoves
    <3>2. UNCHANGED active
      BY <1>3 DEF Prepare
    <3> QED
      BY <3>1, <3>2, HeldLockMoves DEF HoldingPlaces
  <2>3. MarkedRow'
    <3>1. Move(j, "prepare", {"check", "done", "prime"})
      BY <1>3, TaskMoves
    <3>2. job'[j].at = "check" => ~rec.there
      BY <3>1, <1>3 DEF Prepare, Goes, JobT, JobRecs
    <3>3. Marked(j)' => ~rec'.there
      BY <3>1, <3>2, <1>3 DEF Prepare, Marked, Running, Move
    <3>4. \A k \in Jobs \ {j} : Marked(k)' => Marked(k)
      BY <3>1 DEF Move, Marked, Running
    <3>5. rec' = rec
      BY <1>3 DEF Prepare
    <3> QED
      BY <3>3, <3>4, <3>5 DEF MarkedRow
  <2> QED
    BY <2>1, <2>2, <2>3
<1>4. ASSUME NEW j \in Jobs, Prime(j) PROVE OneTask' /\ HeldLock' /\ MarkedRow'
  <2>1. OneTask'
    <3>1. Move(j, "prime", {"done", "check"})
      BY <1>4, TaskMoves
    <3> QED
      BY <3>1, OneTaskMoves
  <2>2. HeldLock'
    <3>1. Move(j, "prime", {"done", "check"})
      BY <1>4, TaskMoves
    <3>2. UNCHANGED active
      BY <1>4 DEF Prime
    <3> QED
      BY <3>1, <3>2, HeldLockMoves DEF HoldingPlaces
  <2>3. MarkedRow'
    <3>1. Move(j, "prime", {"done", "check"})
      BY <1>4, TaskMoves
    <3>1a. \A k \in Jobs \ {j} : ~Running(k)
      BY <3>1 DEF OneTask, Running, Move
    <3>2. \A k \in Jobs \ {j} : ~Marked(k)'
      BY <3>1, <3>1a DEF Move, Marked, Running
    <3>3. ~rec.there \/ Stopped => rec' = rec
      BY <1>4 DEF Prime
    <3>4. ~(~rec.there \/ Stopped) => rec'.status = "recording"
      BY <1>4 DEF Prime, RowT, Rows
    <3> QED
      BY <3>2, <3>3, <3>4 DEF MarkedRow, Stopped
  <2> QED
    BY <2>1, <2>2, <2>3
<1>5. ASSUME NEW j \in Jobs, Check(j) PROVE OneTask' /\ HeldLock' /\ MarkedRow'
  <2>1. OneTask'
    <3>1. Move(j, "check", {"loop", "ended"})
      BY <1>5, TaskMoves
    <3> QED
      BY <3>1, OneTaskMoves
  <2>2. HeldLock'
    <3>1. Move(j, "check", {"loop", "ended"})
      BY <1>5, TaskMoves
    <3>2. UNCHANGED active
      BY <1>5 DEF Check
    <3> QED
      BY <3>1, <3>2, HeldLockMoves DEF HoldingPlaces
  <2>3. MarkedRow'
    <3>1. Move(j, "check", {"loop", "ended"})
      BY <1>5, TaskMoves
    <3>2. UNCHANGED <<rec.there, rec.status>>
      BY <1>5 DEF Check
    <3> QED
      BY <3>1, <3>2, MarkedRowMoves DEF MarkedPlaces, JobPlaces
  <2> QED
    BY <2>1, <2>2, <2>3
<1>6. ASSUME NEW j \in Jobs, StartTaping(j) PROVE OneTask' /\ HeldLock' /\ MarkedRow'
  <2>1. OneTask'
    <3>1. Move(j, "loop", {"taping", "ended"})
      BY <1>6, TaskMoves
    <3> QED
      BY <3>1, OneTaskMoves
  <2>2. HeldLock'
    <3>1. Move(j, "loop", {"taping", "ended"})
      BY <1>6, TaskMoves
    <3>2. UNCHANGED active
      BY <1>6 DEF StartTaping
    <3> QED
      BY <3>1, <3>2, HeldLockMoves DEF HoldingPlaces
  <2>3. MarkedRow'
    <3>1. Move(j, "loop", {"taping", "ended"})
      BY <1>6, TaskMoves
    <3>2. UNCHANGED <<rec.there, rec.status>>
      BY <1>6 DEF StartTaping
    <3> QED
      BY <3>1, <3>2, MarkedRowMoves DEF MarkedPlaces, JobPlaces
  <2> QED
    BY <2>1, <2>2, <2>3
<1>7. ASSUME NEW j \in Jobs, Tape(j) PROVE OneTask' /\ HeldLock' /\ MarkedRow'
  <2>1. OneTask'
    <3>1. Move(j, "taping", {"taping"})
      BY <1>7, TaskMoves
    <3> QED
      BY <3>1, OneTaskMoves
  <2>2. HeldLock'
    <3>1. Move(j, "taping", {"taping"})
      BY <1>7, TaskMoves
    <3>2. UNCHANGED active
      BY <1>7 DEF Tape
    <3> QED
      BY <3>1, <3>2, HeldLockMoves DEF HoldingPlaces
  <2>3. MarkedRow'
    <3>1. Move(j, "taping", {"taping"})
      BY <1>7, TaskMoves
    <3>2. UNCHANGED <<rec.there, rec.status>>
      BY <1>7 DEF Tape
    <3> QED
      BY <3>1, <3>2, MarkedRowMoves DEF MarkedPlaces, JobPlaces
  <2> QED
    BY <2>1, <2>2, <2>3
<1>8. ASSUME NEW j \in Jobs, PollEnd(j) PROVE OneTask' /\ HeldLock' /\ MarkedRow'
  <2>1. OneTask'
    <3>1. Move(j, "taping", {"taping"})
      BY <1>8, TaskMoves
    <3> QED
      BY <3>1, OneTaskMoves
  <2>2. HeldLock'
    <3>1. Move(j, "taping", {"taping"})
      BY <1>8, TaskMoves
    <3>2. UNCHANGED active
      BY <1>8 DEF PollEnd
    <3> QED
      BY <3>1, <3>2, HeldLockMoves DEF HoldingPlaces
  <2>3. MarkedRow'
    <3>1. Move(j, "taping", {"taping"})
      BY <1>8, TaskMoves
    <3>2. UNCHANGED <<rec.there, rec.status>>
      BY <1>8 DEF PollEnd
    <3> QED
      BY <3>1, <3>2, MarkedRowMoves DEF MarkedPlaces, JobPlaces
  <2> QED
    BY <2>1, <2>2, <2>3
<1>9. ASSUME NEW j \in Jobs, TapingEnds(j) PROVE OneTask' /\ HeldLock' /\ MarkedRow'
  <2>1. OneTask'
    <3>1. Move(j, "taping", {"ended"})
      BY <1>9, TaskMoves
    <3> QED
      BY <3>1, OneTaskMoves
  <2>2. HeldLock'
    <3>1. Move(j, "taping", {"ended"})
      BY <1>9, TaskMoves
    <3>2. UNCHANGED active
      BY <1>9 DEF TapingEnds
    <3> QED
      BY <3>1, <3>2, HeldLockMoves DEF HoldingPlaces
  <2>3. MarkedRow'
    <3>1. Move(j, "taping", {"ended"})
      BY <1>9, TaskMoves
    <3>2. UNCHANGED <<rec.there, rec.status>>
      BY <1>9 DEF TapingEnds
    <3> QED
      BY <3>1, <3>2, MarkedRowMoves DEF MarkedPlaces, JobPlaces
  <2> QED
    BY <2>1, <2>2, <2>3
<1>10. ASSUME NEW j \in Jobs, TapingFails(j) PROVE OneTask' /\ HeldLock' /\ MarkedRow'
  <2>1. OneTask'
    <3>1. Move(j, "taping", {"backoff", "ended"})
      BY <1>10, TaskMoves
    <3> QED
      BY <3>1, OneTaskMoves
  <2>2. HeldLock'
    <3>1. Move(j, "taping", {"backoff", "ended"})
      BY <1>10, TaskMoves
    <3>2. UNCHANGED active
      BY <1>10 DEF TapingFails
    <3> QED
      BY <3>1, <3>2, HeldLockMoves DEF HoldingPlaces
  <2>3. MarkedRow'
    <3>1. Move(j, "taping", {"backoff", "ended"})
      BY <1>10, TaskMoves
    <3>2. UNCHANGED <<rec.there, rec.status>>
      BY <1>10 DEF TapingFails
    <3> QED
      BY <3>1, <3>2, MarkedRowMoves DEF MarkedPlaces, JobPlaces
  <2> QED
    BY <2>1, <2>2, <2>3
<1>11. ASSUME NEW j \in Jobs, BackoffElapses(j) PROVE OneTask' /\ HeldLock' /\ MarkedRow'
  <2>1. OneTask'
    <3>1. Move(j, "backoff", {"loop", "ended"})
      BY <1>11, TaskMoves
    <3> QED
      BY <3>1, OneTaskMoves
  <2>2. HeldLock'
    <3>1. Move(j, "backoff", {"loop", "ended"})
      BY <1>11, TaskMoves
    <3>2. UNCHANGED active
      BY <1>11 DEF BackoffElapses
    <3> QED
      BY <3>1, <3>2, HeldLockMoves DEF HoldingPlaces
  <2>3. MarkedRow'
    <3>1. Move(j, "backoff", {"loop", "ended"})
      BY <1>11, TaskMoves
    <3>2. UNCHANGED <<rec.there, rec.status>>
      BY <1>11 DEF BackoffElapses
    <3> QED
      BY <3>1, <3>2, MarkedRowMoves DEF MarkedPlaces, JobPlaces
  <2> QED
    BY <2>1, <2>2, <2>3
<1>12. ASSUME NEW j \in Jobs, FolderVanished(j) PROVE OneTask' /\ HeldLock' /\ MarkedRow'
  <2>1. OneTask'
    <3>1. Move(j, "taping", {"done"})
      BY <1>12, TaskMoves
    <3> QED
      BY <3>1, OneTaskMoves
  <2>2. HeldLock'
    <3>1. Move(j, "taping", {"done"})
      BY <1>12, TaskMoves
    <3>2. UNCHANGED active
      BY <1>12 DEF FolderVanished
    <3> QED
      BY <3>1, <3>2, HeldLockMoves DEF HoldingPlaces
  <2>3. MarkedRow'
    <3>1. Move(j, "taping", {"done"})
      BY <1>12, TaskMoves
    <3>2. UNCHANGED <<rec.there, rec.status>>
      BY <1>12 DEF FolderVanished
    <3> QED
      BY <3>1, <3>2, MarkedRowMoves DEF MarkedPlaces, JobPlaces
  <2> QED
    BY <2>1, <2>2, <2>3
<1>13. ASSUME NEW j \in Jobs, TapeEnds(j) PROVE OneTask' /\ HeldLock' /\ MarkedRow'
  <2>1. OneTask'
    <3>1. Move(j, "ended", {"done", "concat"})
      BY <1>13, TaskMoves
    <3> QED
      BY <3>1, OneTaskMoves
  <2>2. HeldLock'
    <3>1. Move(j, "ended", {"done", "concat"})
      BY <1>13, TaskMoves
    <3>2. UNCHANGED active
      BY <1>13 DEF TapeEnds
    <3> QED
      BY <3>1, <3>2, HeldLockMoves DEF HoldingPlaces
  <2>3. MarkedRow'
    <3>1. Move(j, "ended", {"done", "concat"})
      BY <1>13, TaskMoves
    <3>1a. \A k \in Jobs \ {j} : ~Running(k)
      BY <3>1 DEF OneTask, Running, Move
    <3>2. \A k \in Jobs \ {j} : ~Marked(k)'
      BY <3>1, <3>1a DEF Move, Marked, Running
    <3>3. Marked(j) /\ (Marked(j)' => job'[j].at = "concat")
      BY <3>1 DEF Move, Marked, Running
    <3>4. job'[j].at = "concat" => rec' = rec
      BY <1>13 DEF TapeEnds, Goes, JobT, JobRecs
    <3> QED
      BY <3>2, <3>3, <3>4 DEF MarkedRow
  <2> QED
    BY <2>1, <2>2, <2>3
<1>14. ASSUME NEW j \in Jobs, Concat(j) PROVE OneTask' /\ HeldLock' /\ MarkedRow'
  <2>1. OneTask'
    <3>1. Move(j, "concat", {"final", "waiting"})
      BY <1>14, TaskMoves
    <3> QED
      BY <3>1, OneTaskMoves
  <2>2. HeldLock'
    <3>1. Move(j, "concat", {"final", "waiting"})
      BY <1>14, TaskMoves
    <3>2. UNCHANGED active
      BY <1>14 DEF Concat
    <3> QED
      BY <3>1, <3>2, HeldLockMoves DEF HoldingPlaces
  <2>3. MarkedRow'
    <3>1. Move(j, "concat", {"final", "waiting"})
      BY <1>14, TaskMoves
    <3>2. UNCHANGED <<rec.there, rec.status>>
      BY <1>14 DEF Concat
    <3> QED
      BY <3>1, <3>2, MarkedRowMoves DEF MarkedPlaces, JobPlaces
  <2> QED
    BY <2>1, <2>2, <2>3
<1>15. ASSUME NEW j \in Jobs, ClearFolder(j) PROVE OneTask' /\ HeldLock' /\ MarkedRow'
  <2>1. OneTask'
    <3>1. Move(j, "waiting", {"unset"})
      BY <1>15, TaskMoves
    <3> QED
      BY <3>1, OneTaskMoves
  <2>2. HeldLock'
    <3>1. Move(j, "waiting", {"unset"})
      BY <1>15, TaskMoves
    <3>2. UNCHANGED active
      BY <1>15 DEF ClearFolder
    <3> QED
      BY <3>1, <3>2, HeldLockMoves DEF HoldingPlaces
  <2>3. MarkedRow'
    <3>1. Move(j, "waiting", {"unset"})
      BY <1>15, TaskMoves
    <3>2. UNCHANGED <<rec.there, rec.status>>
      BY <1>15 DEF ClearFolder
    <3> QED
      BY <3>1, <3>2, MarkedRowMoves DEF MarkedPlaces, JobPlaces
  <2> QED
    BY <2>1, <2>2, <2>3
<1>16. ASSUME NEW j \in Jobs, UnsetFolder(j) PROVE OneTask' /\ HeldLock' /\ MarkedRow'
  <2>1. OneTask'
    <3>1. Move(j, "unset", {"final"})
      BY <1>16, TaskMoves
    <3> QED
      BY <3>1, OneTaskMoves
  <2>2. HeldLock'
    <3>1. Move(j, "unset", {"final"})
      BY <1>16, TaskMoves
    <3>2. UNCHANGED active
      BY <1>16 DEF UnsetFolder
    <3> QED
      BY <3>1, <3>2, HeldLockMoves DEF HoldingPlaces
  <2>3. MarkedRow'
    <3>1. Move(j, "unset", {"final"})
      BY <1>16, TaskMoves
    <3>2. UNCHANGED <<rec.there, rec.status>>
      BY <1>16 DEF UnsetFolder, RowT, Rows
    <3> QED
      BY <3>1, <3>2, MarkedRowMoves DEF MarkedPlaces, JobPlaces
  <2> QED
    BY <2>1, <2>2, <2>3
<1>17. ASSUME NEW j \in Jobs, Finalize(j) PROVE OneTask' /\ HeldLock' /\ MarkedRow'
  <2>1. OneTask'
    <3>1. Move(j, "final", {"done", "save"})
      BY <1>17, TaskMoves
    <3> QED
      BY <3>1, OneTaskMoves
  <2>2. HeldLock'
    <3>1. Move(j, "final", {"done", "save"})
      BY <1>17, TaskMoves
    <3>2. \A k \in Jobs : ~Holding(k)
      BY <3>1 DEF OneTask, Running, Holding, Move
    <3>3. \A k \in Jobs : ~Holding(k)'
      BY <3>1, <3>2 DEF Holding, Move
    <3> QED
      BY <3>3 DEF HeldLock
  <2>3. MarkedRow'
    <3>1. Move(j, "final", {"done", "save"})
      BY <1>17, TaskMoves
    <3>2. UNCHANGED <<rec.there, rec.status>>
      BY <1>17 DEF Finalize
    <3> QED
      BY <3>1, <3>2, MarkedRowMoves DEF MarkedPlaces, JobPlaces
  <2> QED
    BY <2>1, <2>2, <2>3
<1>18. ASSUME NEW j \in Jobs, SaveFinal(j) PROVE OneTask' /\ HeldLock' /\ MarkedRow'
  <2>1. OneTask'
    <3>1. Move(j, "save", {"done"})
      BY <1>18, TaskMoves
    <3> QED
      BY <3>1, OneTaskMoves
  <2>2. HeldLock'
    <3>1. Move(j, "save", {"done"})
      BY <1>18, TaskMoves
    <3>2. \A k \in Jobs : ~Holding(k)
      BY <3>1 DEF OneTask, Running, Holding, Move
    <3>3. \A k \in Jobs : ~Holding(k)'
      BY <3>1, <3>2 DEF Holding, Move
    <3> QED
      BY <3>3 DEF HeldLock
  <2>3. MarkedRow'
    <3>1. Move(j, "save", {"done"})
      BY <1>18, TaskMoves
    <3>2. \A k \in Jobs : ~Running(k)'
      BY <3>1 DEF OneTask, Running, Move
    <3> QED
      BY <3>2 DEF MarkedRow, Marked
  <2> QED
    BY <2>1, <2>2, <2>3
<1>19. ASSUME NEW j \in Jobs, RecoverResumes(j) PROVE OneTask' /\ HeldLock' /\ MarkedRow'
  <2>1. OneTask'
    <3>1. Move(j, "idle", {"guard"})
      BY <1>19, TaskMoves
    <3> QED
      BY <3>1, OneTaskMoves
  <2>2. HeldLock'
    <3>1. Move(j, "idle", {"guard"})
      BY <1>19, TaskMoves
    <3>2. UNCHANGED active
      BY <1>19 DEF RecoverResumes
    <3> QED
      BY <3>1, <3>2, HeldLockMoves DEF HoldingPlaces
  <2>3. MarkedRow'
    <3>1. Move(j, "idle", {"guard"})
      BY <1>19, TaskMoves
    <3>2. Reading /\ ~recovery.crossed
      BY <1>19 DEF RecoverResumes, RecoveryIs, ActsOnRead, Reading, ReadT, Recoveries
    <3>3. \A k \in Jobs : ~Running(k)
      BY <3>2 DEF Shadows, Known
    <3>4. \A k \in Jobs : ~Running(k)'
      BY <3>1, <3>3 DEF Running, Move
    <3> QED
      BY <3>4 DEF MarkedRow, Marked
  <2> QED
    BY <2>1, <2>2, <2>3
<1>20. CASE RecoverFetch
  <2>1. OneTask'
    BY <1>20 DEF RecoverFetch, RecoveryIs, RecoveryDone, Reads, Shadows, Dead, Known, Reading,
       OneTask, HeldLock, MarkedRow, Running, Holding, Marked, Move, ReadT, LockT
  <2>2. HeldLock'
    BY <1>20 DEF RecoverFetch, RecoveryIs, RecoveryDone, Reads, Shadows, Dead, Known, Reading,
       OneTask, HeldLock, MarkedRow, Running, Holding, Marked, Move, LockT, Closing
  <2>3. MarkedRow'
    BY <1>20 DEF RecoverFetch, RecoveryIs, RecoveryDone, Reads, Shadows, Dead, Known, Reading,
       OneTask, HeldLock, MarkedRow, Running, Holding, Marked, Move, Gone, NewRec, RowT, Rows, ReadT
  <2> QED
    BY <2>1, <2>2, <2>3
<1>21. CASE RecoverSkips
  <2>1. OneTask'
    BY <1>21 DEF RecoverSkips, RecoveryIs, RecoveryDone, Shadows, Dead, Known, Reading, OneTask,
       HeldLock, MarkedRow, Running, Holding, Marked, Move, ReadT, LockT
  <2>2. HeldLock'
    BY <1>21 DEF RecoverSkips, RecoveryIs, RecoveryDone, Shadows, Dead, Known, Reading, OneTask,
       HeldLock, MarkedRow, Running, Holding, Marked, Move, LockT, Closing
  <2>3. MarkedRow'
    BY <1>21 DEF RecoverSkips, RecoveryIs, RecoveryDone, Shadows, Dead, Known, Reading, OneTask,
       HeldLock, MarkedRow, Running, Holding, Marked, Move, Gone, NewRec, RowT, Rows, ReadT
  <2> QED
    BY <2>1, <2>2, <2>3
<1>22. CASE RecoverJoins
  <2>1. OneTask'
    BY <1>22 DEF RecoverJoins, RecoveryIs, ActsOnRead, Folder, Shadows, Dead, Known, Reading,
       OneTask, HeldLock, MarkedRow, Running, Holding, Marked, Move, ReadT, LockT
  <2>2. HeldLock'
    BY <1>22 DEF RecoverJoins, RecoveryIs, ActsOnRead, Folder, Shadows, Dead, Known, Reading,
       OneTask, HeldLock, MarkedRow, Running, Holding, Marked, Move, LockT, Closing
  <2>3. MarkedRow'
    BY <1>22 DEF RecoverJoins, RecoveryIs, ActsOnRead, Folder, Shadows, Dead, Known, Reading,
       OneTask, HeldLock, MarkedRow, Running, Holding, Marked, Move, Gone, NewRec, RowT, Rows, ReadT
  <2> QED
    BY <2>1, <2>2, <2>3
<1>23. CASE RecoverSaves
  <2>1. OneTask'
    BY <1>23 DEF RecoverSaves, RecoveryIs, RecoveryDone, ActsOnRead, Shadows, Dead, Known,
       Reading, OneTask, HeldLock, MarkedRow, Running, Holding, Marked, Move, ReadT, LockT
  <2>2. HeldLock'
    BY <1>23 DEF RecoverSaves, RecoveryIs, RecoveryDone, ActsOnRead, Shadows, Dead, Known,
       Reading, OneTask, HeldLock, MarkedRow, Running, Holding, Marked, Move, LockT, Closing
  <2>3. MarkedRow'
    BY <1>23 DEF RecoverSaves, RecoveryIs, RecoveryDone, ActsOnRead, Shadows, Dead, Known,
       Reading, OneTask, HeldLock, MarkedRow, Running, Holding, Marked, Move, Gone, NewRec, RowT,
       Rows, ReadT
  <2> QED
    BY <2>1, <2>2, <2>3
<1>24. CASE Shutdown
  <2>1. OneTask'
    BY <1>24 DEF Shutdown, Shadows, Dead, Known, Reading, OneTask, HeldLock, MarkedRow, Running,
       Holding, Marked, Move, ReadT, LockT
  <2>2. HeldLock'
    BY <1>24 DEF Shutdown, Shadows, Dead, Known, Reading, OneTask, HeldLock, MarkedRow, Running,
       Holding, Marked, Move, LockT, Closing
  <2>3. MarkedRow'
    BY <1>24 DEF Shutdown, Shadows, Dead, Known, Reading, OneTask, HeldLock, MarkedRow, Running,
       Holding, Marked, Move, Gone, NewRec, RowT, Rows, ReadT
  <2> QED
    BY <2>1, <2>2, <2>3
<1>25. CASE Crash
  <2>1. OneTask'
    BY <1>25 DEF Crash, Shadows, Dead, Known, Reading, OneTask, HeldLock, MarkedRow, Running,
       Holding, Marked, Move, ReadT, LockT
  <2>2. HeldLock'
    BY <1>25 DEF Crash, Shadows, Dead, Known, Reading, OneTask, HeldLock, MarkedRow, Running,
       Holding, Marked, Move, LockT, Closing
  <2>3. MarkedRow'
    BY <1>25 DEF Crash, Shadows, Dead, Known, Reading, OneTask, HeldLock, MarkedRow, Running,
       Holding, Marked, Move, Gone, NewRec, RowT, Rows, ReadT
  <2> QED
    BY <2>1, <2>2, <2>3
<1>26. CASE Boot
  <2>1. OneTask'
    BY <1>26 DEF Boot, Shadows, Dead, Known, Reading, OneTask, HeldLock, MarkedRow, Running,
       Holding, Marked, Move, ReadT, LockT
  <2>2. HeldLock'
    BY <1>26 DEF Boot, Shadows, Dead, Known, Reading, OneTask, HeldLock, MarkedRow, Running,
       Holding, Marked, Move, LockT, Closing
  <2>3. MarkedRow'
    BY <1>26 DEF Boot, Shadows, Dead, Known, Reading, OneTask, HeldLock, MarkedRow, Running,
       Holding, Marked, Move, Gone, NewRec, RowT, Rows, ReadT
  <2> QED
    BY <2>1, <2>2, <2>3
<1>27. CASE ActiveLapses
  <2>1. OneTask'
    BY <1>27 DEF ActiveLapses, Shadows, Dead, Known, Reading, OneTask, HeldLock, MarkedRow,
       Running, Holding, Marked, Move, ReadT, LockT
  <2>2. HeldLock'
    BY <1>27 DEF ActiveLapses, Shadows, Dead, Known, Reading, OneTask, HeldLock, MarkedRow,
       Running, Holding, Marked, Move, LockT, Closing
  <2>3. MarkedRow'
    BY <1>27 DEF ActiveLapses, Shadows, Dead, Known, Reading, OneTask, HeldLock, MarkedRow,
       Running, Holding, Marked, Move, Gone, NewRec, RowT, Rows, ReadT
  <2> QED
    BY <2>1, <2>2, <2>3
<1>28. CASE StartLocksLapse
  <2>1. OneTask'
    BY <1>28 DEF StartLocksLapse, Shadows, Dead, Known, Reading, OneTask, HeldLock, MarkedRow,
       Running, Holding, Marked, Move, ReadT, LockT
  <2>2. HeldLock'
    BY <1>28 DEF StartLocksLapse, Shadows, Dead, Known, Reading, OneTask, HeldLock, MarkedRow,
       Running, Holding, Marked, Move, LockT, Closing
  <2>3. MarkedRow'
    BY <1>28 DEF StartLocksLapse, Shadows, Dead, Known, Reading, OneTask, HeldLock, MarkedRow,
       Running, Holding, Marked, Move, Gone, NewRec, RowT, Rows, ReadT
  <2> QED
    BY <2>1, <2>2, <2>3
<1>29. CASE TimePasses
  <2>1. OneTask'
    BY <1>29 DEF TimePasses, Shadows, Dead, Known, Reading, OneTask, HeldLock, MarkedRow,
       Running, Holding, Marked, Move, ReadT, LockT
  <2>2. HeldLock'
    BY <1>29 DEF TimePasses, Shadows, Dead, Known, Reading, OneTask, HeldLock, MarkedRow,
       Running, Holding, Marked, Move, LockT, Closing
  <2>3. MarkedRow'
    BY <1>29 DEF TimePasses, Shadows, Dead, Known, Reading, OneTask, HeldLock, MarkedRow,
       Running, Holding, Marked, Move, Gone, NewRec, RowT, Rows, ReadT
  <2> QED
    BY <2>1, <2>2, <2>3
<1>30. CASE Stop
  <2>1. OneTask'
    BY <1>30 DEF Stop, Shadows, Dead, Known, Reading, OneTask, HeldLock, MarkedRow, Running,
       Holding, Marked, Move, ReadT, LockT
  <2>2. HeldLock'
    BY <1>30 DEF Stop, Shadows, Dead, Known, Reading, OneTask, HeldLock, MarkedRow, Running,
       Holding, Marked, Move, LockT, Closing
  <2>3. MarkedRow'
    BY <1>30 DEF Stop, Shadows, Dead, Known, Reading, OneTask, HeldLock, MarkedRow, Running,
       Holding, Marked, Move, Gone, NewRec, RowT, Rows, ReadT
  <2> QED
    BY <2>1, <2>2, <2>3
<1>31. CASE Extend
  <2>1. OneTask'
    BY <1>31 DEF Extend, Shadows, Dead, Known, Reading, OneTask, HeldLock, MarkedRow, Running,
       Holding, Marked, Move, ReadT, LockT
  <2>2. HeldLock'
    BY <1>31 DEF Extend, Shadows, Dead, Known, Reading, OneTask, HeldLock, MarkedRow, Running,
       Holding, Marked, Move, LockT, Closing
  <2>3. MarkedRow'
    BY <1>31 DEF Extend, Shadows, Dead, Known, Reading, OneTask, HeldLock, MarkedRow, Running,
       Holding, Marked, Move, Gone, NewRec, RowT, Rows, ReadT
  <2> QED
    BY <2>1, <2>2, <2>3
<1>32. CASE Edit
  <2>1. OneTask'
    BY <1>32 DEF Edit, Shadows, Dead, Known, Reading, OneTask, HeldLock, MarkedRow, Running,
       Holding, Marked, Move, ReadT, LockT
  <2>2. HeldLock'
    BY <1>32 DEF Edit, Shadows, Dead, Known, Reading, OneTask, HeldLock, MarkedRow, Running,
       Holding, Marked, Move, LockT, Closing
  <2>3. MarkedRow'
    BY <1>32 DEF Edit, Shadows, Dead, Known, Reading, OneTask, HeldLock, MarkedRow, Running,
       Holding, Marked, Move, Gone, NewRec, RowT, Rows, ReadT
  <2> QED
    BY <2>1, <2>2, <2>3
<1>33. CASE Destroy
  <2>1. OneTask'
    BY <1>33 DEF Destroy, Shadows, Dead, Known, Reading, OneTask, HeldLock, MarkedRow, Running,
       Holding, Marked, Move, ReadT, LockT
  <2>2. HeldLock'
    BY <1>33 DEF Destroy, Shadows, Dead, Known, Reading, OneTask, HeldLock, MarkedRow, Running,
       Holding, Marked, Move, LockT, Closing
  <2>3. MarkedRow'
    BY <1>33 DEF Destroy, Shadows, Dead, Known, Reading, OneTask, HeldLock, MarkedRow, Running,
       Holding, Marked, Move, Gone, NewRec, RowT, Rows, ReadT
  <2> QED
    BY <2>1, <2>2, <2>3
<1>34. CASE Clean
  <2>1. OneTask'
    BY <1>34 DEF Clean, Folder, Shadows, Dead, Known, Reading, OneTask, HeldLock, MarkedRow,
       Running, Holding, Marked, Move, ReadT, LockT
  <2>2. HeldLock'
    BY <1>34 DEF Clean, Folder, Shadows, Dead, Known, Reading, OneTask, HeldLock, MarkedRow,
       Running, Holding, Marked, Move, LockT, Closing
  <2>3. MarkedRow'
    BY <1>34 DEF Clean, Folder, Shadows, Dead, Known, Reading, OneTask, HeldLock, MarkedRow,
       Running, Holding, Marked, Move, Gone, NewRec, RowT, Rows, ReadT
  <2> QED
    BY <2>1, <2>2, <2>3
<1>35. CASE UNCHANGED dvrVars
  <2>1. OneTask'
    BY <1>35 DEF dvrVars, Shadows, Dead, Known, Reading, OneTask, HeldLock, MarkedRow, Running,
       Holding, Marked, Move, ReadT, LockT
  <2>2. HeldLock'
    BY <1>35 DEF dvrVars, Shadows, Dead, Known, Reading, OneTask, HeldLock, MarkedRow, Running,
       Holding, Marked, Move, LockT, Closing
  <2>3. MarkedRow'
    BY <1>35 DEF dvrVars, Shadows, Dead, Known, Reading, OneTask, HeldLock, MarkedRow, Running,
       Holding, Marked, Move, Gone, NewRec, RowT, Rows, ReadT
  <2> QED
    BY <2>1, <2>2, <2>3
<1> QED
  BY <1>1, <1>2, <1>3, <1>4, <1>5, <1>6, <1>7, <1>8, <1>9, <1>10, <1>11, <1>12, <1>13, <1>14,
     <1>15, <1>16, <1>17, <1>18, <1>19, <1>20, <1>21, <1>22, <1>23, <1>24, <1>25, <1>26, <1>27,
     <1>28, <1>29, <1>30, <1>31, <1>32, <1>33, <1>34, <1>35 DEF DvrNext, JobBegins, JobTapes,
     JobFinishes, RecoveryStep, FaultStep, LapseStep, UserStep

\* No step removes a folder that holds what its file does not, as long as the row is
\* there and no recovery has acted on an old read.
LEMMA StepFootage ==
  ASSUME RowT, JobT, TapeT, ReadT, CleanT, LockT, WorldT, Shadows, OneTask, RowsFolder,
         TasksFolder, HeldRows, Taped,
         ~stale', rec.there', [DvrNext]_dvrVars
  PROVE  RowsFolder' /\ TasksFolder' /\ HeldRows' /\ Taped'
<1> USE DEF diskVars, lockVars, workerVars, startVars, NoJob
<1>1. ASSUME NEW j \in Jobs, BeatFires(j) PROVE RowsFolder' /\ TasksFolder' /\ HeldRows' /\ Taped'
  <2>1. RowsFolder'
    BY <1>1, TaskMoves DEF BeatFires, Dispatched, At, Shadows, Deleted, NoFolder, Known, Reading,
       OneTask, RowsFolder, TasksFolder, TaskFolder, HeldRows
  <2>2. TasksFolder'
    <3>1. Move(j, "idle", {"guard"})
      BY <1>1, TaskMoves
    <3>2. TaskFolder(j)'
      BY <3>1 DEF TaskFolder, Move, Marked, Running
    <3>3. rec'.file = rec.file /\ files' = files /\ folder'.parts = folder.parts
      BY <1>1 DEF BeatFires
    <3>4. ASSUME NEW k \in Jobs, k # j PROVE TaskFolder(k)'
      <4>1. job'[k] = job[k] /\ TaskFolder(k)
        BY <3>1, <3>4 DEF Move, TasksFolder
      <4> QED
        BY <3>3, <4>1 DEF TaskFolder, Marked, Running
    <3> QED
      BY <3>2, <3>4 DEF TasksFolder
  <2>3. HeldRows'
    <3>1. Move(j, "idle", {"guard"})
      BY <1>1, TaskMoves
    <3>2. \A k \in Jobs : DraftHolds(k)'
      BY <3>1, <1>1 DEF BeatFires, HeldRows, DraftHolds, WritesTheSame, Move
    <3>3. (Reading /\ ~recovery.crossed => WritesTheSame(recovery.rec))'
      BY <1>1 DEF BeatFires, Reading, HeldRows, WritesTheSame
    <3> QED
      BY <3>2, <3>3 DEF HeldRows
  <2>4. Taped'
    BY <1>1, TaskMoves DEF BeatFires, Dispatched, At, Shadows, Deleted, NoFolder, Known, Reading,
       OneTask, RowsFolder, TasksFolder, TaskFolder, HeldRows, Taped
  <2> QED
    BY <2>1, <2>2, <2>3, <2>4
<1>2. ASSUME NEW j \in Jobs, Guard(j) PROVE RowsFolder' /\ TasksFolder' /\ HeldRows' /\ Taped'
  <2>1. RowsFolder'
    BY <1>2, TaskMoves DEF Guard, TakeLock, At, Goes, Shadows, Deleted, NoFolder, Known, Reading,
       OneTask, RowsFolder, TasksFolder, TaskFolder, HeldRows
  <2>2. TasksFolder'
    <3>1. Move(j, "guard", {"done", "prepare"})
      BY <1>2, TaskMoves
    <3>2. TaskFolder(j)'
      BY <3>1 DEF TaskFolder, Move, Marked, Running
    <3>3. rec'.file = rec.file /\ files' = files /\ folder'.parts = folder.parts
      BY <1>2 DEF Guard
    <3>4. ASSUME NEW k \in Jobs, k # j PROVE TaskFolder(k)'
      <4>1. job'[k] = job[k] /\ TaskFolder(k)
        BY <3>1, <3>4 DEF Move, TasksFolder
      <4> QED
        BY <3>3, <4>1 DEF TaskFolder, Marked, Running
    <3> QED
      BY <3>2, <3>4 DEF TasksFolder
  <2>3. HeldRows'
    <3>1. Move(j, "guard", {"done", "prepare"})
      BY <1>2, TaskMoves
    <3>2. \A k \in Jobs : DraftHolds(k)'
      BY <3>1, <1>2 DEF Guard, HeldRows, DraftHolds, WritesTheSame, Move
    <3>3. (Reading /\ ~recovery.crossed => WritesTheSame(recovery.rec))'
      BY <1>2 DEF Guard, Reading, ReadT, Recoveries, HeldRows, WritesTheSame
    <3> QED
      BY <3>2, <3>3 DEF HeldRows
  <2>4. Taped'
    BY <1>2, TaskMoves DEF Guard, TakeLock, At, Goes, Shadows, Deleted, NoFolder, Known, Reading,
       OneTask, RowsFolder, TasksFolder, TaskFolder, HeldRows, Taped
  <2> QED
    BY <2>1, <2>2, <2>3, <2>4
<1>3. ASSUME NEW j \in Jobs, Prepare(j) PROVE RowsFolder' /\ TasksFolder' /\ HeldRows' /\ Taped'
  <2>1. RowsFolder'
    BY <1>3, TaskMoves DEF Prepare, At, Goes, Shadows, Deleted, NoFolder, Known, Reading,
       OneTask, RowsFolder, TasksFolder, TaskFolder, HeldRows
  <2>2. TasksFolder'
    <3>1. Move(j, "prepare", {"check", "done", "prime"})
      BY <1>3, TaskMoves
    <3>2b. ASSUME rec.there, job'[j].at # "prime" PROVE TaskFolder(j)'
      <4>1. job'[j].at = "done"
        BY <1>3, <3>2b DEF Prepare, Goes, JobT, JobRecs
      <4> QED
        BY <4>1 DEF TaskFolder, Marked, Running
    <3>2c. ASSUME rec.there, job'[j].at = "prime" PROVE TaskFolder(j)'
      <4>1. PICK f \in Paths : /\ IF rec.dir /\ rec.file # NoPath /\ folder.there THEN f = rec.file
                                  ELSE FreePath(f)
                               /\ job' = [job EXCEPT ![j].at = "prime", ![j].file = f]
        BY <1>3, <3>2c DEF Prepare, Goes, JobT, JobRecs
      <4>2. job'[j].file = f /\ f # NoPath
        BY <4>1 DEF JobT, Paths, NoPath
      <4>3. files[f] \subseteq folder.parts
        BY <4>1 DEF RowsFolder, FreePath
      <4>4. UNCHANGED <<files, folder>>
        BY <1>3 DEF Prepare
      <4> QED
        BY <3>2c, <4>2, <4>3, <4>4 DEF TaskFolder, Marked
    <3>2d. rec.there
      BY <1>3 DEF Prepare
    <3>2. TaskFolder(j)'
      BY <3>2b, <3>2c, <3>2d
    <3>3. rec'.file = rec.file /\ files' = files /\ folder'.parts = folder.parts
      BY <1>3 DEF Prepare
    <3>4. ASSUME NEW k \in Jobs, k # j PROVE TaskFolder(k)'
      <4>1. job'[k] = job[k] /\ TaskFolder(k)
        BY <3>1, <3>4 DEF Move, TasksFolder
      <4> QED
        BY <3>3, <4>1 DEF TaskFolder, Marked, Running
    <3> QED
      BY <3>2, <3>4 DEF TasksFolder
  <2>3. HeldRows'
    <3>1. Move(j, "prepare", {"check", "done", "prime"}) /\ UNCHANGED <<rec, recovery>>
      BY <1>3, TaskMoves DEF Prepare, startVars
    <3>2. ASSUME NEW k \in Jobs PROVE DraftHolds(k)'
      <4>1. CASE k = j
        BY <3>1, <4>1 DEF Move, DraftHolds
      <4>2. CASE k # j
        <5>1. job'[k] = job[k]
          BY <3>1, <4>2 DEF Move
        <5> QED
          BY <3>1, <5>1 DEF HeldRows, DraftHolds, WritesTheSame
      <4> QED
        BY <4>1, <4>2
    <3>3. (Reading /\ ~recovery.crossed => WritesTheSame(recovery.rec))'
      BY <3>1 DEF HeldRows, Reading, WritesTheSame
    <3> QED
      BY <3>2, <3>3 DEF HeldRows
  <2>4. Taped'
    BY <1>3, TaskMoves DEF Prepare, At, Goes, Shadows, Deleted, NoFolder, Known, Reading,
       OneTask, RowsFolder, TasksFolder, TaskFolder, HeldRows, Taped
  <2> QED
    BY <2>1, <2>2, <2>3, <2>4
<1>4. ASSUME NEW j \in Jobs, Prime(j) PROVE RowsFolder' /\ TasksFolder' /\ HeldRows' /\ Taped'
  <2>1. RowsFolder'
    BY <1>4, TaskMoves DEF Prime, At, Goes, Shadows, Deleted, NoFolder, Known, Reading, OneTask,
       RowsFolder, TasksFolder, TaskFolder, HeldRows, RowT, Rows
  <2>2. TasksFolder'
    <3>1. Move(j, "prime", {"done", "check"})
      BY <1>4, TaskMoves
    <3>1a. \A k \in Jobs \ {j} : ~Running(k)
      BY <3>1 DEF OneTask, Running, Move
    <3>1b. \A k \in Jobs \ {j} : ~Running(k)'
      BY <3>1, <3>1a DEF Move, Running
    <3>2. \A k \in Jobs \ {j} : TaskFolder(k)'
      BY <3>1b DEF TaskFolder, Marked, Running
    <3>3. job'[j].file = job[j].file /\ UNCHANGED <<files, folder>>
      BY <1>4 DEF Prime, Goes
    <3>4. job'[j].at = "check" => rec'.file = job[j].file
      BY <1>4 DEF Prime, Goes, JobT
    <3>5. TaskFolder(j)'
      BY <3>1, <3>3, <3>4 DEF TasksFolder, TaskFolder, Move, Marked, Running
    <3> QED
      BY <3>2, <3>5 DEF TasksFolder
  <2>3. HeldRows'
    <3>1. Move(j, "prime", {"done", "check"})
      BY <1>4, TaskMoves
    <3>1a. \A k \in Jobs \ {j} : ~Running(k)
      BY <3>1 DEF OneTask, Running, Move
    <3>1b. \A k \in Jobs \ {j} : ~Running(k)'
      BY <3>1, <3>1a DEF Move, Running
    <3>2. \A k \in Jobs : DraftHolds(k)'
      BY <3>1, <3>1b DEF DraftHolds, Running, Move
    <3>3. Reading => recovery.crossed
      BY <3>1 DEF Shadows, Known, Running, Move
    <3>4. UNCHANGED recovery
      BY <1>4 DEF Prime
    <3> QED
      BY <3>2, <3>3, <3>4 DEF HeldRows, Reading
  <2>4. Taped'
    BY <1>4, TaskMoves DEF Prime, At, Goes, Shadows, Deleted, NoFolder, Known, Reading, OneTask,
       RowsFolder, TasksFolder, TaskFolder, HeldRows, Taped
  <2> QED
    BY <2>1, <2>2, <2>3, <2>4
<1>5. ASSUME NEW j \in Jobs, Check(j) PROVE RowsFolder' /\ TasksFolder' /\ HeldRows' /\ Taped'
  <2>1. RowsFolder'
    BY <1>5, TaskMoves DEF Check, At, Goes, Shadows, Deleted, NoFolder, Known, Reading, OneTask,
       RowsFolder, TasksFolder, TaskFolder, HeldRows, Marked, Running, TapeT
  <2>2. TasksFolder'
    <3>1. Move(j, "check", {"loop", "ended"})
      BY <1>5, TaskMoves
    <3>2. TaskFolder(j)'
      <4>1. job'[j].file = job[j].file /\ rec' = rec /\ files' = files
              /\ folder'.parts = folder.parts
        BY <1>5 DEF Check, JobT
      <4> QED
        BY <3>1, <4>1 DEF TasksFolder, TaskFolder, Move, Marked, Running
    <3>3. rec'.file = rec.file /\ files' = files /\ folder'.parts = folder.parts
      BY <1>5 DEF Check
    <3>4. ASSUME NEW k \in Jobs, k # j PROVE TaskFolder(k)'
      <4>1. job'[k] = job[k] /\ TaskFolder(k)
        BY <3>1, <3>4 DEF Move, TasksFolder
      <4> QED
        BY <3>3, <4>1 DEF TaskFolder, Marked, Running
    <3> QED
      BY <3>2, <3>4 DEF TasksFolder
  <2>3. HeldRows'
    <3>1. Move(j, "check", {"loop", "ended"})
      BY <1>5, TaskMoves
    <3>2. \A k \in Jobs : DraftHolds(k)'
      <4>1. rec' = rec
        BY <1>5 DEF Check
      <4> QED
        BY <3>1, <4>1 DEF HeldRows, DraftHolds, WritesTheSame, Move
    <3>3. (Reading /\ ~recovery.crossed => WritesTheSame(recovery.rec))'
      BY <1>5 DEF Check, Reading, HeldRows, WritesTheSame
    <3> QED
      BY <3>2, <3>3 DEF HeldRows
  <2>4. Taped'
    BY <1>5, TaskMoves DEF Check, At, Goes, Shadows, Deleted, NoFolder, Known, Reading, OneTask,
       RowsFolder, TasksFolder, TaskFolder, HeldRows, Taped, TapeT
  <2> QED
    BY <2>1, <2>2, <2>3, <2>4
<1>6. ASSUME NEW j \in Jobs, StartTaping(j) PROVE RowsFolder' /\ TasksFolder' /\ HeldRows' /\ Taped'
  <2>1. RowsFolder'
    BY <1>6, TaskMoves DEF StartTaping, At, Goes, Shadows, Deleted, NoFolder, Known, Reading,
       OneTask, RowsFolder, TasksFolder, TaskFolder, HeldRows
  <2>2. TasksFolder'
    BY <1>6, TaskMoves DEF StartTaping, At, Goes, Shadows, Deleted, NoFolder, Known, Reading,
       OneTask, RowsFolder, TasksFolder, TaskFolder, HeldRows, Marked, Running
  <2>3. HeldRows'
    BY <1>6, TaskMoves DEF StartTaping, At, Goes, Shadows, Deleted, NoFolder, Known, Reading,
       OneTask, RowsFolder, TasksFolder, TaskFolder, HeldRows, DraftHolds, WritesTheSame
  <2>4. Taped'
    BY <1>6, TaskMoves DEF StartTaping, At, Goes, Shadows, Deleted, NoFolder, Known, Reading,
       OneTask, RowsFolder, TasksFolder, TaskFolder, HeldRows, Taped
  <2> QED
    BY <2>1, <2>2, <2>3, <2>4
<1>7. ASSUME NEW j \in Jobs, Tape(j) PROVE RowsFolder' /\ TasksFolder' /\ HeldRows' /\ Taped'
  <2>1. RowsFolder'
    BY <1>7, TaskMoves DEF Tape, At, Folder, Shadows, Deleted, NoFolder, Known, Reading, OneTask,
       RowsFolder, TasksFolder, TaskFolder, HeldRows
  <2>2. TasksFolder'
    BY <1>7, TaskMoves DEF Tape, At, Folder, Shadows, Deleted, NoFolder, Known, Reading, OneTask,
       RowsFolder, TasksFolder, TaskFolder, HeldRows, Marked, Running
  <2>3. HeldRows'
    BY <1>7, TaskMoves DEF Tape, At, Folder, Shadows, Deleted, NoFolder, Known, Reading, OneTask,
       RowsFolder, TasksFolder, TaskFolder, HeldRows, DraftHolds, WritesTheSame
  <2>4. Taped'
    BY <1>7, TaskMoves DEF Tape, At, Folder, Shadows, Deleted, NoFolder, Known, Reading, OneTask,
       RowsFolder, TasksFolder, TaskFolder, HeldRows, Taped, TapeT
  <2> QED
    BY <2>1, <2>2, <2>3, <2>4
<1>8. ASSUME NEW j \in Jobs, PollEnd(j) PROVE RowsFolder' /\ TasksFolder' /\ HeldRows' /\ Taped'
  <2>1. RowsFolder'
    BY <1>8, TaskMoves DEF PollEnd, At, Shadows, Deleted, NoFolder, Known, Reading, OneTask,
       RowsFolder, TasksFolder, TaskFolder, HeldRows
  <2>2. TasksFolder'
    BY <1>8, TaskMoves DEF PollEnd, At, Shadows, Deleted, NoFolder, Known, Reading, OneTask,
       RowsFolder, TasksFolder, TaskFolder, HeldRows, Marked, Running
  <2>3. HeldRows'
    BY <1>8, TaskMoves DEF PollEnd, At, Shadows, Deleted, NoFolder, Known, Reading, OneTask,
       RowsFolder, TasksFolder, TaskFolder, HeldRows, DraftHolds, WritesTheSame
  <2>4. Taped'
    BY <1>8, TaskMoves DEF PollEnd, At, Shadows, Deleted, NoFolder, Known, Reading, OneTask,
       RowsFolder, TasksFolder, TaskFolder, HeldRows, Taped
  <2> QED
    BY <2>1, <2>2, <2>3, <2>4
<1>9. ASSUME NEW j \in Jobs, TapingEnds(j) PROVE RowsFolder' /\ TasksFolder' /\ HeldRows' /\ Taped'
  <2>1. RowsFolder'
    BY <1>9, TaskMoves DEF TapingEnds, At, Goes, Shadows, Deleted, NoFolder, Known, Reading,
       OneTask, RowsFolder, TasksFolder, TaskFolder, HeldRows
  <2>2. TasksFolder'
    BY <1>9, TaskMoves DEF TapingEnds, At, Goes, Shadows, Deleted, NoFolder, Known, Reading,
       OneTask, RowsFolder, TasksFolder, TaskFolder, HeldRows, Marked, Running
  <2>3. HeldRows'
    BY <1>9, TaskMoves DEF TapingEnds, At, Goes, Shadows, Deleted, NoFolder, Known, Reading,
       OneTask, RowsFolder, TasksFolder, TaskFolder, HeldRows, DraftHolds, WritesTheSame
  <2>4. Taped'
    BY <1>9, TaskMoves DEF TapingEnds, At, Goes, Shadows, Deleted, NoFolder, Known, Reading,
       OneTask, RowsFolder, TasksFolder, TaskFolder, HeldRows, Taped
  <2> QED
    BY <2>1, <2>2, <2>3, <2>4
<1>10. ASSUME NEW j \in Jobs, TapingFails(j)
       PROVE  RowsFolder' /\ TasksFolder' /\ HeldRows' /\ Taped'
  <2>1. RowsFolder'
    BY <1>10, TaskMoves DEF TapingFails, At, Goes, Shadows, Deleted, NoFolder, Known, Reading,
       OneTask, RowsFolder, TasksFolder, TaskFolder, HeldRows
  <2>2. TasksFolder'
    BY <1>10, TaskMoves DEF TapingFails, At, Goes, Shadows, Deleted, NoFolder, Known, Reading,
       OneTask, RowsFolder, TasksFolder, TaskFolder, HeldRows, Marked, Running, JobT, JobRecs
  <2>3. HeldRows'
    BY <1>10, TaskMoves DEF TapingFails, At, Goes, Shadows, Deleted, NoFolder, Known, Reading,
       OneTask, RowsFolder, TasksFolder, TaskFolder, HeldRows, DraftHolds, Running, Move
  <2>4. Taped'
    BY <1>10, TaskMoves DEF TapingFails, At, Goes, Shadows, Deleted, NoFolder, Known, Reading,
       OneTask, RowsFolder, TasksFolder, TaskFolder, HeldRows, Taped
  <2> QED
    BY <2>1, <2>2, <2>3, <2>4
<1>11. ASSUME NEW j \in Jobs, BackoffElapses(j)
       PROVE  RowsFolder' /\ TasksFolder' /\ HeldRows' /\ Taped'
  <2>1. RowsFolder'
    BY <1>11, TaskMoves DEF BackoffElapses, At, Shadows, Deleted, NoFolder, Known, Reading,
       OneTask, RowsFolder, TasksFolder, TaskFolder, HeldRows
  <2>2. TasksFolder'
    <3>1. Move(j, "backoff", {"loop", "ended"})
      BY <1>11, TaskMoves
    <3>2. TaskFolder(j)'
      <4>1. job'[j].file = job[j].file /\ rec' = rec /\ files' = files
              /\ folder'.parts = folder.parts
        BY <1>11 DEF BackoffElapses, JobT
      <4> QED
        BY <3>1, <4>1 DEF TasksFolder, TaskFolder, Move, Marked, Running
    <3>3. rec'.file = rec.file /\ files' = files /\ folder'.parts = folder.parts
      BY <1>11 DEF BackoffElapses
    <3>4. ASSUME NEW k \in Jobs, k # j PROVE TaskFolder(k)'
      <4>1. job'[k] = job[k] /\ TaskFolder(k)
        BY <3>1, <3>4 DEF Move, TasksFolder
      <4> QED
        BY <3>3, <4>1 DEF TaskFolder, Marked, Running
    <3> QED
      BY <3>2, <3>4 DEF TasksFolder
  <2>3. HeldRows'
    <3>1. Move(j, "backoff", {"loop", "ended"})
      BY <1>11, TaskMoves
    <3>2. \A k \in Jobs : DraftHolds(k)'
      <4>1. rec' = rec
        BY <1>11 DEF BackoffElapses
      <4> QED
        BY <3>1, <4>1 DEF HeldRows, DraftHolds, WritesTheSame, Move
    <3>3. (Reading /\ ~recovery.crossed => WritesTheSame(recovery.rec))'
      BY <1>11 DEF BackoffElapses, Reading, HeldRows, WritesTheSame
    <3> QED
      BY <3>2, <3>3 DEF HeldRows
  <2>4. Taped'
    BY <1>11, TaskMoves DEF BackoffElapses, At, Shadows, Deleted, NoFolder, Known, Reading,
       OneTask, RowsFolder, TasksFolder, TaskFolder, HeldRows, Taped
  <2> QED
    BY <2>1, <2>2, <2>3, <2>4
<1>12. ASSUME NEW j \in Jobs, FolderVanished(j)
       PROVE  RowsFolder' /\ TasksFolder' /\ HeldRows' /\ Taped'
  <2>1. RowsFolder'
    BY <1>12, TaskMoves DEF FolderVanished, At, Goes, Shadows, Deleted, NoFolder, Known, Reading,
       OneTask, RowsFolder, TasksFolder, TaskFolder, HeldRows
  <2>2. TasksFolder'
    BY <1>12, TaskMoves DEF FolderVanished, At, Goes, Shadows, Deleted, NoFolder, Known, Reading,
       OneTask, RowsFolder, TasksFolder, TaskFolder, HeldRows, Marked, Running
  <2>3. HeldRows'
    BY <1>12, TaskMoves DEF FolderVanished, At, Goes, Shadows, Deleted, NoFolder, Known, Reading,
       OneTask, RowsFolder, TasksFolder, TaskFolder, HeldRows, DraftHolds, WritesTheSame
  <2>4. Taped'
    BY <1>12, TaskMoves DEF FolderVanished, At, Goes, Shadows, Deleted, NoFolder, Known, Reading,
       OneTask, RowsFolder, TasksFolder, TaskFolder, HeldRows, Taped
  <2> QED
    BY <2>1, <2>2, <2>3, <2>4
<1>13. ASSUME NEW j \in Jobs, TapeEnds(j) PROVE RowsFolder' /\ TasksFolder' /\ HeldRows' /\ Taped'
  <2>1. RowsFolder'
    BY <1>13, TaskMoves DEF TapeEnds, At, Goes, Folder, Shadows, Deleted, NoFolder, Known,
       Reading, OneTask, RowsFolder, TasksFolder, TaskFolder, HeldRows, RowT, Rows
  <2>2. TasksFolder'
    BY <1>13, TaskMoves DEF TapeEnds, At, Goes, Folder, Shadows, Deleted, NoFolder, Known,
       Reading, OneTask, RowsFolder, TasksFolder, TaskFolder, HeldRows, Marked, Running, JobT,
       JobRecs, Recoveries
  <2>3. HeldRows'
    BY <1>13, TaskMoves DEF TapeEnds, At, Goes, Folder, Shadows, Deleted, NoFolder, Known,
       Reading, OneTask, RowsFolder, TasksFolder, TaskFolder, HeldRows, DraftHolds, Running,
       Move, JobT, ReadT, Recoveries, CleanT
  <2>4. Taped'
    BY <1>13, TaskMoves DEF TapeEnds, At, Goes, Folder, Shadows, Deleted, NoFolder, Known,
       Reading, OneTask, RowsFolder, TasksFolder, TaskFolder, HeldRows, Taped
  <2> QED
    BY <2>1, <2>2, <2>3, <2>4
<1>14. ASSUME NEW j \in Jobs, Concat(j) PROVE RowsFolder' /\ TasksFolder' /\ HeldRows' /\ Taped'
  <2>1. RowsFolder'
    BY <1>14, TaskMoves DEF Concat, At, Goes, Shadows, Deleted, NoFolder, Known, Reading,
       OneTask, RowsFolder, TasksFolder, TaskFolder, HeldRows, Marked, Running, TapeT
  <2>2. TasksFolder'
    BY <1>14, TaskMoves DEF Concat, At, Goes, Shadows, Deleted, NoFolder, Known, Reading,
       OneTask, RowsFolder, TasksFolder, TaskFolder, HeldRows, Marked, Running, JobT, JobRecs, TapeT
  <2>3. HeldRows'
    BY <1>14, TaskMoves DEF Concat, At, Goes, Shadows, Deleted, NoFolder, Known, Reading,
       OneTask, RowsFolder, TasksFolder, TaskFolder, HeldRows, DraftHolds, WritesTheSame, Move,
       ReadT
  <2>4. Taped'
    BY <1>14, TaskMoves DEF Concat, At, Goes, Shadows, Deleted, NoFolder, Known, Reading,
       OneTask, RowsFolder, TasksFolder, TaskFolder, HeldRows, Taped, TapeT
  <2> QED
    BY <2>1, <2>2, <2>3, <2>4
<1>15. ASSUME NEW j \in Jobs, ClearFolder(j)
       PROVE  RowsFolder' /\ TasksFolder' /\ HeldRows' /\ Taped'
  <2>1. RowsFolder'
    BY <1>15, TaskMoves DEF ClearFolder, At, Goes, Folder, Shadows, Deleted, NoFolder, Known,
       Reading, OneTask, RowsFolder, TasksFolder, TaskFolder, HeldRows
  <2>2. TasksFolder'
    BY <1>15, TaskMoves DEF ClearFolder, At, Goes, Folder, Shadows, Deleted, NoFolder, Known,
       Reading, OneTask, RowsFolder, TasksFolder, TaskFolder, HeldRows, Marked, Running
  <2>3. HeldRows'
    BY <1>15, TaskMoves DEF ClearFolder, At, Goes, Folder, Shadows, Deleted, NoFolder, Known,
       Reading, OneTask, RowsFolder, TasksFolder, TaskFolder, HeldRows, DraftHolds, WritesTheSame
  <2>4. Taped'
    BY <1>15, TaskMoves DEF ClearFolder, At, Goes, Folder, Shadows, Deleted, NoFolder, Known,
       Reading, OneTask, RowsFolder, TasksFolder, TaskFolder, HeldRows, Taped, JobT, JobRecs
  <2> QED
    BY <2>1, <2>2, <2>3, <2>4
<1>16. ASSUME NEW j \in Jobs, UnsetFolder(j)
       PROVE  RowsFolder' /\ TasksFolder' /\ HeldRows' /\ Taped'
  <2>1. RowsFolder'
    BY <1>16, TaskMoves DEF UnsetFolder, At, Goes, Shadows, Deleted, NoFolder, Known, Reading,
       OneTask, RowsFolder, TasksFolder, TaskFolder, HeldRows
  <2>2. TasksFolder'
    BY <1>16, TaskMoves DEF UnsetFolder, At, Goes, Shadows, Deleted, NoFolder, Known, Reading,
       OneTask, RowsFolder, TasksFolder, TaskFolder, HeldRows, Marked, Running
  <2>3. HeldRows'
    <3>1. Move(j, "unset", {"final"})
      BY <1>16, TaskMoves
    <3>1a. \A k \in Jobs \ {j} : ~Running(k)
      BY <3>1 DEF OneTask, Running, Move
    <3>1b. \A k \in Jobs \ {j} : ~Running(k)'
      BY <3>1, <3>1a DEF Move, Running
    <3>2. \A k \in Jobs : DraftHolds(k)'
      BY <3>1, <3>1b DEF DraftHolds, Running, Move
    <3>3. Reading => recovery.crossed
      BY <3>1 DEF Shadows, Known, Running, Move
    <3>4. UNCHANGED recovery
      BY <1>16 DEF UnsetFolder
    <3> QED
      BY <3>2, <3>3, <3>4 DEF HeldRows, Reading
  <2>4. Taped'
    BY <1>16, TaskMoves DEF UnsetFolder, At, Goes, Shadows, Deleted, NoFolder, Known, Reading,
       OneTask, RowsFolder, TasksFolder, TaskFolder, HeldRows, Taped
  <2> QED
    BY <2>1, <2>2, <2>3, <2>4
<1>17. ASSUME NEW j \in Jobs, Finalize(j) PROVE RowsFolder' /\ TasksFolder' /\ HeldRows' /\ Taped'
  <2>1. RowsFolder'
    BY <1>17, TaskMoves DEF Finalize, At, Goes, Shadows, Deleted, NoFolder, Known, Reading,
       OneTask, RowsFolder, TasksFolder, TaskFolder, HeldRows
  <2>2. TasksFolder'
    BY <1>17, TaskMoves DEF Finalize, At, Goes, Shadows, Deleted, NoFolder, Known, Reading,
       OneTask, RowsFolder, TasksFolder, TaskFolder, HeldRows, Marked, Running, JobT, JobRecs
  <2>3. HeldRows'
    BY <1>17, TaskMoves DEF Finalize, At, Goes, Shadows, Deleted, NoFolder, Known, Reading,
       OneTask, RowsFolder, TasksFolder, TaskFolder, HeldRows, DraftHolds, WritesTheSame, JobT,
       JobRecs, Rows
  <2>4. Taped'
    BY <1>17, TaskMoves DEF Finalize, At, Goes, Shadows, Deleted, NoFolder, Known, Reading,
       OneTask, RowsFolder, TasksFolder, TaskFolder, HeldRows, Taped
  <2> QED
    BY <2>1, <2>2, <2>3, <2>4
<1>18. ASSUME NEW j \in Jobs, SaveFinal(j) PROVE RowsFolder' /\ TasksFolder' /\ HeldRows' /\ Taped'
  <2>1. RowsFolder'
    BY <1>18, TaskMoves DEF SaveFinal, At, Goes, Shadows, Deleted, NoFolder, Known, Reading,
       OneTask, RowsFolder, TasksFolder, TaskFolder, HeldRows, DraftHolds, WritesTheSame, Taped,
       Move, JobT, JobRecs, TapeT, Rows
  <2>2. TasksFolder'
    BY <1>18, TaskMoves DEF SaveFinal, At, Goes, Shadows, Deleted, NoFolder, Known, Reading,
       OneTask, RowsFolder, TasksFolder, TaskFolder, HeldRows, Marked, Running, JobT
  <2>3. HeldRows'
    BY <1>18, TaskMoves DEF SaveFinal, At, Goes, Shadows, Deleted, NoFolder, Known, Reading,
       OneTask, RowsFolder, TasksFolder, TaskFolder, HeldRows, DraftHolds, Running, Move
  <2>4. Taped'
    BY <1>18, TaskMoves DEF SaveFinal, At, Goes, Shadows, Deleted, NoFolder, Known, Reading,
       OneTask, RowsFolder, TasksFolder, TaskFolder, HeldRows, Taped
  <2> QED
    BY <2>1, <2>2, <2>3, <2>4
<1>19. ASSUME NEW j \in Jobs, RecoverResumes(j)
       PROVE  RowsFolder' /\ TasksFolder' /\ HeldRows' /\ Taped'
  <2>1. RowsFolder'
    BY <1>19, TaskMoves DEF RecoverResumes, Dispatched, RecoveryIs, RecoveryDone, ActsOnRead,
       Shadows, Deleted, NoFolder, Known, Reading, OneTask, RowsFolder, TasksFolder, TaskFolder,
       HeldRows, WritesTheSame, Rows, ReadT, Recoveries
  <2>2. TasksFolder'
    <3>1. Move(j, "idle", {"guard"})
      BY <1>19, TaskMoves
    <3>2. Reading /\ ~recovery.crossed
      BY <1>19 DEF RecoverResumes, RecoveryIs, ActsOnRead, Reading
    <3>3. \A k \in Jobs : ~Running(k)
      BY <3>2 DEF Shadows, Known
    <3>4. \A k \in Jobs : ~Running(k)'
      BY <3>1, <3>3 DEF Running, Move
    <3> QED
      BY <3>4 DEF TasksFolder, TaskFolder, Marked, Running
  <2>3. HeldRows'
    <3>1. Move(j, "idle", {"guard"})
      BY <1>19, TaskMoves
    <3>2. Reading /\ ~recovery.crossed
      BY <1>19 DEF RecoverResumes, RecoveryIs, ActsOnRead, Reading
    <3>3. \A k \in Jobs : ~Running(k)
      BY <3>2 DEF Shadows, Known
    <3>4. \A k \in Jobs : ~Running(k)'
      BY <3>1, <3>3 DEF Running, Move
    <3>5. ~Reading'
      BY <1>19 DEF RecoverResumes, RecoveryDone, NoRecovery, Reading
    <3> QED
      BY <3>4, <3>5 DEF HeldRows, DraftHolds, Running
  <2>4. Taped'
    BY <1>19, TaskMoves DEF RecoverResumes, Dispatched, RecoveryIs, RecoveryDone, ActsOnRead,
       Shadows, Deleted, NoFolder, Known, Reading, OneTask, RowsFolder, TasksFolder, TaskFolder,
       HeldRows, Taped
  <2> QED
    BY <2>1, <2>2, <2>3, <2>4
<1>20. CASE RecoverFetch
  <2>1. RowsFolder'
    BY <1>20 DEF RecoverFetch, RecoveryIs, RecoveryDone, Reads, Shadows, Deleted, NoFolder,
       Known, Reading, OneTask, RowsFolder, TasksFolder, TaskFolder, HeldRows
  <2>2. TasksFolder'
    BY <1>20 DEF RecoverFetch, RecoveryIs, RecoveryDone, Reads, Shadows, Deleted, NoFolder,
       Known, Reading, OneTask, RowsFolder, TasksFolder, TaskFolder, HeldRows, Marked, Running
  <2>3. HeldRows'
    BY <1>20 DEF RecoverFetch, RecoveryIs, RecoveryDone, Reads, Shadows, Deleted, NoFolder,
       Known, Reading, OneTask, RowsFolder, TasksFolder, TaskFolder, HeldRows, DraftHolds,
       WritesTheSame, NoRecovery
  <2>4. Taped'
    BY <1>20 DEF RecoverFetch, RecoveryIs, RecoveryDone, Reads, Shadows, Deleted, NoFolder,
       Known, Reading, OneTask, RowsFolder, TasksFolder, TaskFolder, HeldRows, Taped
  <2> QED
    BY <2>1, <2>2, <2>3, <2>4
<1>21. CASE RecoverSkips
  <2>1. RowsFolder'
    BY <1>21 DEF RecoverSkips, RecoveryIs, RecoveryDone, Shadows, Deleted, NoFolder, Known,
       Reading, OneTask, RowsFolder, TasksFolder, TaskFolder, HeldRows
  <2>2. TasksFolder'
    BY <1>21 DEF RecoverSkips, RecoveryIs, RecoveryDone, Shadows, Deleted, NoFolder, Known,
       Reading, OneTask, RowsFolder, TasksFolder, TaskFolder, HeldRows, Marked, Running
  <2>3. HeldRows'
    BY <1>21 DEF RecoverSkips, RecoveryIs, RecoveryDone, Shadows, Deleted, NoFolder, Known,
       Reading, OneTask, RowsFolder, TasksFolder, TaskFolder, HeldRows, DraftHolds,
       WritesTheSame, NoRecovery
  <2>4. Taped'
    BY <1>21 DEF RecoverSkips, RecoveryIs, RecoveryDone, Shadows, Deleted, NoFolder, Known,
       Reading, OneTask, RowsFolder, TasksFolder, TaskFolder, HeldRows, Taped
  <2> QED
    BY <2>1, <2>2, <2>3, <2>4
<1>22. CASE RecoverJoins
  <2>1. RowsFolder'
    BY <1>22 DEF RecoverJoins, RecoveryIs, ActsOnRead, Folder, Shadows, Deleted, NoFolder, Known,
       Reading, OneTask, RowsFolder, TasksFolder, TaskFolder, HeldRows
  <2>2. TasksFolder'
    BY <1>22 DEF RecoverJoins, RecoveryIs, ActsOnRead, Folder, Shadows, Deleted, NoFolder, Known,
       Reading, OneTask, RowsFolder, TasksFolder, TaskFolder, HeldRows, Marked, Running
  <2>3. HeldRows'
    BY <1>22 DEF RecoverJoins, RecoveryIs, ActsOnRead, Folder, Shadows, Deleted, NoFolder, Known,
       Reading, OneTask, RowsFolder, TasksFolder, TaskFolder, HeldRows, DraftHolds, WritesTheSame
  <2>4. Taped'
    BY <1>22 DEF RecoverJoins, RecoveryIs, ActsOnRead, Folder, Shadows, Deleted, NoFolder, Known,
       Reading, OneTask, RowsFolder, TasksFolder, TaskFolder, HeldRows, WritesTheSame, Taped,
       TapeT, RowT, Rows
  <2> QED
    BY <2>1, <2>2, <2>3, <2>4
<1>23. CASE RecoverSaves
  <2>1. RowsFolder'
    BY <1>23 DEF RecoverSaves, RecoveryIs, RecoveryDone, ActsOnRead, Shadows, Deleted, NoFolder,
       Known, Reading, OneTask, RowsFolder, TasksFolder, TaskFolder, HeldRows, WritesTheSame, TapeT
  <2>2. TasksFolder'
    BY <1>23 DEF RecoverSaves, RecoveryIs, RecoveryDone, ActsOnRead, Shadows, Deleted, NoFolder,
       Known, Reading, OneTask, RowsFolder, TasksFolder, TaskFolder, HeldRows, Marked, Running
  <2>3. HeldRows'
    BY <1>23 DEF RecoverSaves, RecoveryIs, RecoveryDone, ActsOnRead, Shadows, Deleted, NoFolder,
       Known, Reading, OneTask, RowsFolder, TasksFolder, TaskFolder, HeldRows, DraftHolds,
       Running, NoRecovery
  <2>4. Taped'
    BY <1>23 DEF RecoverSaves, RecoveryIs, RecoveryDone, ActsOnRead, Shadows, Deleted, NoFolder,
       Known, Reading, OneTask, RowsFolder, TasksFolder, TaskFolder, HeldRows, Taped
  <2> QED
    BY <2>1, <2>2, <2>3, <2>4
<1>24. CASE Shutdown
  <2>1. RowsFolder'
    BY <1>24 DEF Shutdown, Shadows, Deleted, NoFolder, Known, Reading, OneTask, RowsFolder,
       TasksFolder, TaskFolder, HeldRows
  <2>2. TasksFolder'
    BY <1>24 DEF Shutdown, Shadows, Deleted, NoFolder, Known, Reading, OneTask, RowsFolder,
       TasksFolder, TaskFolder, HeldRows, Marked, Running
  <2>3. HeldRows'
    BY <1>24 DEF Shutdown, Shadows, Deleted, NoFolder, Known, Reading, OneTask, RowsFolder,
       TasksFolder, TaskFolder, HeldRows, DraftHolds, WritesTheSame
  <2>4. Taped'
    BY <1>24 DEF Shutdown, Shadows, Deleted, NoFolder, Known, Reading, OneTask, RowsFolder,
       TasksFolder, TaskFolder, HeldRows, Taped
  <2> QED
    BY <2>1, <2>2, <2>3, <2>4
<1>25. CASE Crash
  <2>1. RowsFolder'
    BY <1>25 DEF Crash, Shadows, Deleted, NoFolder, Known, Reading, OneTask, RowsFolder,
       TasksFolder, TaskFolder, HeldRows
  <2>2. TasksFolder'
    BY <1>25 DEF Crash, Shadows, Deleted, NoFolder, Known, Reading, OneTask, RowsFolder,
       TasksFolder, TaskFolder, HeldRows, Marked, Running
  <2>3. HeldRows'
    BY <1>25 DEF Crash, Shadows, Deleted, NoFolder, Known, Reading, OneTask, RowsFolder,
       TasksFolder, TaskFolder, HeldRows, DraftHolds, NoRecovery
  <2>4. Taped'
    BY <1>25 DEF Crash, Shadows, Deleted, NoFolder, Known, Reading, OneTask, RowsFolder,
       TasksFolder, TaskFolder, HeldRows, Taped
  <2> QED
    BY <2>1, <2>2, <2>3, <2>4
<1>26. CASE Boot
  <2>1. RowsFolder'
    BY <1>26 DEF Boot, Shadows, Deleted, NoFolder, Known, Reading, OneTask, RowsFolder,
       TasksFolder, TaskFolder, HeldRows
  <2>2. TasksFolder'
    BY <1>26 DEF Boot, Shadows, Deleted, NoFolder, Known, Reading, OneTask, RowsFolder,
       TasksFolder, TaskFolder, HeldRows, Marked, Running
  <2>3. HeldRows'
    BY <1>26 DEF Boot, Shadows, Deleted, NoFolder, Known, Reading, OneTask, RowsFolder,
       TasksFolder, TaskFolder, HeldRows, DraftHolds, WritesTheSame
  <2>4. Taped'
    BY <1>26 DEF Boot, Shadows, Deleted, NoFolder, Known, Reading, OneTask, RowsFolder,
       TasksFolder, TaskFolder, HeldRows, Taped
  <2> QED
    BY <2>1, <2>2, <2>3, <2>4
<1>27. CASE ActiveLapses
  <2>1. RowsFolder'
    BY <1>27 DEF ActiveLapses, Shadows, Deleted, NoFolder, Known, Reading, OneTask, RowsFolder,
       TasksFolder, TaskFolder, HeldRows
  <2>2. TasksFolder'
    BY <1>27 DEF ActiveLapses, Shadows, Deleted, NoFolder, Known, Reading, OneTask, RowsFolder,
       TasksFolder, TaskFolder, HeldRows, Marked, Running
  <2>3. HeldRows'
    BY <1>27 DEF ActiveLapses, Shadows, Deleted, NoFolder, Known, Reading, OneTask, RowsFolder,
       TasksFolder, TaskFolder, HeldRows, DraftHolds, WritesTheSame
  <2>4. Taped'
    BY <1>27 DEF ActiveLapses, Shadows, Deleted, NoFolder, Known, Reading, OneTask, RowsFolder,
       TasksFolder, TaskFolder, HeldRows, Taped
  <2> QED
    BY <2>1, <2>2, <2>3, <2>4
<1>28. CASE StartLocksLapse
  <2>1. RowsFolder'
    BY <1>28 DEF StartLocksLapse, Shadows, Deleted, NoFolder, Known, Reading, OneTask,
       RowsFolder, TasksFolder, TaskFolder, HeldRows
  <2>2. TasksFolder'
    BY <1>28 DEF StartLocksLapse, Shadows, Deleted, NoFolder, Known, Reading, OneTask,
       RowsFolder, TasksFolder, TaskFolder, HeldRows, Marked, Running
  <2>3. HeldRows'
    BY <1>28 DEF StartLocksLapse, Shadows, Deleted, NoFolder, Known, Reading, OneTask,
       RowsFolder, TasksFolder, TaskFolder, HeldRows, DraftHolds, WritesTheSame
  <2>4. Taped'
    BY <1>28 DEF StartLocksLapse, Shadows, Deleted, NoFolder, Known, Reading, OneTask,
       RowsFolder, TasksFolder, TaskFolder, HeldRows, Taped
  <2> QED
    BY <2>1, <2>2, <2>3, <2>4
<1>29. CASE TimePasses
  <2>1. RowsFolder'
    BY <1>29 DEF TimePasses, Shadows, Deleted, NoFolder, Known, Reading, OneTask, RowsFolder,
       TasksFolder, TaskFolder, HeldRows
  <2>2. TasksFolder'
    BY <1>29 DEF TimePasses, Shadows, Deleted, NoFolder, Known, Reading, OneTask, RowsFolder,
       TasksFolder, TaskFolder, HeldRows, Marked, Running
  <2>3. HeldRows'
    BY <1>29 DEF TimePasses, Shadows, Deleted, NoFolder, Known, Reading, OneTask, RowsFolder,
       TasksFolder, TaskFolder, HeldRows, DraftHolds, WritesTheSame
  <2>4. Taped'
    BY <1>29 DEF TimePasses, Shadows, Deleted, NoFolder, Known, Reading, OneTask, RowsFolder,
       TasksFolder, TaskFolder, HeldRows, Taped
  <2> QED
    BY <2>1, <2>2, <2>3, <2>4
<1>30. CASE Stop
  <2>1. RowsFolder'
    BY <1>30 DEF Stop, Shadows, Deleted, NoFolder, Known, Reading, OneTask, RowsFolder,
       TasksFolder, TaskFolder, HeldRows
  <2>2. TasksFolder'
    BY <1>30 DEF Stop, Shadows, Deleted, NoFolder, Known, Reading, OneTask, RowsFolder,
       TasksFolder, TaskFolder, HeldRows, Marked, Running
  <2>3. HeldRows'
    BY <1>30 DEF Stop, Shadows, Deleted, NoFolder, Known, Reading, OneTask, RowsFolder,
       TasksFolder, TaskFolder, HeldRows, DraftHolds, WritesTheSame
  <2>4. Taped'
    BY <1>30 DEF Stop, Shadows, Deleted, NoFolder, Known, Reading, OneTask, RowsFolder,
       TasksFolder, TaskFolder, HeldRows, Taped
  <2> QED
    BY <2>1, <2>2, <2>3, <2>4
<1>31. CASE Extend
  <2>1. RowsFolder'
    BY <1>31 DEF Extend, Shadows, Deleted, NoFolder, Known, Reading, OneTask, RowsFolder,
       TasksFolder, TaskFolder, HeldRows
  <2>2. TasksFolder'
    BY <1>31 DEF Extend, Shadows, Deleted, NoFolder, Known, Reading, OneTask, RowsFolder,
       TasksFolder, TaskFolder, HeldRows, Marked, Running
  <2>3. HeldRows'
    BY <1>31 DEF Extend, Shadows, Deleted, NoFolder, Known, Reading, OneTask, RowsFolder,
       TasksFolder, TaskFolder, HeldRows, DraftHolds, WritesTheSame
  <2>4. Taped'
    BY <1>31 DEF Extend, Shadows, Deleted, NoFolder, Known, Reading, OneTask, RowsFolder,
       TasksFolder, TaskFolder, HeldRows, Taped
  <2> QED
    BY <2>1, <2>2, <2>3, <2>4
<1>32. CASE Edit
  <2>1. RowsFolder'
    BY <1>32 DEF Edit, Shadows, Deleted, NoFolder, Known, Reading, OneTask, RowsFolder,
       TasksFolder, TaskFolder, HeldRows
  <2>2. TasksFolder'
    BY <1>32 DEF Edit, Shadows, Deleted, NoFolder, Known, Reading, OneTask, RowsFolder,
       TasksFolder, TaskFolder, HeldRows, Marked, Running
  <2>3. HeldRows'
    BY <1>32 DEF Edit, Shadows, Deleted, NoFolder, Known, Reading, OneTask, RowsFolder,
       TasksFolder, TaskFolder, HeldRows, DraftHolds, WritesTheSame
  <2>4. Taped'
    BY <1>32 DEF Edit, Shadows, Deleted, NoFolder, Known, Reading, OneTask, RowsFolder,
       TasksFolder, TaskFolder, HeldRows, Taped
  <2> QED
    BY <2>1, <2>2, <2>3, <2>4
<1>33. CASE Destroy
  <2>1. RowsFolder'
    BY <1>33 DEF Destroy, Shadows, Deleted, NoFolder, Known, Reading, OneTask, RowsFolder,
       TasksFolder, TaskFolder, HeldRows, Gone
  <2>2. TasksFolder'
    BY <1>33 DEF Destroy, Shadows, Deleted, NoFolder, Known, Reading, OneTask, RowsFolder,
       TasksFolder, TaskFolder, HeldRows, Gone
  <2>3. HeldRows'
    BY <1>33 DEF Destroy, Shadows, Deleted, NoFolder, Known, Reading, OneTask, RowsFolder,
       TasksFolder, TaskFolder, HeldRows, Gone
  <2>4. Taped'
    BY <1>33 DEF Destroy, Shadows, Deleted, NoFolder, Known, Reading, OneTask, RowsFolder,
       TasksFolder, TaskFolder, HeldRows, Taped
  <2> QED
    BY <2>1, <2>2, <2>3, <2>4
<1>34. CASE Clean
  <2>1. RowsFolder'
    BY <1>34 DEF Clean, Folder, Shadows, Deleted, NoFolder, Known, Reading, OneTask, RowsFolder,
       TasksFolder, TaskFolder, HeldRows
  <2>2. TasksFolder'
    BY <1>34 DEF Clean, Folder, Shadows, Deleted, NoFolder, Known, Reading, OneTask, RowsFolder,
       TasksFolder, TaskFolder, HeldRows
  <2>3. HeldRows'
    BY <1>34 DEF Clean, Folder, Shadows, Deleted, NoFolder, Known, Reading, OneTask, RowsFolder,
       TasksFolder, TaskFolder, HeldRows
  <2>4. Taped'
    BY <1>34 DEF Clean, Folder, Shadows, Deleted, NoFolder, Known, Reading, OneTask, RowsFolder,
       TasksFolder, TaskFolder, HeldRows
  <2> QED
    BY <2>1, <2>2, <2>3, <2>4
<1>35. CASE UNCHANGED dvrVars
  <2>1. RowsFolder'
    BY <1>35 DEF dvrVars, Shadows, Deleted, NoFolder, Known, Reading, OneTask, RowsFolder,
       TasksFolder, TaskFolder, HeldRows
  <2>2. TasksFolder'
    BY <1>35 DEF dvrVars, Shadows, Deleted, NoFolder, Known, Reading, OneTask, RowsFolder,
       TasksFolder, TaskFolder, HeldRows, Marked, Running
  <2>3. HeldRows'
    BY <1>35 DEF dvrVars, Shadows, Deleted, NoFolder, Known, Reading, OneTask, RowsFolder,
       TasksFolder, TaskFolder, HeldRows, DraftHolds, WritesTheSame
  <2>4. Taped'
    BY <1>35 DEF dvrVars, Shadows, Deleted, NoFolder, Known, Reading, OneTask, RowsFolder,
       TasksFolder, TaskFolder, HeldRows, Taped
  <2> QED
    BY <2>1, <2>2, <2>3, <2>4
<1> QED
  BY <1>1, <1>2, <1>3, <1>4, <1>5, <1>6, <1>7, <1>8, <1>9, <1>10, <1>11, <1>12, <1>13, <1>14,
     <1>15, <1>16, <1>17, <1>18, <1>19, <1>20, <1>21, <1>22, <1>23, <1>24, <1>25, <1>26, <1>27,
     <1>28, <1>29, <1>30, <1>31, <1>32, <1>33, <1>34, <1>35 DEF DvrNext, JobBegins, JobTapes,
     JobFinishes, RecoveryStep, FaultStep, LapseStep, UserStep

\* A deleted row and an act on an old read are for good.
LEMMA NothingReturns ==
  ASSUME RowT, JobT, TapeT, ReadT, CleanT, LockT, WorldT, [DvrNext]_dvrVars
  PROVE  (rec'.there => rec.there) /\ (stale => stale')
<1> USE DEF diskVars, lockVars, workerVars, startVars
<1>1. ASSUME NEW j \in Jobs, BeatFires(j) PROVE (rec'.there => rec.there) /\ (stale => stale')
  BY <1>1 DEF BeatFires
<1>2. ASSUME NEW j \in Jobs, Guard(j) PROVE (rec'.there => rec.there) /\ (stale => stale')
  BY <1>2 DEF Guard
<1>3. ASSUME NEW j \in Jobs, Prepare(j) PROVE (rec'.there => rec.there) /\ (stale => stale')
  BY <1>3 DEF Prepare
<1>4. ASSUME NEW j \in Jobs, Prime(j) PROVE (rec'.there => rec.there) /\ (stale => stale')
  BY <1>4 DEF Prime
<1>5. ASSUME NEW j \in Jobs, Check(j) PROVE (rec'.there => rec.there) /\ (stale => stale')
  BY <1>5 DEF Check
<1>6. ASSUME NEW j \in Jobs, StartTaping(j) PROVE (rec'.there => rec.there) /\ (stale => stale')
  BY <1>6 DEF StartTaping
<1>7. ASSUME NEW j \in Jobs, Tape(j) PROVE (rec'.there => rec.there) /\ (stale => stale')
  BY <1>7 DEF Tape
<1>8. ASSUME NEW j \in Jobs, PollEnd(j) PROVE (rec'.there => rec.there) /\ (stale => stale')
  BY <1>8 DEF PollEnd
<1>9. ASSUME NEW j \in Jobs, TapingEnds(j) PROVE (rec'.there => rec.there) /\ (stale => stale')
  BY <1>9 DEF TapingEnds
<1>10. ASSUME NEW j \in Jobs, TapingFails(j) PROVE (rec'.there => rec.there) /\ (stale => stale')
  BY <1>10 DEF TapingFails
<1>11. ASSUME NEW j \in Jobs, BackoffElapses(j) PROVE (rec'.there => rec.there) /\ (stale => stale')
  BY <1>11 DEF BackoffElapses
<1>12. ASSUME NEW j \in Jobs, FolderVanished(j) PROVE (rec'.there => rec.there) /\ (stale => stale')
  BY <1>12 DEF FolderVanished
<1>13. ASSUME NEW j \in Jobs, TapeEnds(j) PROVE (rec'.there => rec.there) /\ (stale => stale')
  BY <1>13 DEF TapeEnds
<1>14. ASSUME NEW j \in Jobs, Concat(j) PROVE (rec'.there => rec.there) /\ (stale => stale')
  BY <1>14 DEF Concat
<1>15. ASSUME NEW j \in Jobs, ClearFolder(j) PROVE (rec'.there => rec.there) /\ (stale => stale')
  BY <1>15 DEF ClearFolder
<1>16. ASSUME NEW j \in Jobs, UnsetFolder(j) PROVE (rec'.there => rec.there) /\ (stale => stale')
  BY <1>16 DEF UnsetFolder
<1>17. ASSUME NEW j \in Jobs, Finalize(j) PROVE (rec'.there => rec.there) /\ (stale => stale')
  BY <1>17 DEF Finalize
<1>18. ASSUME NEW j \in Jobs, SaveFinal(j) PROVE (rec'.there => rec.there) /\ (stale => stale')
  BY <1>18 DEF SaveFinal
<1>19. ASSUME NEW j \in Jobs, RecoverResumes(j) PROVE (rec'.there => rec.there) /\ (stale => stale')
  BY <1>19 DEF RecoverResumes, ActsOnRead
<1>20. CASE RecoverFetch
  BY <1>20 DEF RecoverFetch
<1>21. CASE RecoverSkips
  BY <1>21 DEF RecoverSkips
<1>22. CASE RecoverJoins
  BY <1>22 DEF RecoverJoins, ActsOnRead
<1>23. CASE RecoverSaves
  BY <1>23 DEF RecoverSaves, ActsOnRead
<1>24. CASE Shutdown
  BY <1>24 DEF Shutdown
<1>25. CASE Crash
  BY <1>25 DEF Crash
<1>26. CASE Boot
  BY <1>26 DEF Boot
<1>27. CASE ActiveLapses
  BY <1>27 DEF ActiveLapses
<1>28. CASE StartLocksLapse
  BY <1>28 DEF StartLocksLapse
<1>29. CASE TimePasses
  BY <1>29 DEF TimePasses
<1>30. CASE Stop
  BY <1>30 DEF Stop
<1>31. CASE Extend
  BY <1>31 DEF Extend
<1>32. CASE Edit
  BY <1>32 DEF Edit
<1>33. CASE Destroy
  BY <1>33 DEF Destroy
<1>34. CASE Clean
  BY <1>34 DEF Clean
<1>35. CASE UNCHANGED dvrVars
  BY <1>35 DEF dvrVars
<1> QED
  BY <1>1, <1>2, <1>3, <1>4, <1>5, <1>6, <1>7, <1>8, <1>9, <1>10, <1>11, <1>12, <1>13, <1>14,
     <1>15, <1>16, <1>17, <1>18, <1>19, <1>20, <1>21, <1>22, <1>23, <1>24, <1>25, <1>26, <1>27,
     <1>28, <1>29, <1>30, <1>31, <1>32, <1>33, <1>34, <1>35 DEF DvrNext, JobBegins, JobTapes,
     JobFinishes, RecoveryStep, FaultStep, LapseStep, UserStep

\* An invariant of the tasks and the disk.
DvrInv ==
  /\ RowT /\ JobT /\ TapeT /\ ReadT /\ CleanT /\ LockT /\ WorldT
  /\ Shadows
  /\ ~stale => OneTask /\ HeldLock /\ MarkedRow
  /\ ~stale /\ rec.there => RowsFolder /\ TasksFolder /\ HeldRows /\ Taped

\* A recording that has just been scheduled.
LEMMA InitDvrInv == DvrInit => DvrInv
<1> SUFFICES ASSUME DvrInit PROVE DvrInv
  OBVIOUS
<1>0. NewRec \in Rows /\ Gone \in Rows
  BY RowsThere
<1>1. RowT /\ TapeT /\ CleanT /\ LockT /\ WorldT
  <2>1. RowT /\ LockT
    BY <1>0 DEF DvrInit, RowT, LockT, NoJob
  <2>2. 0 \in 0..MaxParts /\ 0 \in 0..MaxNow /\ 0 \in 0..MaxFaults /\ 0 \in 0..MaxEdits
    BY DvrAssumption
  <2>3. TapeT
    BY <2>2 DEF DvrInit, TapeT, Folder
  <2>4. CleanT
    BY DEF DvrInit, CleanT
  <2>5. WorldT
    BY <2>2 DEF DvrInit, WorldT
  <2> QED
    BY <2>1, <2>3, <2>4, <2>5
<1>2. ReadT
  BY <1>0 DEF DvrInit, ReadT, Recoveries, NoRecovery
<1>3. [at |-> "idle", deadline |-> 0, file |-> NoPath, confirmed |-> FALSE, interrupted |-> FALSE,
       draft |-> Gone] \in JobRecs
  BY <1>0, DvrAssumption DEF JobRecs, NoPath
<1>4. JobT
  BY <1>3 DEF DvrInit, JobT
<1>5. \A j \in Jobs : job[j].at = "idle"
  BY DEF DvrInit
<1>6. \A j \in Jobs : ~Running(j) /\ ~Holding(j) /\ ~Marked(j)
  BY <1>5 DEF Running, Holding, Marked
<1>7. Shadows
  BY <1>6 DEF DvrInit, Shadows, Dead, Known, Deleted, NoFolder, Reading, NoRecovery, Folder
<1>8. OneTask /\ HeldLock /\ MarkedRow
  BY <1>6 DEF OneTask, HeldLock, MarkedRow
<1>9. RowsFolder /\ TasksFolder /\ HeldRows /\ Taped
  <2>1. TasksFolder
    BY <1>5, <1>6 DEF TasksFolder, TaskFolder
  <2>2. RowsFolder /\ HeldRows
    BY <1>5 DEF DvrInit, RowsFolder, HeldRows, DraftHolds, NewRec, Reading, NoRecovery
  <2>3. taped = 0 /\ 1..0 = {}
    BY DEF DvrInit
  <2>4. Taped
    BY <2>3 DEF Taped
  <2> QED
    BY <2>1, <2>2, <2>4
<1> QED
  BY <1>1, <1>2, <1>4, <1>7, <1>8, <1>9 DEF DvrInv

\* The invariant is inductive.
LEMMA NextDvrInv == DvrInv /\ [DvrNext]_dvrVars => DvrInv'
<1> SUFFICES ASSUME DvrInv, [DvrNext]_dvrVars PROVE DvrInv'
  OBVIOUS
<1>1. RowT /\ JobT /\ TapeT /\ ReadT /\ CleanT /\ LockT /\ WorldT /\ Shadows
  BY DEF DvrInv
<1>2. RowT' /\ JobT' /\ TapeT' /\ ReadT' /\ CleanT' /\ LockT' /\ WorldT'
  BY <1>1, StepTypes
<1>3. Shadows'
  BY <1>1, StepShadows DEF Shadows
<1>4. (rec'.there => rec.there) /\ (stale => stale')
  BY <1>1, NothingReturns
<1>5. ~stale' => OneTask' /\ HeldLock' /\ MarkedRow'
  BY <1>1, <1>4, StepTasks DEF DvrInv
<1>6. ~stale' /\ rec'.there => RowsFolder' /\ TasksFolder' /\ HeldRows' /\ Taped'
  BY <1>1, <1>4, StepFootage DEF DvrInv
<1> QED
  BY <1>2, <1>3, <1>5, <1>6 DEF DvrInv

\* Every state's variables are of their types.
THEOREM DvrTypes == DvrSpec => []DvrTypeOK
<1>1. DvrInv => DvrTypeOK
  BY TypesSplit DEF DvrInv
<1> QED
  BY <1>1, InitDvrInv, NextDvrInv, PTL DEF DvrSpec

\* Two ffmpeg are never at work on one recording, for any number of tasks, until a
\* recovery acts on an old read.
THEOREM OneTaskWrites == DvrSpec => []OneWriter
<1>1. DvrInv => OneWriter
  <2> SUFFICES ASSUME DvrInv, ~stale
               PROVE  Cardinality({j \in Jobs : job[j].at = "taping"}) <= 1
    BY DEF OneWriter
  <2> DEFINE Writers == {j \in Jobs : job[j].at = "taping"}
  <2>1. \A j, k \in Writers : j = k
    BY DEF DvrInv, OneTask, Running
  <2>2. CASE Writers = {}
    BY <2>2, FS_EmptySet
  <2>3. CASE Writers # {}
    <3>1. PICK j : Writers = {j}
      BY <2>1, <2>3
    <3> HIDE DEF Writers
    <3>2. Cardinality(Writers) = 1
      BY <3>1, FS_Singleton
    <3> QED
      BY <3>2 DEF Writers
  <2> QED
    BY <2>2, <2>3
<1> QED
  BY <1>1, InitDvrInv, NextDvrInv, PTL DEF DvrSpec

\* What has been taped of a recording that is not deleted is in its folder or in a
\* file, until a recovery acts on an old read.
THEOREM FootageStays == DvrSpec => []FootageIsKept
<1>1. DvrInv => FootageIsKept
  BY DEF DvrInv, FootageIsKept, Taped
<1> QED
  BY <1>1, InitDvrInv, NextDvrInv, PTL DEF DvrSpec
=============================================================================
