--------------------------- MODULE SurveyAnalysis ---------------------------
(***************************************************************************)
(* The two readers of a saved survey: SessionStore::analyze (storage.cpp), *)
(* which fills the analysis panel, and the reports (report.cpp,            *)
(* analysis_report.hpp), which write one section for each acquisition.     *)
(* Both stream the saved tiles and add up, frame by frame, the time        *)
(* observed and the time above the threshold that lie in the selection,    *)
(* split into frequency bins, time groups and receiver cells, and both     *)
(* refuse a selection beyond their bounds instead of shortening it.  Time  *)
(* is in ticks, a bin b covers the frequencies 2b..2b+2.                   *)
(***************************************************************************)
EXTENDS Integers, Sequences, FiniteSets, FiniteSetsExt, Totals

CONSTANTS Surveys,     \* recordings tried: [acqs, tiles, gaps, waves]
          Queries,     \* selections tried
          BinRange,    \* bins of any acquisition
          Cells,       \* receiver cells; a fix is one of them
          NoFix,
          FrameTicks,  \* ticks of a frame
          Forever,     \* the last tick a recording or a selection may name
          MaxObservations,
          MaxBins, MaxGaps,    \* what analyze holds (65536 and 100000)
          MaxGroups, MaxCells, \* aggregate_limit, of time groups and of cells
          RowLimit             \* row_limit

VARIABLES survey, query,
          pass,     \* "analyze", "report", or how the report ended
          panel,    \* "filling", "shown" or "refused"
          cursor,   \* next tile
          result,   \* SurveyAnalysis
          sections, \* sections of the report written so far
          section,  \* the one being written
          rowsOut   \* Csv::rows, without the header

avars == <<survey, query, pass, panel, cursor, result, sections, section, rowsOut>>
\* The summaries of a report: one in each CSV report, several in the narrative one.
ReportSummaries == {{"frequency"}, {"time"}, {"geographic"}, {"frequency", "time"}, {"frequency", "time", "geographic"}}

EndOf(t) == t.start + Len(t.frames) * FrameTicks
Acq(t) == survey.acqs[t.acq]
Later(a, b) == IF a > b THEN a ELSE b
Sooner(a, b) == IF a < b THEN a ELSE b
Always == <<0, Forever>>
QueryEnd == IF query.to > 0 THEN query.to ELSE Forever
InRegion(fix) == query.region = {} \/ fix \in query.region
Overlaps(b) == 2 * b + 2 > query.lower /\ (query.upper = 0 \/ 2 * b < query.upper)

\* The bins of an acquisition that intersect the requested range.
BinsOf(a) == {b \in a.bins : Overlaps(b)}
Outside(a) == BinsOf(a) \ a.guard
Duration(iv) == Later(0, iv[2] - iv[1])
Meet(a, b) == <<Later(a[1], b[1]), Sooner(a[2], b[2])>>
Whole(t) == <<t.start, EndOf(t)>>

\* A frame, and its part in a clipped tile.
FrameFrom(t, f) == t.start + (f - 1) * FrameTicks
FrameTo(t, f) == t.start + f * FrameTicks
FramePart_Whole(t, f, clip) == <<FrameFrom(t, f), FrameTo(t, f)>>
FramePart(t, f, clip) == Meet(clip, <<FrameFrom(t, f), FrameTo(t, f)>>)

\* Time of the frames F of a clipped tile that lies in a group ...
FrameTime(t, clip, group, F) ==
  Total([f \in DOMAIN t.frames |-> IF f \in F THEN Duration(Meet(group, FramePart(t, f, clip))) ELSE 0])
\* ... of those with an active bin of B, and of all.
ActiveFrames(t, B) == {f \in DOMAIN t.frames : t.frames[f] \cap B # {}}
ActiveTime(t, clip, group, B) == FrameTime(t, clip, group, ActiveFrames(t, B))
ObservedTime(t, clip, group) == FrameTime(t, clip, group, DOMAIN t.frames)

\* The recorded extent comes from the first and the last tile and the gaps.
Recorded(s) == {Whole(s.tiles[i]) : i \in {1, Len(s.tiles)} \cap DOMAIN s.tiles}
                 \cup {s.gaps[i] : i \in DOMAIN s.gaps}
Extent(s) == IF Recorded(s) = {} THEN <<0, 0>>
             ELSE <<Min({p[1] : p \in Recorded(s)}), Max({p[2] : p \in Recorded(s)})>>

\* The resolved interval and the width of the display groups.
Resolved(s, q) ==
  LET e == Extent(s)
      clamp(x, lo, hi) == Later(lo, Sooner(x, hi))
      from == clamp(q.from, e[1], e[2])
      to == clamp(IF q.to > 0 THEN q.to ELSE e[2], from, e[2])
      coarse == (to - from) > MaxObservations * q.group
  IN  [from |-> from, to |-> to, coarse |-> coarse,
       width |-> IF coarse THEN (to - from) \div MaxObservations ELSE q.group]

\* Group k; the last one takes the rest of the interval.
Edges(r, k) ==
  <<r.from + k * r.width,
    IF k = MaxObservations - 1 THEN r.to ELSE Sooner(r.to, r.from + (k + 1) * r.width)>>

NoTime == [observed |-> 0, busy |-> 0, outside |-> 0]
EmptyResult == [total |-> NoTime, groups |-> [k \in 0..(MaxObservations - 1) |-> NoTime],
                bins |-> [b \in BinRange |-> NoTime], missing |-> 0, gaps |-> 0, waves |-> 0]
EmptySection == [times |-> NoTime, bins |-> [b \in BinRange |-> NoTime],
                 cells |-> [c \in Cells \cup {NoFix} |-> 0], groups |-> {}, rejected |-> 0, gaps |-> 0, acq |-> 0]

Added(v, t, clip, group) ==
  [observed |-> v.observed + ObservedTime(t, clip, group),
   busy |-> v.busy + ActiveTime(t, clip, group, BinsOf(Acq(t))),
   outside |-> v.outside + ActiveTime(t, clip, group, Outside(Acq(t)))]
AddedBin(v, t, clip, b) ==
  IF b \notin BinsOf(Acq(t)) THEN v
  ELSE [observed |-> v.observed + Duration(clip), busy |-> v.busy + ActiveTime(t, clip, Always, {b}),
        outside |-> v.outside]

BadQuery == \/ query.upper > 0 /\ query.upper <= query.lower
            \/ query.to > 0 /\ query.to <= query.from
Refuse == /\ pass = "analyze" /\ cursor = 1 /\ BadQuery
          /\ pass' = "refused" /\ UNCHANGED <<survey, query, panel, cursor, result, sections, section, rowsOut>>

\* A tile of the panel, clipped to the resolved interval.
PanelClip(t) == Meet(<<Resolved(survey, query).from, Resolved(survey, query).to>>, Whole(t))
InPanel(t) == Duration(PanelClip(t)) > 0 /\ InRegion(t.fix) /\ BinsOf(Acq(t)) # {}
BinsHeld == {b \in BinRange : result.bins[b].observed > 0}
TooManyBins(t) == InPanel(t) /\ Cardinality(BinsHeld \cup BinsOf(Acq(t))) > MaxBins

\* One tile of analyze.
AnalyzeTile ==
  /\ pass = "analyze" /\ cursor <= Len(survey.tiles) /\ ~BadQuery
  /\ ~TooManyBins(survey.tiles[cursor])
  /\ LET t == survey.tiles[cursor]
         r == Resolved(survey, query)
         clip == PanelClip(t)
     IN  result' = IF ~InPanel(t) THEN result ELSE
           [result EXCEPT
             !.total = [Added(result.total, t, clip, Always) EXCEPT
                          !.observed = result.total.observed + Duration(clip)],
             !.groups = [k \in 0..(MaxObservations - 1) |-> Added(result.groups[k], t, clip, Edges(r, k))],
             !.bins = [b \in BinRange |-> AddedBin(result.bins[b], t, clip, b)],
             !.missing = result.missing + IF t.fix = NoFix THEN Duration(clip) ELSE 0]
  /\ cursor' = cursor + 1
  /\ UNCHANGED <<survey, query, pass, panel, sections, section, rowsOut>>

\* The waveforms and gaps, read after the tiles: a waveform by the frequencies
\* it was inferred to occupy and its delimiter, a gap unless a region is asked for.
WaveSelected(w, from, to) ==
  /\ w.upper > query.lower /\ (query.upper = 0 \/ w.lower < query.upper)
  /\ w.at >= from /\ w.at < to /\ InRegion(w.fix)
GapsSelected == {i \in DOMAIN survey.gaps : /\ query.region = {}
                                           /\ survey.gaps[i][2] > query.from /\ survey.gaps[i][1] < QueryEnd}
EndAnalyze ==
  /\ pass = "analyze" /\ cursor > Len(survey.tiles) /\ ~BadQuery
  /\ Cardinality(GapsSelected) <= MaxGaps
  /\ result' = [result EXCEPT
       !.waves = Cardinality({w \in survey.waves : WaveSelected(w, query.from, QueryEnd)}),
       !.gaps = Cardinality(GapsSelected)]
  /\ panel' = "shown" /\ pass' = "report" /\ cursor' = 1
  /\ UNCHANGED <<survey, query, sections, section, rowsOut>>

\* analyze throws, and the panel stays empty; a report can still be asked for.
RefusePanel ==
  /\ pass = "analyze" /\ ~BadQuery
  /\ \/ cursor <= Len(survey.tiles) /\ TooManyBins(survey.tiles[cursor])
     \/ cursor > Len(survey.tiles) /\ Cardinality(GapsSelected) > MaxGaps
  /\ panel' = "refused" /\ result' = EmptyResult /\ pass' = "report" /\ cursor' = 1
  /\ UNCHANGED <<survey, query, sections, section, rowsOut>>

\* export_survey_report: the acquisitions with a tile in the selection.
Window(a) == Meet(<<query.from, QueryEnd>>, <<a.from, a.to>>)
InSelection(a) == Duration(Window(a)) > 0 /\ BinsOf(a) # {}
HasTile(n) ==
  \E i \in DOMAIN survey.tiles :
    LET t == survey.tiles[i] IN
    t.acq = n /\ InRegion(t.fix) /\ EndOf(t) > query.from /\ t.start < QueryEnd
Chosen == {n \in DOMAIN survey.acqs : InSelection(survey.acqs[n]) /\ HasTile(n)}
NextAcq(done) == Min({n \in Chosen : n > done})

\* The waveform report keeps every acquisition that meets the selection.
WaveformRows ==
  {w \in survey.waves : \E n \in DOMAIN survey.acqs :
     LET a == survey.acqs[n] IN
       InSelection(a) /\ WaveSelected(w, Window(a)[1], Window(a)[2])}

\* The acquisitions that are reported, in order; none is an error.
BeginSection ==
  /\ pass = "report" /\ section.acq = 0
  /\ IF Chosen = {} THEN pass' = "empty" /\ UNCHANGED section
     ELSE pass' = pass /\ section' = [EmptySection EXCEPT !.acq = NextAcq(0)]
  /\ UNCHANGED <<survey, query, panel, cursor, result, sections, rowsOut>>

\* The keys of AggregateReport's maps: cells by the fix of the tile, time
\* groups counted from the start of the acquisition's window.
CellsHeld(sec) == {c \in Cells \cup {NoFix} : sec.cells[c] > 0}
GroupAt(k, window) == (k - window[1]) \div query.group
GroupsTouched(clip, window) == {GroupAt(k, window) : k \in clip[1]..(clip[2] - 1)}

\* The bounds of AggregateReport on its groups G and its cells C (bucket,
\* time_value and consume), each in the reports with that summary.
TooMany(n, G, C) ==
  \/ "time" \in query.kinds /\ (Cardinality(G) > MaxGroups \/ \E g \in G : g >= RowLimit)
  \/ /\ "geographic" \in query.kinds
     /\ Cardinality(C) > MaxCells \/ Cardinality(C) * Cardinality(BinsOf(survey.acqs[n])) > RowLimit

SectionWindow == Window(survey.acqs[section.acq])
SectionClip(t) == Meet(SectionWindow, Whole(t))
TileOver(t) ==
  /\ Duration(SectionClip(t)) > 0 /\ InRegion(t.fix)
  /\ TooMany(section.acq, section.groups \cup GroupsTouched(SectionClip(t), SectionWindow),
             CellsHeld(section) \cup {t.fix})

\* AggregateReport::consume.  Each of the three summaries is added up here; a
\* report writes, and is bounded by, those of its kinds.
ReportTile ==
  /\ pass = "report" /\ section.acq # 0 /\ cursor <= Len(survey.tiles)
  /\ ~TileOver(survey.tiles[cursor])
  /\ LET t == survey.tiles[cursor]
         clip == SectionClip(t)
     IN  section' =
           IF Duration(clip) = 0 THEN section
           ELSE IF ~InRegion(t.fix)
           THEN [section EXCEPT !.rejected = @ + IF t.fix = NoFix THEN Duration(clip) ELSE 0]
           ELSE [section EXCEPT !.times = Added(section.times, t, clip, Always),
                                !.bins = [b \in BinRange |-> AddedBin(section.bins[b], t, clip, b)],
                                !.cells = [section.cells EXCEPT ![t.fix] = @ + Duration(clip)],
                                !.groups = section.groups \cup GroupsTouched(clip, SectionWindow)]
  /\ cursor' = cursor + 1
  /\ UNCHANGED <<survey, query, pass, panel, result, sections, rowsOut>>

\* AggregateReport::write: the tiles, in the region or not, and the gaps of the
\* window; the groups from the earliest to the latest; the rows of the section,
\* whose cells are C.
Spanned(n) ==
  LET window == Window(survey.acqs[n])
  IN  {p \in {Meet(window, Whole(survey.tiles[i])) : i \in DOMAIN survey.tiles}
               \cup {Meet(window, survey.gaps[i]) : i \in DOMAIN survey.gaps} : Duration(p) > 0}
GroupsSpanned(n) ==
  LET at(k) == GroupAt(k, Window(survey.acqs[n]))
  IN  {g \in 0..Forever : \E p, q \in Spanned(n) : at(p[1]) <= g /\ g <= at(q[2] - 1)}
LateGroup(n) == \E p \in Spanned(n) : GroupAt(p[2] - 1, Window(survey.acqs[n])) >= RowLimit
RowsOf(n, C) ==
  IF query.kinds = {"time"} THEN Cardinality(GroupsSpanned(n))
  ELSE IF query.kinds = {"frequency"} THEN Cardinality(BinsOf(survey.acqs[n]))
  ELSE IF query.kinds = {"geographic"} THEN Cardinality(C) * Cardinality(BinsOf(survey.acqs[n])) ELSE 0
WriteOver ==
  \/ query.kinds = {"time"} /\ LateGroup(section.acq)
  \/ rowsOut + RowsOf(section.acq, CellsHeld(section)) > RowLimit

GapTime(window) == Total([i \in DOMAIN survey.gaps |-> Duration(Meet(window, survey.gaps[i]))])

\* The gaps of the section; then the next acquisition, or the end.
EndSection ==
  /\ pass = "report" /\ section.acq # 0 /\ cursor > Len(survey.tiles) /\ ~WriteOver
  /\ LET more == \E n \in Chosen : n > section.acq
     IN  /\ sections' = Append(sections, [section EXCEPT !.gaps = GapTime(SectionWindow)])
         /\ section' = IF more THEN [EmptySection EXCEPT !.acq = NextAcq(section.acq)] ELSE EmptySection
         /\ pass' = IF more THEN pass ELSE "done"
  /\ rowsOut' = rowsOut + RowsOf(section.acq, CellsHeld(section))
  /\ cursor' = 1
  /\ UNCHANGED <<survey, query, panel, result>>

\* The report throws: write_report_file keeps nothing of it.
Abandon(reason) ==
  /\ pass' = reason /\ section' = EmptySection /\ sections' = <<>> /\ rowsOut' = 0
  /\ UNCHANGED <<survey, query, panel, cursor, result>>
RefuseReport ==
  /\ pass = "report" /\ section.acq # 0
  /\ \/ cursor <= Len(survey.tiles) /\ TileOver(survey.tiles[cursor])
     \/ cursor > Len(survey.tiles) /\ WriteOver
  /\ Abandon("limit")

\* HtmlReport::raw: the bytes of a page are not modelled, so that any section of
\* a narrative report may be beyond their bound.
PageTooLong ==
  /\ pass = "report" /\ section.acq # 0 /\ cursor > Len(survey.tiles) /\ Cardinality(query.kinds) > 1
  /\ Abandon("page")

AnalysisInit ==
  /\ survey \in Surveys /\ query \in Queries
  /\ pass = "analyze" /\ panel = "filling" /\ cursor = 1 /\ result = EmptyResult
  /\ sections = <<>> /\ section = EmptySection /\ rowsOut = 0

AnalysisNext == \/ Refuse \/ AnalyzeTile \/ EndAnalyze \/ RefusePanel \/ BeginSection \/ ReportTile \/ EndSection
                \/ RefuseReport \/ PageTooLong
AnalysisSpec == AnalysisInit /\ [][AnalysisNext]_avars

(***************************************************************************)
(* What a reader accepts: it throws on acquisitions or tiles that are out  *)
(* of order or overlap and on a record outside its acquisition             *)
(* (storage.cpp 748-751, 993-995, 1289-1293, 1511-1512; include_extent).   *)
(***************************************************************************)
Ticks == 0..Forever
AcqsOk(s) ==
  /\ s.acqs \in Seq([from : Ticks, to : Ticks, bins : SUBSET BinRange, guard : SUBSET BinRange])
  /\ \A i, j \in DOMAIN s.acqs : i < j => s.acqs[i].to <= s.acqs[j].from
TilesOk(s) ==
  /\ s.tiles \in Seq([acq : DOMAIN s.acqs, start : Ticks, frames : Seq(SUBSET BinRange),
                      fix : Cells \cup {NoFix}])
  /\ \A i \in DOMAIN s.tiles : /\ s.acqs[s.tiles[i].acq].from <= s.tiles[i].start
                              /\ EndOf(s.tiles[i]) <= s.acqs[s.tiles[i].acq].to
  /\ \A i, j \in DOMAIN s.tiles : i < j => EndOf(s.tiles[i]) <= s.tiles[j].start
\* A waveform need only meet the frequencies of its acquisition.
WavesOk(s) ==
  /\ IsFiniteSet(s.waves)
  /\ \A w \in s.waves : /\ w.at \in Ticks
                        /\ \E n \in DOMAIN s.acqs : /\ s.acqs[n].from <= w.at /\ w.at <= s.acqs[n].to
                                                   /\ \E b \in s.acqs[n].bins : w.upper > 2 * b /\ w.lower < 2 * b + 2
ASSUME AnalysisAssumption ==
  /\ FrameTicks \in Nat \ {0} /\ Forever \in Nat /\ MaxObservations \in Nat \ {0}
  /\ IsFiniteSet(BinRange) /\ IsFiniteSet(Cells)
  /\ MaxBins \in Nat /\ MaxGaps \in Nat /\ MaxGroups \in Nat /\ MaxCells \in Nat /\ RowLimit \in Nat
  /\ \A s \in Surveys : AcqsOk(s) /\ TilesOk(s) /\ WavesOk(s) /\ s.gaps \in Seq(Ticks \X Ticks)
  /\ Queries \subseteq [from : Ticks, to : Ticks, lower : Nat, upper : Nat, region : SUBSET Cells,
                       group : Nat \ {0}, kinds : ReportSummaries]
-----------------------------------------------------------------------------
\* Reference: the selected ticks, each with its tile and frame.
TileOf(m) == survey.tiles[m.tile]
Active(m) == TileOf(m).frames[m.frame]
TicksOf(t, f) == {k \in FrameFrom(t, f)..(FrameTo(t, f) - 1) : k >= query.from /\ k < QueryEnd}
Counted == {i \in DOMAIN survey.tiles : InRegion(survey.tiles[i].fix) /\ BinsOf(Acq(survey.tiles[i])) # {}}
MeasuredIn(i, f) == {[tile |-> i, frame |-> f, at |-> k] : k \in TicksOf(survey.tiles[i], f)}
Measured == UNION {UNION {MeasuredIn(i, f) : f \in DOMAIN survey.tiles[i].frames} : i \in Counted}

BusyIn(S) == {m \in S : Active(m) \cap BinsOf(Acq(TileOf(m))) # {}}
BusyOutside(S) == {m \in S : Active(m) \cap Outside(Acq(TileOf(m))) # {}}
WithBin(S, b) == {m \in S : b \in BinsOf(Acq(TileOf(m)))}
WithFix(S, c) == {m \in S : TileOf(m).fix = c}
During(S, iv) == {m \in S : m.at >= iv[1] /\ m.at < iv[2]}
TimesOf(S) == [observed |-> Cardinality(S), busy |-> Cardinality(BusyIn(S)),
               outside |-> Cardinality(BusyOutside(S))]
BinBusy(S, b) == {m \in WithBin(S, b) : b \in Active(m)}
BinTimes(S, b) == [observed |-> Cardinality(WithBin(S, b)), busy |-> Cardinality(BinBusy(S, b)), outside |-> 0]

\* The panel shows the measurements S, and the sections written add up to them.
PanelShows(S) ==
  /\ result.total = TimesOf(S)
  /\ \A b \in BinRange : result.bins[b] = BinTimes(S, b)
  /\ \A k \in 0..(MaxObservations - 1) :
       result.groups[k] = TimesOf(During(S, Edges(Resolved(survey, query), k)))
SectionsShow(S) ==
  /\ Total([i \in DOMAIN sections |-> sections[i].times.observed]) = Cardinality(S)
  /\ Total([i \in DOMAIN sections |-> sections[i].times.busy]) = Cardinality(BusyIn(S))
  /\ Total([i \in DOMAIN sections |-> sections[i].times.outside]) = Cardinality(BusyOutside(S))
  /\ \A b \in BinRange :
       Total([i \in DOMAIN sections |-> sections[i].bins[b].busy]) = Cardinality(BinBusy(S, b))
  /\ \A c \in Cells \cup {NoFix} :
       Total([i \in DOMAIN sections |-> sections[i].cells[c]]) = Cardinality(WithFix(S, c))

\* The bounds, of what was measured.
OfAcq(S, n) == {m \in S : TileOf(m).acq = n}
GroupsIn(S) == {GroupAt(m.at, Window(Acq(TileOf(m)))) : m \in S}
FixesIn(S) == {TileOf(m).fix : m \in S}
BinsIn(S) == {b \in BinRange : WithBin(S, b) # {}}
PanelOver == Cardinality(BinsIn(Measured)) > MaxBins \/ Cardinality(GapsSelected) > MaxGaps
SectionOver(n) == \/ TooMany(n, GroupsIn(OfAcq(Measured, n)), FixesIn(OfAcq(Measured, n)))
                  \/ query.kinds = {"time"} /\ LateGroup(n)
RowsBefore(k) == Total([n \in DOMAIN survey.acqs |->
                          IF n \in Chosen /\ n < k THEN RowsOf(n, FixesIn(OfAcq(Measured, n))) ELSE 0])
ReportOver == (\E n \in Chosen : SectionOver(n)) \/ RowsBefore(Len(survey.acqs) + 1) > RowLimit

\* Waveforms of the selection whose acquisition lies beyond the requested
\* frequencies, or ended with their delimiter.
Strays == {w \in survey.waves :
             /\ WaveSelected(w, query.from, QueryEnd)
             /\ \A n \in DOMAIN survey.acqs :
                  w.at \in survey.acqs[n].from..(survey.acqs[n].to - 1) => BinsOf(survey.acqs[n]) = {}}

\* What the panel and a finished report say of a selection is what was measured
\* in it, all of it: no frame is counted twice or beyond the selection at a
\* tile, a group or an acquisition boundary; the groups partition the total,
\* however coarse; the panel and the report are refused exactly when what was
\* measured is beyond one of their bounds, never shortened, and a report for
\* lack of acquisitions only when nothing was measured.  The waveform report
\* leaves out, of the waveforms the panel counts, the strays
\* (storage.cpp analyze, report.cpp consume, write and export_survey_report).
SummariesExact ==
  /\ panel = "shown" =>
       /\ PanelShows(Measured) /\ ~PanelOver
       /\ Total([k \in 1..MaxObservations |-> result.groups[k - 1].observed]) = result.total.observed
       /\ result.waves = Cardinality(WaveformRows) + Cardinality(Strays)
  /\ panel = "refused" => PanelOver
  /\ pass = "empty" => Measured = {}
  /\ pass = "limit" => ReportOver
  /\ pass = "done" => SectionsShow(Measured) /\ ~ReportOver
=============================================================================
