------------------------------ MODULE MCParts ------------------------------
(***************************************************************************)
(* The sequential components, one at a time: the initial state chooses     *)
(* which one is exercised, and the others keep their initial state.        *)
(***************************************************************************)
EXTENDS SpectrumEvents, BurstGrouper, DiscoveryDecoder, DiscoveryObservations,
        Settings, SessionDisk, DeviceIdentity, SurveyAnalysis, SurveyExport, TLC

VARIABLE part

Parts == {"events", "bursts", "decoder", "observations", "settings", "disk",
          "identity", "analysis", "export"}

\* Activity of a tile: bin -> frames.
Tile(f) == [b \in BinSet |-> IF b \in DOMAIN f THEN f[b] ELSE {}]
MCTiles ==
  {Tile(<<>>), Tile((0 :> 0..3) @@ (1 :> 0..3)), Tile((0 :> 0..3) @@ (5 :> 0..3)),
   Tile((0 :> {0, 1}) @@ (5 :> {2, 3})), Tile((1 :> 0..3) @@ (3 :> {1, 2}) @@ (5 :> 0..1)),
   Tile((6 :> {0, 1}) @@ (7 :> {0, 3})), Tile((3 :> {2}) @@ (4 :> {1, 3}))}

MCWaveforms ==
  {[owner |-> o, excluded |-> FALSE, id |-> 1] : o \in {"s", "t", "none"}} \cup
  {[owner |-> "s", excluded |-> TRUE, id |-> 1], [owner |-> "s", excluded |-> FALSE, id |-> 2]}

MCOffsets == {-100, 50}
MCSerial == [u \in Units |-> IF u = "u3" THEN "unique" ELSE "twin"]
MCExtension == ("r.csv" :> "csv") @@ ("r.geojson" :> "geojson") @@ ("r.png" :> "png")

\* A survey of no tile, one or two, in one acquisition or two with other bins.
MCAcqs == <<[from |-> 0, to |-> 18, bins |-> 0..2, guard |-> {1}],
            [from |-> 20, to |-> 30, bins |-> 1..3, guard |-> {2}]>>
SurveyTile(a, s, f, x) == [acq |-> a, start |-> s, frames |-> f, fix |-> x]
Activity(a) == IF a = 1 THEN {<<{}, {0}>>, <<{1}, {0, 1}>>, <<{2}, {}>>} ELSE {<<{2}, {3}>>, <<{1, 2}, {}>>}
MCFixes == Cells \cup {NoFix}
MCTilings ==
  {<<>>} \cup
  {<<SurveyTile(1, 0, f, x)>> : f \in Activity(1), x \in MCFixes} \cup
  {<<SurveyTile(1, 0, f, x), SurveyTile(1, s, <<{0}, {2}>>, "c2")>> : f \in Activity(1), x \in MCFixes, s \in {8, 10}} \cup
  {<<SurveyTile(1, 0, f, "c1"), SurveyTile(2, 20, h, x)>> : f \in Activity(1), h \in Activity(2), x \in MCFixes} \cup
  {<<SurveyTile(1, 0, <<{0}>>, "c1"), SurveyTile(1, 4, <<{1}>>, "c2"), SurveyTile(1, 8, <<{}, {2}>>, x)>> : x \in MCFixes}
MCSurveys ==
  {[acqs |-> MCAcqs, gaps |-> g, tiles |-> ts,
    waves |-> {[lower |-> 2, upper |-> 4, at |-> 3, fix |-> "c1"], [lower |-> 5, upper |-> 7, at |-> 4, fix |-> "c1"],
               [lower |-> 6, upper |-> 9, at |-> 22, fix |-> NoFix], [lower |-> 3, upper |-> 4, at |-> 18, fix |-> "c1"]}] :
   g \in {<<>>, <<<<8, 10>>>>, <<<<8, 10>>, <<16, 17>>>>}, ts \in MCTilings}
MCQueries ==
  {[from |-> q[1], to |-> q[2], lower |-> q[3], upper |-> q[4], region |-> r, group |-> k[1], kinds |-> k[2]] :
     q \in {<<0, 0, 0, 0>>, <<2, 0, 0, 0>>, <<2, 10, 0, 4>>, <<0, 22, 6, 0>>, <<4, 26, 1, 6>>, <<6, 6, 0, 0>>,
            <<18, 0, 0, 2>>},
     r \in {{}, {"c1"}},
     k \in {<<2, {"time"}>>, <<16, {"time"}>>, <<2, {"frequency"}>>, <<16, {"geographic"}>>, <<2, {"frequency", "time"}>>,
            <<16, {"frequency", "time", "geographic"}>>}}

\* A component not under test is left in one of its initial states.
Rest(p) == part # p
AnalysisRest == /\ survey = CHOOSE s \in Surveys : TRUE
                /\ query = CHOOSE q \in Queries : TRUE
MCInit ==
  /\ part \in Parts
  /\ EventsInit /\ BurstsInit /\ DecoderInit /\ ObservationsInit /\ DiskInit /\ IdentityInit
  /\ (Rest("settings") => diskNow = NoFile) /\ SettingsInit
  /\ (Rest("export") => engineOn = 1) /\ ExportInit
  /\ (Rest("analysis") => AnalysisRest) /\ AnalysisInit

Still(p, vars) == part # p => UNCHANGED vars
MCNext ==
  /\ UNCHANGED part
  /\ Still("events", evars) /\ Still("bursts", bvars) /\ Still("decoder", cvars)
  /\ Still("observations", ovars) /\ Still("settings", svars) /\ Still("disk", dvars)
  /\ Still("identity", ivars) /\ Still("analysis", avars) /\ Still("export", xvars)
  /\ \/ part = "events" /\ EventsNext
     \/ part = "bursts" /\ BurstsNext
     \/ part = "decoder" /\ DecoderNext
     \/ part = "observations" /\ ObservationsNext
     \/ part = "settings" /\ SettingsNext
     \/ part = "disk" /\ DiskNext
     \/ part = "identity" /\ IdentityNext
     \/ part = "analysis" /\ AnalysisNext
     \/ part = "export" /\ ExportNext
=============================================================================
