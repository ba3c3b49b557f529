------------------------------ MODULE RackChart ------------------------------
(***************************************************************************)
(* The chart of the rack view: a bar or a point for each value of the      *)
(* metric that the level, the filter and the selection let through         *)
(* (LBC.js, IRVChart.js). It is drawn again by every write of what it      *)
(* depends on; the mouse and its timers, hiding and showing it, and the    *)
(* updates of the racks come between.                                      *)
(***************************************************************************)
EXTENDS SimpleChart, SequencesExt

CONSTANTS
  Components,   \* charted components, named by their ids
  LevelOf,      \* the class of a component
  Levels,       \* metric levels: sets of classes
  Metrics,      \* metrics with a template
  Answers,      \* the values of an answer: functions from components
  Picks,      \* selections and filters: sets of components, or None
  Places,       \* states of the racks: the positions of the components in them
  Longest,      \* bound on the charts the search is checked on
  BarLimit,     \* the most bars the width of the chart leaves room for
  None

ASSUME ComponentsAssumption ==
  /\ IsFiniteSet(Components) /\ Components \subseteq Int
  /\ None \notin Components \cup Metrics /\ Levels # {}
  /\ \A f \in Answers \cup Places : \E D \in SUBSET Components : f \in [D -> Int]
  /\ Picks \subseteq (SUBSET Components) \cup {None}
  /\ BarLimit \in Nat /\ Longest \in Nat

VARIABLE chart     \* what the chart depends on, and the chart

Orders == {"ascending", "descending", "physical position"}
Blank == [metric |-> None, values |-> <<>>]
NoTimer == [on |-> FALSE, coords |-> <<>>]

InitChart ==
  \E place \in Places :
    chart = [metric |-> None, data |-> Blank, mapped |-> {}, level |-> CHOOSE l \in Levels : TRUE,
             order |-> "descending", selection |-> None, filter |-> None, place |-> place,
             shown |-> TRUE,
             coords |-> <<>>,       \* the data of the chart as drawn: none without a chart
             drawn |-> FALSE,       \* this.data is set: a chart was drawn before
             wide |-> TRUE,         \* the canvas has a size
             resize |-> FALSE,      \* layoutTmr is running
             pos |-> place,         \* posLookup
             hint |-> None,         \* the datum of the tooltip: over when there is one
             lit |-> {},            \* highlighted by the chart
             timer |-> FALSE,       \* mouseMoveTmr is running
             late |-> NoTimer]      \* and that of a chart destroyed meanwhile
------------------------------------------------------------------------------
Passes(c, choice) == choice = None \/ c \in choice

Included(t, c) ==
  /\ LevelOf[c] \in t.level
  /\ Passes(c, t.selection) /\ Passes(c, t.filter)
  /\ c \in DOMAIN t.place

\* a metric without colour map throws where the data are collected
Drawable(t) == t.metric = t.data.metric /\ t.metric \in t.mapped

DataSet(t) == IF Drawable(t) THEN {c \in DOMAIN t.data.values : Included(t, c)} ELSE {}

\* an unknown position: the sort is then left open, and 0 one of its results
Key(t, c, pos) ==
  CASE t.order = "ascending" -> t.data.values[c]
    [] t.order = "descending" -> -t.data.values[c]
    [] OTHER -> IF c \in DOMAIN pos THEN pos[c] ELSE 0

\* a stable sort of the data, which come by id
Arranged(D, key) ==
  CHOOSE q \in [1..Cardinality(D) -> D] :
    \A i, j \in DOMAIN q :
      i < j => key[q[i]] < key[q[j]] \/ (key[q[i]] = key[q[j]] /\ q[i] < q[j])
Sorted(t, pos) == Arranged(DataSet(t), [c \in DataSet(t) |-> Key(t, c, pos)])

IsLine(t) == Len(t.coords) > BarLimit
AxisOf(t) ==
  LET vals == {t.data.values[c] : c \in ToSet(t.coords)} IN AxisRange(Max(vals), Min(vals))
------------------------------------------------------------------------------
(* The chart. Steps of a handler take a state to a state. *)

\* Mutant: the listeners are not told
HideQuietly(t) == [t EXCEPT !.hint = None]
HideTooltip(t) ==
  IF t.hint = None THEN t ELSE [t EXCEPT !.hint = None, !.lit = @ \ {t.hint}]

\* the datum before is forgotten, not its highlight
ShowTooltip(t, c) == [t EXCEPT !.hint = c, !.lit = @ \cup ({c} \cap DOMAIN t.place)]

\* Mutant: the destroyed chart keeps its coordinates
DestroyKeepsCoords(t) ==
  HideTooltip([t EXCEPT !.coords = <<>>, !.timer = FALSE,
                        !.late = IF t.timer THEN [on |-> TRUE, coords |-> t.coords] ELSE @])
\* the chart is emptied and its listener taken away, its timer goes on
Destroy(t) ==
  HideTooltip([t EXCEPT !.coords = <<>>, !.timer = FALSE,
                        !.late = IF t.timer THEN [on |-> TRUE, coords |-> <<>>] ELSE @])
Clear(t) == IF t.coords = <<>> THEN t ELSE Destroy(t)

Update(t) ==
  LET u == Clear(t)
  IN IF u.wide THEN [u EXCEPT !.coords = Sorted(u, u.pos), !.drawn = @ \/ Drawable(u)] ELSE u

\* the subscriptions of a hidden chart are disposed of
Notify(t) == IF t.shown THEN Update(t) ELSE t

UpdateLayout(t) ==
  LET u == [t EXCEPT !.wide = t.shown, !.resize = FALSE]
  IN IF u.drawn THEN Update(u) ELSE u

\* the points of a line that the mouse may find, as high as they may be
SomePoint(n, x) == UNION {HoverLine(n, x, rise) : rise \in [1..n -> Rises]}

\* above the axis the tooltip closes before another opens
HoverDatum(t, coords, x) ==
  LET n == Len(coords)
      over == IF n = 0 THEN {} ELSE IF n > BarLimit THEN SomePoint(n, x) ELSE HoverBar(n, x)
  IN {HideTooltip(t)} \cup {ShowTooltip(HideTooltip(t), coords[k]) : k \in over}

\* among the labels of the bars it does not; one bar alone throws
HoverLabels(t, coords, x) ==
  {HideTooltip(t)} \cup (IF Len(coords) \in 2..BarLimit
                         THEN {ShowTooltip(t, coords[k]) : k \in HoverLabel(Len(coords), x)}
                         ELSE {t})
------------------------------------------------------------------------------
(* Actions: what the rest of the view writes *)

SwitchMetric ==
  /\ \E m \in (Metrics \cup {None}) \ {chart.metric} :
       chart' = Notify([chart EXCEPT !.metric = m, !.data = Blank, !.filter = None,
                                     !.selection = IF m = None THEN None ELSE @])

\* an answer for a metric that may have been left, with its map and its filter
DisplayMetrics ==
  /\ \E m \in Metrics, a \in Answers, f \in Picks :
       chart' = Notify([chart EXCEPT !.data = [metric |-> m, values |-> a], !.mapped = @ \cup {m},
                                     !.filter = f])

\* a poll rate of zero
StopPolls == chart.metric # None /\ chart' = Clear(Notify([chart EXCEPT !.data = Blank]))

\* a preset brings its own maps
WriteMaps == \E maps \in SUBSET Metrics : chart' = Notify([chart EXCEPT !.mapped = maps])

Select == \E choice \in Picks : chart' = Notify([chart EXCEPT !.selection = choice])
Filter == \E choice \in Picks : chart' = Notify([chart EXCEPT !.filter = choice])
SetMetricLevel == \E l \in Levels : chart' = Notify([chart EXCEPT !.level = l])
SetOrder == \E o \in Orders \ {chart.order} : chart' = Notify([chart EXCEPT !.order = o])

Remaining(choice, place) ==
  IF choice = None \/ choice \cap DOMAIN place = {} THEN None ELSE choice \cap DOMAIN place

\* a live update: the racks and their highlights are made anew, what is gone
\* leaves the selection, and the chart is drawn, hidden or not
Synchronise(t, place) ==
  Update([t EXCEPT !.place = place, !.pos = IF t.shown THEN place ELSE @, !.lit = {},
                   !.selection = Remaining(@, place)])
UpdateRacks == \E place \in Places : chart' = Synchronise(chart, place)

ShowChart ==
  \/ ~chart.shown /\ chart' = [chart EXCEPT !.shown = TRUE, !.resize = TRUE]
  \/ chart.shown /\ chart' = [Clear(chart) EXCEPT !.shown = FALSE, !.resize = TRUE]

Resize == ~chart.resize /\ chart' = [chart EXCEPT !.resize = TRUE]
SetLayout == chart.resize /\ chart' = UpdateLayout(chart)

(* The mouse *)

MouseMove ==
  chart.coords # <<>> /\ chart.shown /\ ~chart.timer /\ chart' = [chart EXCEPT !.timer = TRUE]

Edge(coords) == Width * Len(coords)
TestHover ==
  /\ chart.timer
  /\ LET t == [chart EXCEPT !.timer = FALSE]
     IN \E x \in 0..Edge(chart.coords) :
          chart' \in HoverDatum(t, chart.coords, x) \cup HoverLabels(t, chart.coords, x)

\* a destroyed chart has no tooltip of its own to close, and throws
LateHover ==
  /\ chart.late.on
  /\ LET t == [chart EXCEPT !.late = NoTimer]
     IN \E x \in 0..Edge(chart.late.coords) :
          chart' \in IF chart.late.coords = <<>> THEN {t} ELSE HoverDatum(t, chart.late.coords, x)

ChartNext ==
  \/ SwitchMetric \/ DisplayMetrics \/ StopPolls \/ WriteMaps \/ Select \/ Filter
  \/ SetMetricLevel \/ SetOrder \/ UpdateRacks
  \/ ShowChart \/ Resize \/ SetLayout \/ MouseMove \/ TestHover \/ LateHover

ChartSpec == InitChart /\ [][ChartNext]_chart
------------------------------------------------------------------------------
\* a point next to the mouse, or above or below it, and near enough
InReach(n, x, rise) ==
  {j \in 1..n : /\ Dots(n)[j] \in (x - Gap)..(x + Gap)
                /\ SquaredDistance(n, x, rise, j) <= Square(Radius)}

SearchIsSound ==
  \A n \in 1..Longest :
    /\ \A x \in 0..(Width * n) : \E k \in HoverBar(n, x) : OverBar(x, k)
    /\ \A x \in 0..(Gap * n), rise \in [1..n -> Rises] :
         \A j \in InReach(n, x, rise) :
           \E k \in HoverLine(n, x, rise) :
             SquaredDistance(n, x, rise, k) <= SquaredDistance(n, x, rise, j)

ChartTypeOK ==
  /\ chart.metric \in Metrics \cup {None} /\ chart.mapped \subseteq Metrics
  /\ chart.order \in Orders
  /\ chart.level \in Levels /\ chart.place \in Places /\ chart.pos \in Places
  /\ ToSet(chart.coords) \subseteq Components /\ chart.lit \subseteq DOMAIN chart.place
  /\ chart.hint \in Components \cup {None}

(* A chart that is shown and laid out has a datum for each value to be shown,
   in order, whatever was written last (update and its subscriptions). Before
   it was drawn for the first time it may be empty, and the positions of racks
   that changed while it was hidden are not known. *)
ChartIsCurrent ==
  /\ chart.shown /\ ~chart.resize /\ chart.drawn
  /\ chart.order = "physical position" => chart.pos = chart.place
  => chart.coords = Sorted(chart, chart.place)

(* The tooltip is about a datum of the chart on the canvas, also when the timer
   of the mouse ends after the chart was drawn again (destroy, testHover). *)
TooltipIsOfABar == chart.hint # None => chart.hint \in ToSet(chart.coords)

(* When the tooltip closes, by the mouse, a redraw or the end of the chart, its
   device is not highlighted any more (evHideHint). *)
HintLeavesNoMark == [][chart.hint # None /\ chart'.hint = None => chart.hint \notin chart'.lit]_chart

(* The search finds the bar that the mouse is over. In a line it finds a point
   whenever one of those next to the mouse on either side is within the radius,
   and none of these is nearer, in a chart of any length up to Longest, however
   high its points (testHoverBar, testHoverLine, binaryIndexOf). A point further
   to the left or the right may well be nearer: the search does not look at it. *)
HoverFindsTheDatum == chart.coords # <<>> => SearchIsSound

(* The axis holds every value, gives each but zero a height, and has labels
   that are neither missing nor closer than their distance (getAxisRange,
   getLabels). *)
AxisHoldsTheData ==
  chart.coords # <<>> /\ chart.coords = Sorted(chart, chart.pos) =>
    LET axis == AxisOf(chart)
        labels == Labels(axis.low, axis.high)
    IN /\ \A c \in ToSet(chart.coords) :
            LET v == chart.data.values[c]
            IN axis.low <= v /\ v <= axis.high /\ (v # 0 => axis.low < v)
       /\ labels # {}
       /\ \A a, b \in labels : a < b => (b - a) * Room > (axis.high - axis.low) * Unit

(* The chart has a datum for each value, an axis that holds it, and a tooltip
   that is about one of them; the search looks at those next to the mouse. *)
ChartSafety ==
  ChartTypeOK /\ ChartIsCurrent /\ TooltipIsOfABar /\ HoverFindsTheDatum /\ AxisHoldsTheData
==============================================================================
