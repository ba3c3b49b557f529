---------------------------- MODULE RackMetrics ----------------------------
(***************************************************************************)
(* The metric shown on the rack view: the poller that asks for its values, *)
(* the answers, the colour map and the value filter of each metric, and    *)
(* the filter bar that edits both (IRVController.js, FilterBar.js).        *)
(*                                                                         *)
(* Knockout calls the subscribers of an observable while it is written, so *)
(* a write and what it notifies is one operator on the record of the view  *)
(* model, and a handler is a chain of them. Values are small numbers. What *)
(* the filter does to the selection is in RackSelection.                   *)
(***************************************************************************)
EXTENDS Integers, Sequences, FiniteSets

CONSTANTS
  Devices,       \* devices with or without a value of a metric
  Metrics,       \* metrics a request can ask for
  Valid,         \* those among them that the metric templates define
  Answers,       \* values an answer can hold: functions from devices
  Top,           \* the largest value
  MaxWire,       \* bound on the requests of one metric without an answer
  MaxRequests    \* bound on what the user does

ASSUME MetricsAssumption ==
  /\ Valid \subseteq Metrics /\ {"none", "failed"} \cap Metrics = {}
  /\ \A a \in Answers : \E D \in SUBSET Devices : a \in [D -> 0..Top]
  /\ Top \in Nat /\ MaxWire \in Nat \ {0} /\ MaxRequests \in Nat

VARIABLES
  model,      \* ViewModel, with the poller and the filter bar that follow it
  due,        \* dispTmr is running: the answer that it will display
  drag,       \* a slider of the filter bar is dragged
  requests    \* what the user did so far

metricVars == <<model, due, drag, requests>>

None     == "none"
Failed   == "failed"      \* the metricId of an answer without a body
Named    == Metrics \cup {Failed}
Off      == -1            \* no bound
NoFilter == [min |-> Off, max |-> Off]
Unset    == [min |-> -2, max |-> -2]      \* never written
NoMap    == [low |-> Off, high |-> Off, olow |-> Off, ohigh |-> Off]
Empty    == <<>>
Blank    == [metric |-> None, values |-> Empty]
NoDrag   == [on |-> FALSE, fixed |-> Off, sync |-> FALSE]
Bounded(f) == f.min > Off \/ f.max > Off
Whole(m)   == [min |-> m.low, max |-> m.high]
Within(f, m) == [min |-> IF f.min > Off THEN f.min ELSE m.low,
                 max |-> IF f.max > Off THEN f.max ELSE m.high]
---------------------------------------------------------------------------
(* Writes to the view model and those they notify *)

Satisfying(f, values) ==
  {d \in DOMAIN values : (f.min > Off => values[d] > f.min)
                         /\ (f.max > Off => values[d] < f.max)}

\* a filter that was never written throws
ApplyFilter(v) ==
  LET f == v.filters[v.selected]
  IN IF f = Unset THEN v
     ELSE IF Bounded(f) /\ DOMAIN v.data.values # {}
     THEN [v EXCEPT !.active = TRUE, !.filtered = Satisfying(f, v.data.values)]
     ELSE [v EXCEPT !.active = FALSE, !.filtered = IF Bounded(f) \/ v.active THEN {} ELSE @]

\* FilterBar: the bar holds the map of a metric, and goes on holding it,
\* hidden, when a metric is selected that has no map yet
SetFilter(v) ==
  IF v.bar.of = None THEN v
  ELSE [v EXCEPT !.bar.filter = Within(v.filters[v.selected], v.maps[v.bar.of])]
SetMap(v) ==
  IF v.selected = None \/ v.maps[v.selected] = NoMap THEN [v EXCEPT !.bar.shown = FALSE]
  ELSE [v EXCEPT !.bar = [of     |-> v.selected, shown |-> TRUE,
                          filter |-> Within(v.filters[v.selected], v.maps[v.selected])]]

\* what throws keeps the bar from being told
WriteFilters(v, fs) ==
  LET w == [v EXCEPT !.filters = fs]
  IN IF fs[v.selected] = Unset THEN w ELSE SetFilter(ApplyFilter(w))

\* data on the page whose metric has no map throws
WriteMaps(v, ms) ==
  LET w == [v EXCEPT !.maps = ms]
  IN IF DOMAIN v.data.values # {} /\ ms[v.data.metric] = NoMap THEN w ELSE SetMap(w)

ResetFilter(v) ==
  WriteFilters([v EXCEPT !.active = FALSE, !.filtered = {}],
               [v.filters EXCEPT ![v.selected] = NoFilter])

\* one more request of the selected metric
Poll(v) == [v.wire EXCEPT ![v.selected] = @ + 1]

\* Mutant: one poll and no interval.
ResetMetricPollerOnce(v) ==
  IF v.loading THEN v ELSE
  [v EXCEPT !.timer = FALSE, !.wire = IF v.rate # 0 /\ v.selected # None THEN Poll(v) ELSE @]
\* clears the interval, and polls at once and again if there is a metric;
\* a preset that is being loaded calls it at its end
ResetMetricPoller(v) ==
  LET on == v.rate # 0 /\ v.selected # None
  IN IF v.loading THEN v ELSE [v EXCEPT !.timer = on, !.wire = IF on THEN Poll(v) ELSE @]
---------------------------------------------------------------------------
(* The filter bar *)

\* bounds at the end of the map are none
Narrowed(f, m) == [min |-> IF f.min \notin {m.low, m.high} THEN f.min ELSE Off,
                   max |-> IF f.max \notin {m.low, m.high} THEN f.max ELSE Off]

\* the filter of the bar goes to the model; its own subscription is muted
UpdateFilter(v) ==
  LET f == Narrowed(v.bar.filter, v.maps[v.bar.of])
      w == ApplyFilter([v EXCEPT !.filters[v.selected] = f])
  IN [w EXCEPT !.active = Bounded(f)]

\* the bar does not reset the map it holds: getSelectedPreset throws
Throws(v) == v.preset # None /\ v.bar.of # None

Original(m) == [m EXCEPT !.low = m.olow, !.high = m.ohigh]
ResetFilters(v) ==
  IF v.bar.of = None \/ Throws(v) THEN v
  ELSE LET w == [v EXCEPT !.maps[v.bar.of] = Original(@)]
       IN UpdateFilter([w EXCEPT !.bar.filter = Whole(w.maps[v.bar.of])])

\* a bound that was at the end of the map, or is out of it now, moves along
Remapped(f, old, low, high) ==
  LET f1 == IF old.high = high THEN f
            ELSE [min |-> IF f.min > high THEN high ELSE f.min,
                  max |-> IF f.max > high \/ f.max = old.high THEN high ELSE f.max]
  IN IF old.low = low THEN f1
     ELSE [min |-> IF f1.min < low \/ f1.min = old.low THEN low ELSE f1.min,
           max |-> IF f1.max < low THEN low ELSE f1.max]
---------------------------------------------------------------------------
(* IRVController *)

\* the subscribers of selectedMetric, with the bar's as the last of them:
\* what throws before it leaves the bar as it is. A metric without template
\* changes nothing but the bar.
SwitchMetric(v, metric) ==
  LET w == [v EXCEPT !.selected = metric]
      r == ResetFilter([ResetMetricPoller(w) EXCEPT !.data = Blank])
  IN IF metric \in Metrics \ Valid THEN SetMap(w)
     ELSE IF metric # None THEN SetMap(r)
     ELSE IF Throws(r) THEN r ELSE SetMap(ResetFilters(r))

\* all values equal: spread by a factor of the value, which spreads zero by none
ColourMap(values) ==
  LET V    == {values[d] : d \in DOMAIN values}
      low  == CHOOSE v \in V : \A u \in V : v <= u
      high == CHOOSE v \in V : \A u \in V : v >= u
      lo   == IF low = high THEN 0 ELSE low
      hi   == IF low = high THEN 2 * high ELSE high
  IN IF V = {} THEN [low |-> 0, high |-> 0, olow |-> 0, ohigh |-> 0]
     ELSE [low |-> lo, high |-> hi, olow |-> lo, ohigh |-> hi]

\* an answer whose metric has a map: the filter of the selected metric is
\* applied if the one of the answer's metric differs from its map
Restricts(f, m) == (f.max > Off /\ f.max # m.high) \/ (f.min > Off /\ f.min # m.low)
DisplayMapped(v, answer) ==
  LET w == [v EXCEPT !.data = answer]
  IN IF Restricts(v.filters[answer.metric], v.maps[answer.metric]) THEN ApplyFilter(w) ELSE w

\* the first answer of a metric defines its map
DisplayUnmapped(v, answer) ==
  LET first == v.filters[answer.metric] = Unset
      w == IF first THEN WriteFilters(v, [v.filters EXCEPT ![answer.metric] = NoFilter]) ELSE v
  IN IF first /\ w.filters[v.selected] = Unset THEN w
     ELSE [WriteMaps(w, [w.maps EXCEPT ![answer.metric] = ColourMap(answer.values)])
             EXCEPT !.data = answer]
---------------------------------------------------------------------------
InitModel ==
  [selected |-> None,                       \* selectedMetric
   rate     |-> 1,                          \* metricPollRate: 0, or some time
   timer    |-> FALSE,                      \* metricTmr is running
   wire     |-> [m \in Metrics |-> 0],      \* requests on their way
   data     |-> Blank,                      \* metricData
   filters  |-> [m \in Named \cup {None} |-> Unset],
   maps     |-> [m \in Named |-> NoMap],    \* colourMaps
   active   |-> FALSE,                      \* activeFilter
   filtered |-> {},                         \* filteredDevices
   preset   |-> None,                       \* selectedPreset
   loading  |-> FALSE,                      \* loadingAPreset
   bar      |-> [of |-> None, shown |-> FALSE, filter |-> NoFilter]]

Init ==
  /\ model = InitModel
  /\ due = Blank /\ drag = NoDrag /\ requests = 0

Asked == requests < MaxRequests /\ ~drag.on /\ requests' = requests + 1
Fits  == \A m \in Metrics : model'.wire[m] <= MaxWire

\* the metric combo box, or the control that clears it
PickMetric ==
  /\ Asked
  /\ \E metric \in (Metrics \cup {None}) \ {model.selected} :
       model' = SwitchMetric(model, metric)
  /\ Fits /\ UNCHANGED <<due, drag>>

\* without polls there is no data
SetMetricPoll ==
  /\ Asked
  /\ LET w == [model EXCEPT !.rate = 1 - @]
     IN model' = IF w.selected = None THEN w
                 ELSE IF w.rate = 0 THEN [w EXCEPT !.timer = FALSE, !.data = Blank]
                 ELSE ResetMetricPoller(w)
  /\ Fits /\ UNCHANGED <<due, drag>>

\* called by the interval
LoadMetrics ==
  /\ model.timer
  /\ model' = [model EXCEPT !.wire = Poll(model)]
  /\ Fits /\ UNCHANGED <<due, drag, requests>>

\* an answer, or the failure of a request
ReceivedMetrics ==
  /\ \E m \in Metrics :
       /\ model.wire[m] > 0
       /\ model' = [model EXCEPT !.wire[m] = @ - 1]
       /\ due' \in {[metric |-> m, values |-> a] : a \in Answers}
                   \cup {[metric |-> Failed, values |-> Empty]}
  /\ UNCHANGED <<drag, requests>>

DisplayMetrics ==
  /\ due # Blank
  /\ model' = IF model.maps[due.metric] # NoMap THEN DisplayMapped(model, due)
              ELSE DisplayUnmapped(model, due)
  /\ due' = Blank
  /\ UNCHANGED <<drag, requests>>

\* resetFilterAndSelection, from a button or a menu
EvResetFilters ==
  /\ Asked
  /\ model' = ResetFilters(ResetFilter(model))
  /\ UNCHANGED <<due, drag>>

Dragged(v, fixed) == IF v > fixed THEN [min |-> fixed, max |-> v] ELSE [min |-> v, max |-> fixed]

\* edits of a bar whose map a preset took away are left out
DragSlider ==
  /\ model.bar.shown /\ model.maps[model.bar.of] # NoMap /\ requests < MaxRequests
  /\ LET bar == model.bar
         map == model.maps[bar.of]
     IN \E fixed \in (IF drag.on THEN {drag.fixed} ELSE {bar.filter.min, bar.filter.max}),
           v \in map.low..map.high :
          /\ model' = [model EXCEPT !.bar.filter = Dragged(v, fixed)]
          /\ drag' = [on |-> TRUE, fixed |-> fixed, sync |-> TRUE]
  /\ requests' = requests + 1
  /\ UNCHANGED due

\* the mouse is let go, or the drag has paused
StopDrag ==
  /\ drag.on
  /\ model' = UpdateFilter(model)
  /\ drag' \in {NoDrag} \cup (IF drag.sync THEN {[drag EXCEPT !.sync = FALSE]} ELSE {})
  /\ UNCHANGED <<due, requests>>

\* other bounds of the map were typed
UpdateMap ==
  /\ Asked /\ model.bar.shown /\ model.bar.of = model.selected /\ model.maps[model.selected] # NoMap
  /\ \E low \in 0..Top, high \in 0..Top :
       LET of  == model.bar.of
           old == model.maps[of]
           w   == [model EXCEPT !.maps[of].low = low, !.maps[of].high = high,
                     !.bar.filter = Remapped(@, old, low, high)]
       IN /\ low <= high /\ w.maps[of] # old
          /\ model' = SetMap(UpdateFilter(w))
  /\ UNCHANGED <<due, drag>>

MetricsNext ==
  \/ PickMetric \/ SetMetricPoll \/ EvResetFilters \/ DragSlider \/ StopDrag \/ UpdateMap
  \/ LoadMetrics \/ ReceivedMetrics \/ DisplayMetrics
=============================================================================
