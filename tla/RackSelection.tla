----------------------------- MODULE RackSelection -----------------------------
(***************************************************************************)
(* What is selected in the rack view, what passes the filter, and what the *)
(* page shows of it: objects that do not count are greyed out and lose     *)
(* their metric bar, and "Clear de-selected" takes their racks away.       *)
(*                                                                         *)
(* The selection is written by clicks, by the context menu, by the filter  *)
(* bar, by every answer of the metric poller, by presets and by live       *)
(* updates; what is greyed out is computed only when one of them tells the *)
(* rack space.  Metric answers are RackMetrics'; here an answer is the set *)
(* of devices that have a value.                                           *)
(***************************************************************************)
EXTENDS FiniteSets

CONSTANTS
    Racks, Chassis, Devices,
    Complex,        \* the chassis with more than one slot
    Parent,         \* Parent[o]: the rack of a chassis, the chassis of a device
    Enclosed,       \* Enclosed[o]: what lies inside the box of o on the screen
    PresetLevels,   \* the metric levels of the stored presets
    None            \* no metric values, no filter

Objects == Racks \cup Chassis \cup Devices

ASSUME RackSelectionAssumption ==
    /\ Parent \in [Chassis \cup Devices -> Racks \cup Chassis]
    /\ \A c \in Chassis : Parent[c] \in Racks
    /\ \A d \in Devices : Parent[d] \in Chassis
    /\ Racks \cap (Chassis \cup Devices) = {} /\ Chassis \cap Devices = {}
    /\ Complex \subseteq Chassis
    /\ Enclosed \in [Objects -> SUBSET Objects]
    /\ PresetLevels \subseteq {"devices", "chassis", "all"}
    /\ \A s \in SUBSET Devices : None # s

VARIABLES
    lookup,     \* model.deviceLookup: the objects the page has
    selected,   \* model.selectedDevices: an id may be missing, false or true
    active,     \* model.activeSelection
    filtered,   \* model.filteredDevices, None when activeFilter is false
    values,     \* the devices of model.metricData.selection, None without one
    level,      \* model.metricLevel
    included,   \* the objects whose .included is true
    bars        \* the objects whose metric bar is active

vars == <<lookup, selected, active, filtered, values, level, included, bars>>

Children == [o \in Objects |-> {x \in DOMAIN Parent : Parent[x] = o}]
Family == [o \in Objects |-> {o} \cup Children[o] \cup UNION {Children[x] : x \in Children[o]}]

(* Every variable keeps its shape, and what the page shows is there. *)
TypeOK ==
    /\ lookup \subseteq Objects
    /\ \A o \in lookup \ Racks : Parent[o] \in lookup
    /\ selected \in [Objects -> {"missing", "false", "true"}]
    /\ active \in BOOLEAN
    /\ filtered \in {None} \cup SUBSET Devices
    /\ values \in {None} \cup SUBSET Devices
    /\ level \in {"devices", "chassis", "all"}
    /\ included \subseteq lookup /\ bars \subseteq lookup
-------------------------------------------------------------------------------
(* What the rack space draws: an object counts when it or something in it is
   selected, passes the filter and has a value.  Whether a chassis can be seen
   from the face that is shown is left out of its bar. *)
Chosen == {o \in Objects : selected[o] = "true"}
Selecting(S) == [o \in Objects |-> IF o \in S THEN "true" ELSE "missing"]
Blank == Selecting({})

Passes(o) ==
    /\ active => o \in Chosen
    /\ filtered # None => o \in filtered
    /\ values # None => o \in values

Included == {o \in lookup : \E x \in Family[o] \cap lookup : Passes(x)}

Applicable(o) ==
    \/ o \in Devices /\ level \in {"devices", "all"}
    \/ o \in Chassis /\ (level = "chassis" \/ (level = "all" /\ Children[o] \cap lookup = {}))

ShowsMetric(o) ==
    /\ Applicable(o)
    /\ active => o \in Chosen
    /\ filtered # None => o \in filtered

Bars == {o \in lookup \ Racks : ShowsMetric(o)}

ShowSelection == included' = Included' /\ bars' = Bars'

(* RackSpace.setMetricLevel: of what was selected before, what the level is about. *)
LevelSelection(l, wasActive, chosen) ==
    LET kept == {o \in lookup : wasActive => o \in chosen}
        boxes == IF l = "devices" THEN {} ELSE kept \cap Complex
        devices == IF l = "chassis" THEN {} ELSE kept \cap Devices
    IN boxes \cup devices \cup UNION {Children[c] \cap lookup : c \in boxes}

\* Mutant: what was selected before is not asked for.
SetMetricLevelAnew(l, wasActive, chosen) ==
    /\ selected' = Selecting(LevelSelection(l, FALSE, {}))
    /\ active' = TRUE

SetMetricLevel(l, wasActive, chosen) ==
    /\ selected' = Selecting(LevelSelection(l, wasActive, chosen))
    /\ active' = TRUE
-------------------------------------------------------------------------------
(* Clicks. *)
\* Mutant: the scan stops after the class of the object.
AnyOtherOfItsClass(o) ==
    \E class \in {Racks, Chassis, Devices} : o \in class /\ (Chosen \ {o}) \cap class # {}

AnyOther(o) == Chosen \ {o} # {}
WithChildren(o) == IF o \in Racks THEN Family[o] \cap lookup ELSE {o}
Toggled(o) == IF selected[o] = "true" THEN "false" ELSE "true"

Clickable == lookup \ (Chassis \ Complex)

Click(o) ==
    /\ o \in Clickable
    /\ selected' = Selecting(WithChildren(o)) /\ active' = TRUE
    /\ UNCHANGED <<lookup, filtered, values, level>>
    /\ ShowSelection

ClickMore(o) ==
    /\ o \in Clickable
    /\ active' = (Toggled(o) = "true" \/ AnyOther(o))
    /\ selected' = [x \in Objects |-> IF x \in WithChildren(o) THEN Toggled(o) ELSE selected[x]]
    /\ UNCHANGED <<lookup, filtered, values, level>>
    /\ ShowSelection

Within(o) == Enclosed[o] \cap lookup

(* "Focus" in the context menu, when the target has not gone since it was opened. *)
FocusOn(o) ==
    /\ o \in lookup \ Racks
    /\ selected' = Selecting(Within(o)) /\ active' = TRUE
    /\ UNCHANGED <<lookup, filtered, values, level>>
    /\ ShowSelection

(* The reset, by its button or the menu, and by saying no to a destruction.
   When the filter bar has its map and no preset is selected it goes on to
   write an empty filter, and with it an empty selection. *)
ResetFilterAndSelection(vs, barWrites) ==
    /\ filtered' = None /\ values' = vs
    /\ IF barWrites THEN selected' = Blank /\ active' = FALSE
                    ELSE SetMetricLevel(level, FALSE, {})
    /\ UNCHANGED <<lookup, level>>
    /\ ShowSelection

ResetFilters == \E bar \in BOOLEAN : ResetFilterAndSelection(values, bar)

(* "Clear de-selected racks and devices". *)
Excluded == {r \in Racks \cap lookup : r \notin included}

DiscardExcludedRacks ==
    /\ active \/ filtered # None
    /\ Excluded # {}
    /\ lookup' = lookup \ UNION {Family[r] : r \in Excluded}
    /\ UNCHANGED <<selected, active, filtered, values, level>>
    /\ ShowSelection
-------------------------------------------------------------------------------
(* The metrics. *)
(* displayMetrics: the values, the filter if there is one, and the selection. *)
DisplayMetrics(vs) ==
    /\ values' = vs
    /\ IF filtered = None \/ vs = {} THEN filtered' = None
                                     ELSE \E passing \in SUBSET vs : filtered' = passing
    /\ SetMetricLevel(level, active, Chosen)
    /\ UNCHANGED <<lookup, level>>
    /\ ShowSelection

(* The filter bar: the filter, and a selection of what passes it. *)
UpdateFilter ==
    /\ values # None
    /\ filtered' \in {None} \cup SUBSET values
    /\ LET passing == IF filtered' = None THEN {} ELSE filtered'
       IN selected' = Selecting(passing) /\ active' = (passing # {})
    /\ UNCHANGED <<lookup, values, level>>
    /\ ShowSelection

SwitchMetric ==
    /\ values' = None /\ filtered' = None
    /\ UNCHANGED <<lookup, selected, active, level>>
    /\ ShowSelection

ClearMetric == \E bar \in BOOLEAN : ResetFilterAndSelection(None, bar)

(* A poll rate of zero drops the values and tells the rack space nothing. *)
StopPolling ==
    /\ values' = None
    /\ UNCHANGED <<lookup, selected, active, filtered, level, included, bars>>

(* A preset blanks the selection; a preset of another level selects that level.
   Its metric and its filter are applied to the values there are. *)
ToOrFromAll(l) == l # level /\ "all" \in {l, level}

SwitchPreset(l, otherMetric) ==
    /\ level' = l
    /\ values' = IF otherMetric \/ ToOrFromAll(l) THEN None ELSE values
    /\ IF values' = None THEN filtered' = None ELSE filtered' \in {None} \cup SUBSET values'
    /\ IF l = level THEN selected' = Blank /\ active' = FALSE
                    ELSE SetMetricLevel(l, FALSE, {})
    /\ UNCHANGED lookup
    /\ ShowSelection
-------------------------------------------------------------------------------
(* A live update.  Rack r has `objects` now, or has gone.  Selected ids that are
   still there get the object as their value, whatever they had before. *)
\* Mutant: it runs before setUpRacks, when the lookup has only racks.
SynchroniseSelectedEarly ==
    LET kept == {o \in lookup' \cap Racks : selected[o] # "missing"}
    IN selected' = Selecting(kept) /\ active' = (kept # {})

SynchroniseSelected ==
    LET kept == {o \in lookup' : selected[o] # "missing"}
    IN selected' = Selecting(kept) /\ active' = (kept # {})

Update(r, objects) ==
    /\ \A o \in objects \ {r} : Parent[o] \in objects
    /\ lookup' = (lookup \ Family[r]) \cup objects
    /\ SynchroniseSelected
    /\ UNCHANGED <<filtered, values, level>>
    /\ ShowSelection

LiveUpdate == \E r \in Racks : \E objects \in SUBSET Family[r] : Update(r, objects)
-------------------------------------------------------------------------------
Init ==
    /\ lookup = Objects
    /\ selected = Blank /\ active = FALSE
    /\ filtered = None /\ values = None
    /\ level = "devices"
    /\ included = Included /\ bars = Bars

UserStep ==
    \/ \E o \in Objects : Click(o)
    \/ \E o \in Objects : ClickMore(o)
    \/ \E o \in Objects : FocusOn(o)
    \/ ResetFilters
    \/ DiscardExcludedRacks
    \/ UpdateFilter
    \/ SwitchMetric
    \/ ClearMetric
    \/ StopPolling
    \/ \E l \in PresetLevels \cup {level}, other \in BOOLEAN : SwitchPreset(l, other)

Poll == \E vs \in SUBSET Devices : DisplayMetrics(vs)

Next == UserStep \/ Poll \/ LiveUpdate

Spec == Init /\ [][Next]_vars
-------------------------------------------------------------------------------
(* What is greyed out is what the selection, the filter and the values of the
   metric leave out, whoever changed them last (showSelection is told of two of
   the four).  Values that were dropped by a poll rate of zero are excepted. *)
IncludedIsCurrent == values # None => included = Included

(* A device is not greyed out under an active bar: setIncluded and
   setMetricVisibility, two tests of the same state, agree wherever there is a
   value to show. *)
BarsAreNotGreyed == values # None => bars \cap values \subseteq included

(* No selection is ignored: when something is selected, the selection counts.
   Six writers keep activeSelection beside selectedDevices. *)
SelectedMeansActive == Chosen # {} => active

(* What the user has selected is what the page highlights, greys out and shows
   bars for. *)
Safety == TypeOK /\ IncludedIsCurrent /\ BarsAreNotGreyed /\ SelectedMeansActive

(* A live update deselects nothing that is still there, in the rack that
   changed or in another, and forgets what is gone. *)
UpdateKeepsSelection ==
    [][LiveUpdate => /\ Chosen \cap lookup' \subseteq Chosen'
                     /\ Chosen' \subseteq lookup']_vars

(* With devices selected, the answers of the poller neither add a device to the
   selection nor take one away: setMetricLevel makes a new selection each time. *)
PollKeepsSelection ==
    [][Poll /\ level = "devices" /\ active => Chosen' = Chosen \cap Devices \cap lookup]_vars
===============================================================================
