------------------------- MODULE RackSelectionProofs -------------------------
(***************************************************************************)
(* Theorems about RackSelection, for every set of racks, chassis and       *)
(* devices.                                                                *)
(***************************************************************************)
EXTENDS RackSelection, TLAPS

LEMMA Families ==
    /\ \A o \in Objects : o \in Family[o] /\ Family[o] \subseteq Objects
    /\ \A o \in Chassis \cup Devices, r \in Racks : Parent[o] \in Family[r] => o \in Family[r]
    /\ \A o \in Chassis \cup Devices : Parent[o] \in Objects
<1> USE RackSelectionAssumption DEF Objects
<1>1. \A o \in Objects : /\ Children[o] \subseteq Objects
                         /\ \A x \in Chassis \cup Devices : x \in Children[o] <=> Parent[x] = o
  BY DEF Children
<1>2. \A o \in Objects : /\ Family[o] \subseteq Objects /\ o \in Family[o]
                         /\ \A x : x \in Family[o] <=> \/ x = o \/ x \in Children[o]
                                                       \/ \E y \in Children[o] : x \in Children[y]
  BY <1>1 DEF Family
<1>3. ASSUME NEW o \in Chassis \cup Devices, NEW r \in Racks, Parent[o] \in Family[r]
      PROVE  o \in Family[r]
  <2>1. Parent[o] \in Racks \cup Chassis /\ Parent[o] \in Objects
    OBVIOUS
  <2>2. CASE Parent[o] = r \/ Parent[o] \in Children[r]
    BY <1>1, <1>2, <2>1, <2>2
  <2>3. ASSUME NEW y \in Children[r], Parent[o] \in Children[y] PROVE FALSE
    <3>1. y \in Chassis /\ Parent[y] = r
      BY <1>1 DEF Children
    <3>2. Parent[Parent[o]] = y /\ Parent[o] \in Chassis \cup Devices
      BY <2>3, <3>1 DEF Children
    <3>3. Parent[o] \in Chassis
      BY <2>1, <3>2
    <3>4. y \in Racks
      BY <3>2, <3>3
    <3>. QED BY <3>1, <3>4
  <2>. QED BY <1>2, <1>3, <2>2, <2>3
<1>. QED BY <1>2, <1>3

(* What is on the page keeps its parents when a family, or what is left of *)
(* it, goes.                                                               *)
ParentsThere(objects) == \A o \in objects \ Racks : Parent[o] \in objects

LEMMA FamiliesLeave ==
    ASSUME TypeOK, NEW S \in SUBSET Racks
    PROVE  /\ lookup \ UNION {Family[r] : r \in S} \subseteq Objects
           /\ ParentsThere(lookup \ UNION {Family[r] : r \in S})
BY Families DEF TypeOK, ParentsThere, Objects

LEMMA FamilyReplaced ==
    ASSUME TypeOK, NEW r \in Racks, NEW objects \in SUBSET Family[r],
           \A o \in objects \ {r} : Parent[o] \in objects
    PROVE  /\ (lookup \ Family[r]) \cup objects \subseteq Objects
           /\ ParentsThere((lookup \ Family[r]) \cup objects)
BY Families DEF TypeOK, ParentsThere, Objects

(* showSelection: what is drawn agrees with itself.                        *)
LEMMA Drawn ==
    ASSUME ShowSelection, lookup' \subseteq Objects
    PROVE  /\ included' \subseteq lookup' /\ bars' \subseteq lookup'
           /\ IncludedIsCurrent' /\ BarsAreNotGreyed'
<1>1. included' \subseteq lookup' /\ bars' \subseteq lookup' /\ IncludedIsCurrent'
  BY DEF ShowSelection, Included, Bars, IncludedIsCurrent
<1>2. ASSUME NEW o \in bars', o \in values', values' # None PROVE o \in included'
  <2>1. o \in lookup' /\ Passes(o)'
    BY <1>2 DEF ShowSelection, Bars, ShowsMetric, Passes
  <2>2. o \in Family[o] \cap lookup'
    BY <2>1, Families
  <2>. QED BY <2>1, <2>2 DEF ShowSelection, Included
<1>. QED BY <1>1, <1>2 DEF BarsAreNotGreyed

LEMMA LevelSelected ==
    ASSUME NEW l \in {"devices", "chassis", "all"}, NEW wasActive \in BOOLEAN, NEW chosen,
           SetMetricLevel(l, wasActive, chosen)
    PROVE  selected' \in [Objects -> {"missing", "false", "true"}] /\ active' = TRUE
BY DEF SetMetricLevel, Selecting

-----------------------------------------------------------------------------
(* What a step has to show when it ends with showSelection: the types of   *)
(* what it wrote, and that the selection it leaves counts.                 *)
Written ==
    /\ lookup \subseteq Objects /\ ParentsThere(lookup)
    /\ selected \in [Objects -> {"missing", "false", "true"}]
    /\ active \in BOOLEAN
    /\ filtered \in {None} \cup SUBSET Devices
    /\ values \in {None} \cup SUBSET Devices
    /\ level \in {"devices", "chassis", "all"}
    /\ SelectedMeansActive

LEMMA WrittenAndDrawn ==
    ASSUME Written', ShowSelection PROVE Safety'
BY Drawn DEF Written, Safety, TypeOK, ParentsThere

LEMMA SafetyWritten == ASSUME Safety PROVE Written /\ TypeOK
BY DEF Written, Safety, TypeOK, ParentsThere

LEMMA SelectingActive ==
    ASSUME NEW S, selected' = Selecting(S), active' = (S # {})
    PROVE  /\ selected' \in [Objects -> {"missing", "false", "true"}]
           /\ active' \in BOOLEAN /\ SelectedMeansActive'
BY DEF Selecting, SelectedMeansActive, Chosen

LEMMA ResetWritten ==
    ASSUME Safety, NEW vs \in {None} \cup SUBSET Devices, NEW bar \in BOOLEAN,
           ResetFilterAndSelection(vs, bar)
    PROVE  Written' /\ ShowSelection
<1>1. CASE bar
  <2>1. selected' = Selecting({}) /\ active' = FALSE /\ ShowSelection
    BY <1>1 DEF ResetFilterAndSelection, Blank
  <2>. QED BY <2>1, SelectingActive, SafetyWritten DEF ResetFilterAndSelection, Written, ParentsThere
<1>2. CASE ~bar
  <2>1. SetMetricLevel(level, FALSE, {}) /\ ShowSelection /\ level \in {"devices", "chassis", "all"}
    BY <1>2 DEF ResetFilterAndSelection, Safety, TypeOK
  <2>2. selected' \in [Objects -> {"missing", "false", "true"}] /\ active' = TRUE
    BY <2>1, LevelSelected
  <2>. QED BY <2>1, <2>2, SafetyWritten
       DEF ResetFilterAndSelection, Written, SelectedMeansActive, ParentsThere
<1>. QED BY <1>1, <1>2

LEMMA UserSafety ==
    ASSUME Safety, UserStep PROVE Safety'
<1> USE SafetyWritten
<1>1. ASSUME NEW o \in Objects, Click(o) PROVE Safety'
  <2>. QED BY <1>1, WrittenAndDrawn
       DEF Click, Written, ParentsThere, SelectedMeansActive, Selecting
<1>2. ASSUME NEW o \in Objects, ClickMore(o) PROVE Safety'
  <2>1. Toggled(o) \in {"true", "false"}
    BY DEF Toggled
  <2>2. ASSUME NEW x \in Objects, selected'[x] = "true" PROVE active'
    <3>1. CASE x \in WithChildren(o)
      BY <1>2, <2>2, <3>1 DEF ClickMore
    <3>2. CASE x \notin WithChildren(o)
      <4>1. x \in Chosen
        BY <1>2, <2>2, <3>2 DEF ClickMore, Chosen
      <4>2. x # o
        BY <1>2, <3>2, Families DEF ClickMore, Clickable, WithChildren
      <4>. QED BY <1>2, <4>1, <4>2 DEF ClickMore, AnyOther
    <3>. QED BY <3>1, <3>2
  <2>3. SelectedMeansActive'
    BY <2>2 DEF SelectedMeansActive, Chosen
  <2>4. active' \in BOOLEAN /\ selected' \in [Objects -> {"missing", "false", "true"}]
    BY <1>2, <2>1 DEF ClickMore, Written
  <2>. QED BY <1>2, <2>3, <2>4, WrittenAndDrawn DEF ClickMore, Written, ParentsThere
<1>3. ASSUME NEW o \in Objects, FocusOn(o) PROVE Safety'
  <2>. QED BY <1>3, WrittenAndDrawn
       DEF FocusOn, Written, ParentsThere, SelectedMeansActive, Selecting
<1>4. CASE ResetFilters
  <2>1. values \in {None} \cup SUBSET Devices
    BY DEF Written
  <2>. QED BY <1>4, <2>1, ResetWritten, WrittenAndDrawn DEF ResetFilters
<1>5. CASE DiscardExcludedRacks
  <2>1. Excluded \in SUBSET Racks
    BY DEF Excluded
  <2>2. lookup' \subseteq Objects /\ ParentsThere(lookup')
    BY <1>5, <2>1, FamiliesLeave DEF DiscardExcludedRacks
  <2>3. SelectedMeansActive'
    BY <1>5 DEF DiscardExcludedRacks, Written, SelectedMeansActive, Chosen
  <2>. QED BY <1>5, <2>2, <2>3, WrittenAndDrawn DEF DiscardExcludedRacks, Written, ParentsThere
<1>6. CASE UpdateFilter
  <2>1. \E passing : selected' = Selecting(passing) /\ active' = (passing # {})
    BY <1>6 DEF UpdateFilter
  <2>2. /\ selected' \in [Objects -> {"missing", "false", "true"}]
        /\ active' \in BOOLEAN /\ SelectedMeansActive'
    BY <2>1, SelectingActive
  <2>. QED BY <1>6, <2>2, WrittenAndDrawn DEF UpdateFilter, Written, ParentsThere
<1>7. CASE SwitchMetric
  <2>1. SelectedMeansActive'
    BY <1>7 DEF SwitchMetric, Written, SelectedMeansActive, Chosen
  <2>. QED BY <1>7, <2>1, WrittenAndDrawn DEF SwitchMetric, Written, ParentsThere
<1>8. CASE ClearMetric
  BY <1>8, ResetWritten, WrittenAndDrawn DEF ClearMetric
<1>9. CASE StopPolling
  BY <1>9 DEF StopPolling, Safety, TypeOK, IncludedIsCurrent, BarsAreNotGreyed,
       SelectedMeansActive, Chosen
<1>10. ASSUME NEW l \in PresetLevels \cup {level}, NEW other \in BOOLEAN, SwitchPreset(l, other)
       PROVE  Safety'
  <2>1. l \in {"devices", "chassis", "all"}
    BY RackSelectionAssumption DEF Written
  <2>2. /\ level' = l /\ values' \in {None} \cup SUBSET Devices
        /\ filtered' \in {None} \cup SUBSET Devices
    BY <1>10 DEF SwitchPreset, Written
  <2>3. /\ selected' \in [Objects -> {"missing", "false", "true"}]
        /\ active' \in BOOLEAN /\ SelectedMeansActive'
    <3>1. CASE l = level
      <4>1. selected' = Selecting({}) /\ active' = FALSE
        BY <1>10, <3>1 DEF SwitchPreset, Blank
      <4>. QED BY <4>1, SelectingActive
    <3>2. CASE l # level
      <4>1. SetMetricLevel(l, FALSE, {})
        BY <1>10, <3>2 DEF SwitchPreset
      <4>. QED BY <2>1, <4>1, LevelSelected DEF SelectedMeansActive
    <3>. QED BY <3>1, <3>2
  <2>. QED BY <1>10, <2>1, <2>2, <2>3, WrittenAndDrawn DEF SwitchPreset, Written, ParentsThere
<1>. QED BY <1>1, <1>2, <1>3, <1>4, <1>5, <1>6, <1>7, <1>8, <1>9, <1>10 DEF UserStep

LEMMA PollSafety == ASSUME Safety, Poll PROVE Safety'
<1>1. PICK vs \in SUBSET Devices : DisplayMetrics(vs)
  BY DEF Poll
<1>2. filtered' \in {None} \cup SUBSET Devices
  BY <1>1 DEF DisplayMetrics
<1>3. level \in {"devices", "chassis", "all"} /\ active \in BOOLEAN
  BY DEF Safety, TypeOK
<1>4. selected' \in [Objects -> {"missing", "false", "true"}] /\ active' = TRUE
  BY <1>1, <1>3, LevelSelected DEF DisplayMetrics
<1>. QED BY <1>1, <1>2, <1>4, SafetyWritten, WrittenAndDrawn
     DEF DisplayMetrics, Written, ParentsThere, SelectedMeansActive

LEMMA UpdateSafety == ASSUME Safety, LiveUpdate PROVE Safety'
<1>0. PICK r \in Racks : \E objects \in SUBSET Family[r] : Update(r, objects)
  BY DEF LiveUpdate
<1>1. PICK objects \in SUBSET Family[r] : Update(r, objects)
  BY <1>0
<1>2. lookup' \subseteq Objects /\ ParentsThere(lookup')
  BY <1>1, FamilyReplaced, SafetyWritten DEF Update
<1>3. \E kept : selected' = Selecting(kept) /\ active' = (kept # {})
  BY <1>1 DEF Update, SynchroniseSelected
<1>4. /\ selected' \in [Objects -> {"missing", "false", "true"}]
      /\ active' \in BOOLEAN /\ SelectedMeansActive'
  BY <1>3, SelectingActive
<1>. QED BY <1>1, <1>2, <1>4, SafetyWritten, WrittenAndDrawn DEF Update, Written, ParentsThere

LEMMA InitSafety == ASSUME Init PROVE Safety
<1>1. included \subseteq lookup /\ bars \subseteq lookup /\ IncludedIsCurrent /\ BarsAreNotGreyed
  BY DEF Init, Included, Bars, IncludedIsCurrent, BarsAreNotGreyed
<1>2. ParentsThere(lookup)
  BY RackSelectionAssumption DEF Init, ParentsThere, Objects
<1>. QED BY <1>1, <1>2 DEF Init, Safety, TypeOK, SelectedMeansActive, Chosen, Blank, Selecting, ParentsThere

(* Whoever writes the selection, the filter or the values last, the page   *)
(* shows what they leave: nothing is greyed out under its bar, and what is *)
(* selected counts.                                                        *)
THEOREM SelectionIsShown == Spec => []Safety
<1>1. Safety /\ [Next]_vars => Safety'
  <2> SUFFICES ASSUME Safety, [Next]_vars PROVE Safety'
    OBVIOUS
  <2>1. CASE UNCHANGED vars
    BY <2>1 DEF vars, Safety, TypeOK, IncludedIsCurrent, BarsAreNotGreyed, SelectedMeansActive,
         Chosen, Included, Passes
  <2>. QED BY <2>1, UserSafety, PollSafety, UpdateSafety DEF Next
<1>. QED BY <1>1, InitSafety, PTL DEF Spec

(* A live update of any rack leaves every selected object that is still    *)
(* there selected (RackSpace.synchroniseSelected).                         *)
THEOREM UpdatesKeepSelections == Spec => UpdateKeepsSelection
<1>1. ASSUME Safety, LiveUpdate
      PROVE  Chosen \cap lookup' \subseteq Chosen' /\ Chosen' \subseteq lookup'
  <2>1. SynchroniseSelected
    BY <1>1 DEF LiveUpdate, Update
  <2>. QED BY <2>1 DEF SynchroniseSelected, Selecting, Chosen
<1>. QED BY <1>1, SelectionIsShown, PTL DEF UpdateKeepsSelection

(* The poller selects no device and deselects none                         *)
(* (RackSpace.setMetricLevel).                                             *)
THEOREM PollsKeepSelections == Spec => PollKeepsSelection
<1>1. ASSUME Safety, Poll, level = "devices", active
      PROVE  Chosen' = Chosen \cap Devices \cap lookup
  <2>1. SetMetricLevel("devices", TRUE, Chosen)
    BY <1>1 DEF Poll, DisplayMetrics, Safety, TypeOK
  <2>2. LevelSelection("devices", TRUE, Chosen) = Chosen \cap Devices \cap lookup
    BY DEF LevelSelection
  <2>. QED BY <2>1, <2>2 DEF SetMetricLevel, Selecting, Chosen, Objects
<1>. QED BY <1>1, SelectionIsShown, PTL DEF PollKeepsSelection
==============================================================================
