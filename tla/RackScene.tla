----------------------------- MODULE RackScene -----------------------------
(***************************************************************************)
(* The picture of the interactive rack view: the racks it draws, the face  *)
(* it shows them from, its scale, and the two animations (zoom and flip)   *)
(* that replace one picture by the next while live updates, resizes and    *)
(* metric answers go on arriving (RackSpace.js, IRVController.js).         *)
(*                                                                         *)
(* An animation is a chain of renderer callbacks; each link is an action.  *)
(* Scales are small numbers: ShowAll and ToRow give the two scales that    *)
(* setZoomPresets computes from the size of the window and the number of   *)
(* rack instances; where the racks are drawn is RackArrangement's.         *)
(***************************************************************************)
EXTENDS RackArrangement

CONSTANTS
  InitialRacks,   \* the racks the page opens with, in their order
  NewRacks,       \* racks that live updates may add
  Windows,        \* sizes the window may have
  MaxZoom,        \* RackSpace.MAX_ZOOM
  ShowAll,        \* [Windows -> [0..n -> 1..MaxZoom]]: all racks fit
  ToRow,          \* [Windows -> 1..]: one row of racks fits the height
  Rows,           \* [Windows -> [0..n -> 1..]]: num_rows
  Size,           \* [Windows -> [width, height]]: getElementDimensions
  SizeOf,         \* [racks -> [width, height]]: of the rack images
  MaxRequests,    \* bound on what the user asks for
  MaxChanges      \* bound on what arrives: updates, sizes and metrics

AllRacks == ToSet(InitialRacks) \cup NewRacks

\* all racks are of the one template for racks: their images differ in height
ASSUME SceneAssumption ==
  /\ MaxZoom \in Nat \ {0} /\ MaxRequests \in Nat /\ MaxChanges \in Nat
  /\ IsFiniteSet(AllRacks) /\ InitialRacks \in Seq(AllRacks)
  /\ \A i, j \in DOMAIN InitialRacks : InitialRacks[i] = InitialRacks[j] => i = j
  /\ \A r \in AllRacks : SizeOf[r] \in [width : Nat \ {0}, height : Nat \ {0}]
  /\ \A q, r \in AllRacks : SizeOf[q].width = SizeOf[r].width
  /\ \A w \in Windows : /\ ToRow[w] \in Nat \ {0} /\ Size[w] \in [width : Nat, height : Nat]
                        /\ \A n \in 0..(2 * Cardinality(AllRacks)) : ShowAll[w][n] \in 1..MaxZoom

VARIABLES
  face,        \* ViewModel.face
  icFace,      \* IRVController.currentFace
  rsFace,      \* RackSpace.currentFace
  window,      \* the size of the rack element
  space,       \* the RackSpace: racks, instances, scales and presets
  unbuilt,     \* full rack data replaced model.racks, images still load
  zoom,        \* the zoom animation
  flip,        \* the flip animation
  mask,        \* UpdateMsg.visible: clicks do not reach the page
  mouseOn,     \* the rack element listens to the mouse
  icZooming,   \* IRVController.zooming
  layoutDue,   \* RackSpace.layoutTmr is running
  displayDue,  \* IRVController.dispTmr is running
  relaid,      \* history: the racks were laid out during the last zoom
  missed,      \* history: a change of face could not start its flip
  broken,      \* a zoom was started over a flip: both write to this.fx
  requests,    \* requests so far
  changes      \* arrivals so far

vars == <<face, icFace, rsFace, window, space, unbuilt, zoom, flip,
          mask, mouseOn, icZooming, layoutDue, displayDue, relaid, missed, broken,
          requests, changes>>

Faces   == {"front", "rear", "both"}
Idle    == [phase |-> "none", target |-> 1]
NoFlip  == [phase |-> "none", waiting |-> {}, turning |-> 0, done |-> 0,
            count |-> 0, fresh |-> TRUE]
Ids(defs) == {defs[i].id : i \in DOMAIN defs}
At(seq, i) == seq[i + 1]              \* JavaScript counts from zero
---------------------------------------------------------------------------
(* RackSpace: scale, presets and the set of instances *)

ZoomPresets(w, n) ==
  (IF ShowAll[w][n] # ToRow[w] /\ Rows[w][n] > 1 THEN <<ShowAll[w][n]>> ELSE <<>>)
  \o (IF MaxZoom > ToRow[w] THEN <<ToRow[w]>> ELSE <<>>)
  \o <<MaxZoom>>

\* the last preset of the leading ones that the scale has reached
SynchroniseZoomIdx(s) ==
  LET reached(i) == \A j \in 1..i : s.scale >= At(s.presets, j)
  IN [s EXCEPT !.zoomIdx =
        CHOOSE i \in 0..(Len(s.presets) - 1) :
          reached(i) /\ (i + 1 = Len(s.presets) \/ ~reached(i + 1))]

SetScaleInLayers(s, scale) ==
  [s EXCEPT !.scale = scale, !.infoScale = scale]

Shows(def, f) == IF f = "both" THEN def.side ELSE f
Instance(def, f) == [id |-> def.id, side |-> def.side, shows |-> Shows(def, f)]
Draw(s, f) == [s EXCEPT !.drawn = [i \in DOMAIN @ |-> Instance(@[i], f)]]

\* mutant: new instances, but the scale and the presets of the old ones
SwitchWithoutFit(s, defs, f) ==
  [s EXCEPT !.racks = defs, !.drawn = [i \in DOMAIN defs |-> Instance(defs[i], f)],
            !.presets = ZoomPresets(window, Len(defs))]

\* destroys the instances, builds those of defs and fits the scale to them
SwitchRackSet(s, defs, f) ==
  LET built == [s EXCEPT !.racks = defs,
                         !.drawn = [i \in DOMAIN defs |-> Instance(defs[i], f)],
                         !.presets = ZoomPresets(window, Len(defs))]
      fitted == IF s.scale = s.presets[1] \/ s.scale < built.presets[1]
                THEN SetScaleInLayers(built, built.presets[1])
                ELSE IF s.scale > MaxZoom THEN SetScaleInLayers(built, MaxZoom)
                ELSE built
  IN SynchroniseZoomIdx(fitted)

Duplicated(defs) ==
  [i \in 1..(2 * Len(defs)) |-> [id   |-> defs[(i + 1) \div 2].id,
                                 side |-> IF i % 2 = 1 THEN "front" ELSE "rear"]]
EverySecond(defs) == [i \in 1..((Len(defs) + 1) \div 2) |-> defs[2 * i - 1]]
ShowSplitView(s)          == SwitchRackSet(s, Duplicated(s.racks), "both")
RevertFromSplitView(s, f) == SwitchRackSet(s, EverySecond(s.racks), f)

\* one definition for each rack the device lookup holds, in the model's order
Firsts(defs, ids) ==
  {i \in DOMAIN defs : defs[i].id \in ids /\ \A j \in 1..(i - 1) : defs[j].id # defs[i].id}
OneEach(defs, ids) ==
  LET firsts == Firsts(defs, ids)
      place(k) == CHOOSE i \in firsts : Cardinality({j \in firsts : j <= i}) = k
  IN [k \in 1..Cardinality(firsts) |-> defs[place(k)]]
\* mutant: the split view is not restored
RefreshRacksSingle(s, ids) == SwitchRackSet(s, OneEach(s.racks, ids), face)
RefreshRacks(s, ids) ==
  LET single == SwitchRackSet(s, OneEach(s.racks, ids), face)
  IN IF face = "both" THEN ShowSplitView(single) ELSE single
ResetRackSpace(s) == RefreshRacks(s, Ids(s.racks))

SetLayout(s) ==
  LET presets == ZoomPresets(window, Len(s.drawn))
      laid    == SynchroniseZoomIdx([s EXCEPT !.presets = presets])
  IN IF s.scale <= presets[1] \/ s.scale = s.presets[1]
     THEN Draw([SetScaleInLayers(laid, presets[1]) EXCEPT !.zoomIdx = 0], face)
     ELSE laid
---------------------------------------------------------------------------
Init ==
  LET defs == [i \in DOMAIN InitialRacks |-> [id |-> InitialRacks[i], side |-> "none"]]
  IN /\ face = "front" /\ icFace = "front" /\ rsFace = "front"
     /\ window \in Windows
     /\ LET presets == ZoomPresets(window, Len(defs))
        IN space = [racks |-> defs,
                    drawn |-> [i \in DOMAIN defs |-> Instance(defs[i], "front")],
                    presets |-> presets, zoomIdx |-> 0, scale |-> presets[1],
                    infoScale |-> presets[1]]
     /\ zoom = Idle /\ flip = NoFlip
     /\ mask = FALSE /\ mouseOn = TRUE /\ icZooming = FALSE
     /\ unbuilt = FALSE /\ layoutDue = FALSE /\ displayDue = FALSE
     /\ relaid = FALSE /\ missed = FALSE /\ broken = FALSE
     /\ requests = 0 /\ changes = 0

\* the user is heard while no mask covers the page
Asked   == /\ ~broken /\ ~mask /\ requests < MaxRequests
           /\ requests' = requests + 1 /\ UNCHANGED changes
Arrived == /\ ~broken /\ changes < MaxChanges
           /\ changes' = changes + 1 /\ UNCHANGED requests
Ticked  == ~broken /\ UNCHANGED <<requests, changes>>

\* the racks have new instances: those that a flip is turning are destroyed
RacksRebuilt ==
  /\ flip' = [flip EXCEPT !.fresh = flip.phase \notin {"turning", "showing"}]
  /\ relaid' = (relaid \/ zoom.phase # "none")
  /\ missed' = FALSE

(* The zoom: fade the labels, scale a picture of the racks, show it *)

ZoomCompleteEvent == mask' = FALSE /\ mouseOn' = TRUE /\ icZooming' = FALSE
UpdateMessage     == mask' = TRUE /\ UNCHANGED <<mouseOn, icZooming>>
MouseDisabled     == mask' = TRUE /\ mouseOn' = FALSE /\ icZooming' = TRUE
NoMessage         == UNCHANGED <<mask, mouseOn, icZooming>>

\* both animations take the layers out of the page and write to this.fx
StartZoom(s, target, request) ==
  /\ space' = s /\ request
  /\ zoom' = [phase |-> "fading", target |-> target]
  /\ relaid' = FALSE /\ broken' = (flip.phase # "none")
\* mutant: nothing is dispatched when there is nothing to do
QuickZoomSilent(s, wanted, moved, request) ==
  IF zoom.phase # "none" \/ wanted \notin s.presets[1]..MaxZoom
  THEN space' = s /\ request /\ UNCHANGED <<zoom, relaid, broken>>
  ELSE StartZoom(s, wanted, request)

\* request is what the caller did to the mask and the mouse before
QuickZoom(s, wanted, moved, request) ==
  LET clamped == IF wanted > MaxZoom THEN [s EXCEPT !.zoomIdx = 0]
                 ELSE IF wanted < s.presets[1]
                      THEN [s EXCEPT !.zoomIdx = Len(s.presets) - 1] ELSE s
      target  == IF wanted > MaxZoom THEN MaxZoom
                 ELSE IF wanted < s.presets[1] THEN s.presets[1] ELSE wanted
  IN \/ /\ zoom.phase # "none"
        /\ space' = s /\ request /\ UNCHANGED <<zoom, relaid, broken>>
     \/ /\ zoom.phase = "none" /\ target = s.scale /\ ~moved
        /\ space' = clamped /\ ZoomCompleteEvent /\ UNCHANGED <<zoom, relaid, broken>>
     \/ /\ zoom.phase = "none" /\ (target # s.scale \/ moved)
        /\ StartZoom(clamped, target, request)

UnchangedByZoom == UNCHANGED <<face, icFace, rsFace, window, unbuilt, flip, missed,
                               layoutDue, displayDue>>

\* the wheel, with the zoom key held down
StepZoom ==
  /\ Asked /\ mouseOn
  /\ \E step \in {1, -1}, moved \in BOOLEAN :
       QuickZoom(space, space.scale + step, moved, MouseDisabled)
  /\ UnchangedByZoom

\* the zoom buttons stop at the ends of the presets, a double click cycles
ZoomToPreset ==
  /\ Asked
  /\ \E direction \in {1, -1}, cyclical \in BOOLEAN, moved \in BOOLEAN :
       LET next == space.zoomIdx + direction
           len  == Len(space.presets)
           idx  == (next + len) % len
       IN /\ cyclical => mouseOn /\ direction = 1
          /\ IF zoom.phase # "none"
             THEN MouseDisabled /\ UNCHANGED <<space, zoom, relaid, broken>>
             ELSE IF ~cyclical /\ next \notin 0..(len - 1)
             THEN ZoomCompleteEvent /\ UNCHANGED <<space, zoom, relaid, broken>>
             ELSE QuickZoom([space EXCEPT !.zoomIdx = idx], At(space.presets, idx),
                            moved, MouseDisabled)
  /\ UnchangedByZoom

ResetZoom ==
  /\ Asked
  /\ IF space.scale = space.presets[1]
     THEN ZoomCompleteEvent /\ UNCHANGED <<space, zoom, relaid, broken>>
     ELSE \E moved \in BOOLEAN :
            QuickZoom([space EXCEPT !.zoomIdx = 0], space.presets[1], moved, UpdateMessage)
  /\ UnchangedByZoom

\* the context menu zooms to one device, and tells the controller nothing
FocusOn ==
  /\ Asked /\ mouseOn /\ space.drawn # <<>>
  /\ \E scale \in 1..(MaxZoom + 1), moved \in BOOLEAN :
       QuickZoom(space, scale, moved, NoMessage)
  /\ UnchangedByZoom

EvZoomReady ==
  /\ Ticked /\ zoom.phase = "fading"
  /\ zoom' = [zoom EXCEPT !.phase = "scaling"]
  /\ space' = [space EXCEPT !.infoScale = zoom.target]
  /\ UnchangedByZoom /\ NoMessage /\ UNCHANGED <<relaid, broken>>

EvRackZoomComplete ==
  /\ Ticked /\ zoom.phase = "scaling"
  /\ zoom' = [zoom EXCEPT !.phase = "showing"]
  /\ UnchangedByZoom /\ NoMessage /\ UNCHANGED <<space, relaid, broken>>

EvZoomComplete ==
  /\ Ticked /\ zoom.phase = "showing"
  /\ zoom' = Idle
  /\ space' = SynchroniseZoomIdx([space EXCEPT !.scale = zoom.target])
  /\ ZoomCompleteEvent
  /\ UnchangedByZoom /\ UNCHANGED <<relaid, broken>>
---------------------------------------------------------------------------
(* The face: a flip, or the split view that shows both *)

\* the canvas layers are out of the page while an animation runs, and
\* removeChild throws on one that is: the flip ends there
Flip(f) ==
  IF zoom.phase = "none" /\ flip.phase = "none"
  THEN rsFace' = f /\ flip' = [NoFlip EXCEPT !.phase = "fading"] /\ missed' = FALSE
  ELSE flip' = [flip EXCEPT !.done = 0] /\ missed' = TRUE /\ UNCHANGED rsFace

CoverFlip(f) == mask' = (f # "both" /\ icFace # "both") /\ icFace' = f

SwitchFace ==
  /\ Asked
  /\ \E f \in Faces \ {face} :
       /\ face' = f /\ CoverFlip(f)
       /\ IF f = "both"
          THEN space' = ShowSplitView(space) /\ rsFace' = f /\ RacksRebuilt
          ELSE IF rsFace = "both"
          THEN space' = RevertFromSplitView(space, f) /\ rsFace' = f /\ RacksRebuilt
          ELSE Flip(f) /\ UNCHANGED <<space, relaid>>
  /\ UNCHANGED <<window, unbuilt, zoom, mouseOn, icZooming, layoutDue, displayDue, broken>>

UnchangedByFlip == UNCHANGED <<face, icFace, rsFace, window, unbuilt, zoom,
                               layoutDue, displayDue, relaid, missed, broken>>

EvFlipReady ==
  /\ Ticked /\ flip.phase = "fading"
  /\ flip' = [NoFlip EXCEPT !.phase = "turning", !.done = flip.done,
                            !.waiting = DOMAIN space.drawn, !.count = Len(space.drawn)]
  /\ UnchangedByFlip /\ NoMessage /\ UNCHANGED space

\* the racks turn from the middle outwards
FromMiddle(i) == IF 2 * i > flip.count + 1 THEN 2 * i - (flip.count + 1)
                                           ELSE (flip.count + 1) - 2 * i
EvHalfFlipped ==
  /\ Ticked
  /\ \E i \in flip.waiting :
       /\ \A j \in flip.waiting : FromMiddle(i) <= FromMiddle(j)
       /\ flip' = [flip EXCEPT !.waiting = @ \ {i}, !.turning = @ + 1]
       /\ space' = IF flip.fresh
                   THEN [space EXCEPT !.drawn[i] = Instance(@, face)] ELSE space
  /\ UnchangedByFlip /\ NoMessage

\* mutant: the count is compared before it is moved
EvFlippedLate ==
  /\ Ticked /\ flip.turning > 0
  /\ flip' = [flip EXCEPT !.turning = @ - 1, !.done = @ + 1,
                          !.phase = IF flip.done = Len(space.drawn) THEN "showing" ELSE @]
  /\ UnchangedByFlip /\ NoMessage /\ UNCHANGED space
EvFlipped ==
  /\ Ticked /\ flip.turning > 0
  /\ LET done == flip.done + 1
     IN flip' = [flip EXCEPT !.turning = @ - 1, !.done = done,
                             !.phase = IF done = Len(space.drawn) THEN "showing" ELSE @]
  /\ UnchangedByFlip /\ NoMessage /\ UNCHANGED space

\* the fade takes longer than the racks take to turn one after the other
EvFlipComplete ==
  /\ Ticked /\ flip.phase = "showing" /\ flip.waiting = {} /\ flip.turning = 0
  /\ flip' = NoFlip
  /\ mask' = FALSE /\ mouseOn' = TRUE
  /\ UnchangedByFlip /\ UNCHANGED <<space, icZooming>>
---------------------------------------------------------------------------
(* What arrives in between *)

\* an update of one rack whose images are loaded: synchroniseRacks on
\* model.racks, then resetRackSpace
Synchronise ==
  /\ Arrived
  /\ \/ \E r \in Ids(space.racks) : space' = RefreshRacks(space, Ids(space.racks) \ {r})
     \/ space' = ResetRackSpace(space)
     \/ \E r \in NewRacks \ Ids(space.racks) :
          \E i \in Firsts(space.racks, Ids(space.racks)) \cup {Len(space.racks) + 1} :
            space' = ResetRackSpace(
              [space EXCEPT !.racks = InsertAt(@, i, [id |-> r, side |-> "none"])])
  /\ unbuilt' = FALSE
  /\ RacksRebuilt
  /\ NoMessage
  /\ UNCHANGED <<face, icFace, rsFace, window, zoom, layoutDue, displayDue, broken>>

\* the websocket connects again: all definitions at once, one for each rack
FullRackDataReceived ==
  /\ Arrived /\ ~icZooming
  /\ space' = [space EXCEPT !.racks =
                 LET defs == OneEach(@, Ids(@))
                 IN [i \in DOMAIN defs |-> [id |-> defs[i].id, side |-> "none"]]]
  /\ unbuilt' = TRUE
  /\ NoMessage
  /\ UNCHANGED <<face, icFace, rsFace, window, zoom, flip, layoutDue, displayDue,
                 relaid, missed, broken>>

ImagesLoaded ==
  /\ Ticked /\ unbuilt
  /\ unbuilt' = FALSE
  /\ space' = ResetRackSpace(space)
  /\ RacksRebuilt
  /\ NoMessage
  /\ UNCHANGED <<face, icFace, rsFace, window, zoom, layoutDue, displayDue, broken>>

\* "clear deselected" of the context menu; before the images are loaded the
\* definitions have no instances and the handler throws
DiscardExcludedRacks ==
  /\ Asked /\ mouseOn /\ ~unbuilt
  /\ \E kept \in SUBSET Ids(space.racks) :
       /\ kept # Ids(space.racks)
       /\ space' = RefreshRacks(space, kept)
  /\ RacksRebuilt
  /\ NoMessage
  /\ UNCHANGED <<face, icFace, rsFace, window, unbuilt, zoom, layoutDue, displayDue, broken>>

Resize ==
  /\ Arrived
  /\ window' \in Windows \ {window}
  /\ layoutDue' = TRUE
  /\ UNCHANGED <<face, icFace, rsFace, space, unbuilt, zoom, flip, mask, mouseOn,
                 icZooming, displayDue, relaid, missed, broken>>

LayoutTimer ==
  /\ Ticked /\ layoutDue
  /\ layoutDue' = FALSE
  /\ space' = SetLayout(space)
  /\ relaid' = (relaid \/ zoom.phase # "none")
  /\ UNCHANGED <<face, icFace, rsFace, window, unbuilt, zoom, flip, mask, mouseOn,
                 icZooming, displayDue, missed, broken>>

\* the answer of a metric poll masks the page, and uncovers it once drawn
ReceivedMetrics ==
  /\ Arrived
  /\ mask' = TRUE /\ displayDue' = TRUE
  /\ UNCHANGED <<face, icFace, rsFace, window, space, unbuilt, zoom, flip, mouseOn,
                 icZooming, layoutDue, relaid, missed, broken>>

DisplayMetrics ==
  /\ Ticked /\ displayDue
  /\ mask' = FALSE /\ displayDue' = FALSE
  /\ UNCHANGED <<face, icFace, rsFace, window, space, unbuilt, zoom, flip, mouseOn,
                 icZooming, layoutDue, relaid, missed, broken>>

UserZooms == StepZoom \/ ZoomToPreset \/ ResetZoom \/ FocusOn
ZoomTimer == EvZoomReady \/ EvRackZoomComplete \/ EvZoomComplete
FlipTimer == EvFlipReady \/ EvHalfFlipped \/ EvFlipped \/ EvFlipComplete
Arrives   == Synchronise \/ FullRackDataReceived \/ ImagesLoaded \/ ReceivedMetrics
Next == \/ UserZooms \/ SwitchFace \/ DiscardExcludedRacks \/ Resize
        \/ ZoomTimer \/ FlipTimer \/ LayoutTimer \/ DisplayMetrics
        \/ Arrives

\* the browser runs timers that are due and renderers that animate
Fairness == /\ WF_vars(EvZoomReady) /\ WF_vars(EvRackZoomComplete) /\ WF_vars(EvZoomComplete)
            /\ WF_vars(EvFlipReady) /\ WF_vars(EvHalfFlipped)
            /\ WF_vars(EvFlipped) /\ WF_vars(EvFlipComplete)
            /\ WF_vars(LayoutTimer) /\ WF_vars(DisplayMetrics)
Spec == Init /\ [][Next]_vars
FairSpec == Spec /\ Fairness
---------------------------------------------------------------------------
TypeOK ==
  /\ face \in Faces /\ icFace \in Faces /\ rsFace \in Faces
  /\ window \in Windows
  /\ space.scale \in 1..MaxZoom /\ space.zoomIdx \in 0..(Len(space.presets) - 1)
  /\ \A i \in DOMAIN space.drawn : space.drawn[i].shows \in {"front", "rear"}
  /\ zoom.phase \in {"none", "fading", "scaling", "showing"}
  /\ flip.phase \in {"none", "fading", "turning", "showing"}
  /\ {mask, mouseOn, icZooming, unbuilt, layoutDue, displayDue, relaid, missed, broken} \subseteq BOOLEAN

\* In split view every rack is drawn twice, its front before its rear,
\* whatever updates, discards and full data came before.
SplitPairs ==
  (rsFace = "both" /\ ~unbuilt) =>
     \E defs \in {OneEach(space.racks, Ids(space.racks))} :
        Duplicated(defs) = space.racks /\ Len(space.drawn) = Len(space.racks)

\* Out of a flip, every rack shows the face the user chose last, unless the
\* flip to it could not start.
FaceShown ==
  (flip.phase = "none" /\ ~missed) =>
     \A i \in DOMAIN space.drawn : space.drawn[i].shows = Shows(space.drawn[i], face)

\* Out of a zoom all canvas layers have the scale of the view and the scale
\* is one the presets allow, unless the racks were laid out under the zoom.
LayersAgree ==
  (zoom.phase = "none" /\ ~relaid /\ ~layoutDue) =>
     /\ space.infoScale = space.scale
     /\ space.presets[1] <= space.scale /\ space.scale <= MaxZoom

\* However many racks there are, of whatever heights, and however small the
\* window: no rack is drawn over another or beyond the canvas.
RacksApart ==
  \A racks \in {[i \in DOMAIN space.drawn |-> SizeOf[space.drawn[i].id]]} :
    \A rows \in {NumRows(racks, Size[window])} :
      \A at \in {Place(racks, rows)} :
        Apart(racks, at) /\ WithinCanvas(racks, rows, at)

\* The view shows the face and the scale the user chose, on every layer, and
\* the racks side by side.
Safety == TypeOK /\ SplitPairs /\ FaceShown /\ LayersAgree /\ RacksApart

\* A change of face keeps every rack on the page, unless full data came whose
\* images are not loaded.
FaceKeepsRacks ==
  [][(face' # face /\ ~unbuilt) => Ids(space'.racks) = Ids(space.racks)]_vars

\* The racks that a flip turned and those it still has to turn do not add up
\* to the racks on the page: their number changed, a second flip reset the
\* count, or there is no rack.
Uncountable ==
  LET left == flip.turning + Cardinality(flip.waiting)
  IN /\ flip.phase = "turning"
     /\ \/ flip.done + left # Len(space.drawn)
        \/ left = 0 /\ ~flip.fresh
        \/ space.drawn = <<>>
\* A flip ends, unless the racks change while it turns them or there is none.
FlipEnds == (flip.phase # "none") ~> (flip.phase = "none" \/ broken \/ Uncountable)
\* The update message goes, unless a flip cannot end.
MaskLifts == mask ~> (~mask \/ broken \/ Uncountable)
=============================================================================
