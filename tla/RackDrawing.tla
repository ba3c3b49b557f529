----------------------------- MODULE RackDrawing -----------------------------
(* What the rack view draws over the images of the racks: the metric bars, the
   free spaces shown while a device is dragged, and the highlights of the
   devices under the mouse. Each has a layer of its own, and all of them follow
   the devices, the polls, the mouse and the frames of the browser. *)
EXTENDS SimpleRenderer

CONSTANTS Instances,    \* the objects drawn: a device has one for each face shown
          DeviceOf,     \* the device an instance stands for
          Racks,        \* the racks drawn; a rack's name is also the region of its free space
          RackOf,       \* the rack an instance is in
          Values,       \* metric values
          Through,      \* the instances that highlight the other ones of their device
          Dim,          \* the lowest opacity of a highlight
          Rooms,        \* bounds on the assets each layer may have had in a behaviour
          Zoomed,       \* those bounds under which zooms are followed
          None

ASSUME RegionAssumption == Region = Instances \cup Racks
ASSUME DevicesAssumption == \A i \in Instances : DeviceOf[i] \notin Instances

VARIABLES scene,        \* the layers, and what each object of the view holds of them
          dragged,      \* the device being dragged, or None
          hovered,      \* model.highlighted
          highlighted,  \* RackSpace.highlighted; a device stands for an object of it that
                        \* was destroyed and still holds its highlight
          hint,         \* the device the tooltip of the chart is about, or None
          menu,         \* contextMenu.visible
          zoom,         \* "no", "out" while the layers fade out, "in" until they are back
          room          \* the bounds of this behaviour

vars == <<scene, dragged, hovered, highlighted, hint, menu, zoom, room>>

Layers == {"rackInfo", "info", "alert"}
Devices == {DeviceOf[i] : i \in Instances}
InstancesOf(d) == {i \in Instances : DeviceOf[i] = d}

NewBar(v) == [active |-> FALSE, visible |-> FALSE, assets |-> <<>>, value |-> v]

Init ==
    /\ scene = [layer |-> [l \in Layers |-> NewLayer],
                bar |-> [i \in Instances |-> NewBar(None)],
                spaces |-> [r \in Racks |-> <<>>],
                mark |-> [i \in Instances |-> 0],
                drag |-> 0,
                hasty |-> FALSE,
                threw |-> FALSE]
    /\ dragged = None
    /\ hovered = {}
    /\ highlighted = {}
    /\ hint = None
    /\ menu = FALSE
    /\ zoom = "no"
    /\ room \in Rooms

------------------------------------------------------------------------------
(* Steps of a handler take a scene to a scene. After an exception the rest of
   the handler does nothing. *)

Throw(s) == [s EXCEPT !.threw = TRUE]

EachInstance == SetToSeq(Instances)
EachRack == SetToSeq(Racks)

BarDraw(s, i) ==
    LET L == add(s.layer.info, [region |-> i, alpha |-> 1, val |-> s.bar[i].value])
    IN  [s EXCEPT !.layer.info = L, !.bar[i].assets = Append(@, L.assetId)]

Show(s, i) == IF s.bar[i].visible THEN s ELSE BarDraw([s EXCEPT !.bar[i].visible = TRUE], i)

BarErased(s, i) == FoldLeft(remove, s.layer.info, s.bar[i].assets)

Hide(s, i) ==
    IF s.bar[i].visible
    THEN [s EXCEPT !.layer.info = BarErased(s, i), !.bar[i].visible = FALSE, !.bar[i].assets = <<>>]
    ELSE s

evSpaceHidden(s, id) == [s EXCEPT !.layer.info = remove(@, id)]

\* Mutant: a highlight that has faded in stays
PulseOnce(s, l, anim) ==
    CASE anim.onComplete = "hide" -> Hide(s, anim.owner)
      [] anim.onComplete = "evSpaceHidden" -> evSpaceHidden(s, anim.id)
      [] anim.onComplete = "evFadedOut" ->
            [s EXCEPT !.layer[l] = animate(@, anim.id, [alpha |-> 1], "none", anim.owner)]
      [] OTHER -> s

(* The callbacks of a finished animation; those of a highlight start the next one. *)
Callback(s, l, anim) ==
    CASE anim.onComplete = "hide" -> Hide(s, anim.owner)
      [] anim.onComplete = "evSpaceHidden" -> evSpaceHidden(s, anim.id)
      [] anim.onComplete = "evFadedOut" ->
            [s EXCEPT !.layer[l] = animate(@, anim.id, [alpha |-> 1], "evFadedIn", anim.owner)]
      [] anim.onComplete = "evFadedIn" ->
            [s EXCEPT !.layer[l] = animate(@, anim.id, [alpha |-> Dim], "evFadedOut", anim.owner)]
      [] OTHER -> s

(* Animate an asset of a layer: one that was removed throws, and an animation
   that changes nothing calls back at once and leaves the one that runs. *)
Animate(s, l, id, to, onComplete, owner) ==
    IF s.threw THEN s
    ELSE IF ~Has(s.layer[l], id) THEN Throw(s)
    ELSE IF Changing(s.layer[l], id, to) # {}
         THEN [s EXCEPT !.layer[l] = animate(@, id, to, onComplete, owner)]
         ELSE Callback(s, l, [id |-> id, onComplete |-> onComplete, owner |-> owner])

BarAsset(s, i) == IF s.bar[i].assets = <<>> THEN 0 ELSE Head(s.bar[i].assets)

UpdateBar(s, i) == Animate(s, "info", BarAsset(s, i), [val |-> s.bar[i].value], "none", i)

SetActive(s, i, active) ==
    LET t == [s EXCEPT !.bar[i].active = active]
    IN  IF active /\ t.bar[i].value # None THEN Show(t, i) ELSE Hide(t, i)

(* The bar takes the value of a poll, shows it and moves to it. *)
Update(s, i, v) ==
    LET t == [s EXCEPT !.bar[i].value = v]
    IN  CASE s.threw -> s
          [] ~s.threw /\ v # None /\ t.bar[i].active -> UpdateBar(Show(t, i), i)
          [] OTHER -> Hide(t, i)

FadeOut(s, i) ==
    IF s.bar[i].active /\ s.bar[i].assets # <<>>
    THEN Animate([s EXCEPT !.bar[i].visible = FALSE], "info", BarAsset(s, i), [alpha |-> 0], "hide", i)
    ELSE s

FadeIn(s, i) ==
    LET t == Show(s, i)
        id == BarAsset(t, i)
    IN  CASE s.threw \/ ~s.bar[i].active \/ s.bar[i].visible -> s
          [] ~Has(t.layer.info, id) -> Throw(t)
          [] OTHER -> Animate([t EXCEPT !.layer.info = setAttributes(@, id, [alpha |-> 0])],
                              "info", id, [alpha |-> 1], "none", i)

FadeMetrics(s, r, in) ==
    FoldLeft(LAMBDA t, i : IF RackOf[i] # r THEN t ELSE IF in THEN FadeIn(t, i) ELSE FadeOut(t, i), s, EachInstance)

createFreeSpaceHighlight(s, r) ==
    LET L == add(s.layer.rackInfo, [region |-> r, alpha |-> 0, val |-> None])
        t == [s EXCEPT !.layer.rackInfo = L, !.spaces[r] = Append(@, L.assetId)]
    IN  Animate(t, "rackInfo", L.assetId, [alpha |-> 1], "none", None)

(* The metrics of the rack fade out (not for a blade), its free space fades in. *)
showFreeSpaces(s, r, free, blade) ==
    LET t == IF blade THEN s ELSE FadeMetrics(s, r, FALSE)
    IN  IF r \in free /\ ~t.threw THEN createFreeSpaceHighlight(t, r) ELSE t

hideSpaces(s, r) ==
    LET t == FoldLeft(LAMBDA u, id : Animate(u, "rackInfo", id, [alpha |-> 0], "evSpaceHidden", None),
                      s, s.spaces[r])
        new == \E id \in ToSet(s.spaces[r]) : s.layer.rackInfo.assetDir[id].alpha = 0
    IN  IF s.threw THEN s
        ELSE FadeMetrics([t EXCEPT !.spaces[r] = <<>>, !.hasty = @ \/ new], r, TRUE)

(* A highlight pulses: it is drawn at its highest opacity and starts to fade. *)
Highlight(L, i) ==
    LET M == add(L, [region |-> i, alpha |-> 1, val |-> None])
    IN  animate(M, M.assetId, [alpha |-> Dim], "evFadedOut", i)

Marked(s, i) == s.mark[i] # 0

MarkOne(s, i) ==
    IF Marked(s, i) THEN s
    ELSE LET L == Highlight(s.layer.alert, i) IN [s EXCEPT !.layer.alert = L, !.mark[i] = L.assetId]

UnmarkOne(s, i) == [s EXCEPT !.layer.alert = remove(@, s.mark[i]), !.mark[i] = 0]

Others(i) == {j \in Instances \ {i} : DeviceOf[j] = DeviceOf[i]}

Select(s, i) ==
    IF Marked(s, i) THEN s
    ELSE FoldLeft(MarkOne, MarkOne(s, i), SetToSeq(IF i \in Through THEN Others(i) ELSE {}))

Deselect(s, i) ==
    IF Marked(s, i) THEN FoldLeft(UnmarkOne, UnmarkOne(s, i), SetToSeq(Others(i))) ELSE s

(* An object that was destroyed takes the highlights off those that came in
   its place, which have its id. *)
removeHighlights(s, old) ==
    FoldLeft(Deselect, s,
             SetToSeq(UNION {IF x \in Instances THEN {x} ELSE InstancesOf(x) : x \in old}))

highlightDevice(s, old, new) == FoldLeft(Select, removeHighlights(s, old), SetToSeq(new))

evHideHint(s) == FoldLeft(Deselect, s, SetToSeq(InstancesOf(hint)))

(* showDrag and hideDrag of a device: a highlight of its own on the layer of the spaces. *)
hideDrag(s) == IF s.threw THEN s ELSE [s EXCEPT !.layer.rackInfo = remove(@, s.drag), !.drag = 0]

showDrag(s, i) ==
    LET L == Highlight(hideDrag(s).layer.rackInfo, i)
    IN  IF s.threw THEN s ELSE [s EXCEPT !.layer.rackInfo = L, !.drag = L.assetId]

\* Mutant: only the rack of the device hides its spaces
stopDragHere(s) == hideDrag(hideSpaces(s, RackOf[dragged]))

stopDrag(s) == hideDrag(FoldLeft(hideSpaces, s, EachRack))

(* runAnims: the callbacks may add or remove animations of the list they are
   called from; an animation whose asset is gone, or an index past the end,
   throws, and the layer asks for no further frame. *)
RunOne(acc, l) ==
    LET L == acc.s.layer[l]
        anim == L.anims[acc.count]
        t == [acc.s EXCEPT !.layer[l] = Step(@, acc.count)]
    IN  CASE acc.count > acc.len \/ L.dead -> acc
          [] acc.count > Len(L.anims) \/ ~Has(L, anim.id) -> [acc EXCEPT !.s.layer[l].dead = TRUE]
          [] anim.frameIdx + 1 < Frames -> [acc EXCEPT !.s = t, !.count = @ + 1]
          [] OTHER -> [acc EXCEPT !.s = Callback(t, l, anim), !.len = @ - 1]

runAnims(s, l) ==
    LET anims == s.layer[l].anims
    IN  IF s.layer[l].paused THEN s
        ELSE FoldLeft(LAMBDA acc, k : RunOne(acc, l), [s |-> s, count |-> 1, len |-> Len(anims)], anims).s

LayerFrame(s, l) ==
    LET t == runAnims(s, l)
    IN  IF s.layer[l].dead THEN s
        ELSE IF t.layer[l].dead THEN t ELSE [t EXCEPT !.layer[l] = drawFrame(@)]

------------------------------------------------------------------------------
(* Actions. An exception is the last thing the model follows. *)

Bounded(s) == \A l \in Layers : s.layer[l].assetId <= room[l]

Becomes(s) == ~scene.threw /\ Bounded(s) /\ scene' = s

(* A frame of the browser: each layer in the order it was made. *)
Frame ==
    /\ Becomes(LayerFrame(LayerFrame(LayerFrame(scene, "rackInfo"), "info"), "alert"))
    /\ UNCHANGED <<dragged, hovered, highlighted, hint, menu, zoom, room>>

Poll ==
    /\ \E data \in [Devices -> {None} \cup Values] :
          Becomes(FoldLeft(LAMBDA s, i : Update(s, i, data[DeviceOf[i]]), evHideHint(scene), EachInstance))
    /\ hint' = None
    /\ UNCHANGED <<dragged, hovered, highlighted, menu, zoom, room>>

(* A change of level, filter, selection or view draws the devices again, and
   each decides whether its bar is to be shown. *)
Draw ==
    /\ \E active \in SUBSET Instances :
          Becomes(FoldLeft(LAMBDA s, i : SetActive(s, i, i \in active), scene, EachInstance))
    /\ UNCHANGED <<dragged, hovered, highlighted, hint, menu, zoom, room>>

StartDrag ==
    /\ dragged = None
    /\ \E i \in Instances, free \in SUBSET Racks, blade \in BOOLEAN :
          /\ Becomes(showDrag(FoldLeft(LAMBDA s, r : showFreeSpaces(s, r, free, blade), scene, EachRack), i))
          /\ dragged' = i
    /\ UNCHANGED <<hovered, highlighted, hint, menu, zoom, room>>

StopDrag ==
    /\ dragged # None
    /\ Becomes(stopDrag(scene))
    /\ dragged' = IF scene'.threw THEN dragged ELSE None
    /\ UNCHANGED <<hovered, highlighted, hint, menu, zoom, room>>

(* A live update ends a drag and builds the racks again: the objects are
   destroyed with their highlights and bars, the new ones take the last values. *)
destroy(s, i) ==
    [s EXCEPT !.layer.alert = remove(@, s.mark[i]), !.mark[i] = 0,
              !.layer.info = BarErased(s, i), !.bar[i] = NewBar(s.bar[i].value)]

Rebuild ==
    LET s == IF dragged = None THEN scene ELSE stopDrag(scene)
        t == [FoldLeft(destroy, s, EachInstance) EXCEPT !.spaces = [r \in Racks |-> <<>>]]
    IN  /\ Becomes(IF s.threw THEN s ELSE t)
        /\ dragged' = IF s.threw THEN dragged ELSE None
        /\ hovered' = IF s.threw \/ hovered = {} THEN hovered ELSE {None}
        /\ highlighted' = IF s.threw THEN highlighted
                          ELSE (highlighted \cap Devices)
                               \cup {DeviceOf[i] : i \in {j \in highlighted \cap Instances : Marked(s, j)}}
        /\ hint' = IF s.threw THEN hint ELSE None
        /\ UNCHANGED <<menu, zoom, room>>

Highlighting(new) ==
    /\ Becomes(highlightDevice(scene, highlighted, new))
    /\ hovered' = new
    /\ highlighted' = new

highlightAt(new) ==
    IF hovered = new THEN UNCHANGED <<hovered, highlighted>> /\ Becomes(scene) ELSE Highlighting(new)

Under == {{}} \cup {{i} : i \in Instances}

(* The mouse moves, over a device or over none. *)
Hover ==
    /\ ~menu
    /\ \E new \in Under : highlightAt(new)
    /\ UNCHANGED <<dragged, hint, menu, zoom, room>>

Leave ==
    /\ ~menu
    /\ Highlighting({})
    /\ UNCHANGED <<dragged, hint, menu, zoom, room>>

(* The tooltip of the chart opens on a device and highlights the instances
   that can be seen, and takes the highlights off when it closes, also when a
   poll draws the chart again. (It may cross to another label without closing:
   see RackChart.) *)
HoverChart ==
    /\ hint = None
    /\ \E d \in Devices : \E seen \in SUBSET InstancesOf(d) \ {{}} :
          /\ Becomes(FoldLeft(Select, scene, SetToSeq(seen)))
          /\ hint' = d
    /\ UNCHANGED <<dragged, hovered, highlighted, menu, zoom, room>>

LeaveChart ==
    /\ hint # None
    /\ Becomes(evHideHint(scene))
    /\ hint' = None
    /\ UNCHANGED <<dragged, hovered, highlighted, menu, zoom, room>>

(* A right click closes the menu and highlights what is under the mouse; the
   menu opens again when it has an option to offer (followed where there is
   room for a highlight). *)
showContextMenu ==
    /\ \E new \in Under : highlightAt(new)
    /\ menu' \in {FALSE, room["alert"] > 0}
    /\ UNCHANGED <<dragged, hint, zoom, room>>

(* A click while the menu is open only closes it. *)
Click ==
    /\ menu
    /\ menu' = FALSE
    /\ \E new \in Under : highlightAt(new)
    /\ UNCHANGED <<dragged, hint, zoom, room>>

MenuClick ==
    /\ menu
    /\ menu' = FALSE
    /\ UNCHANGED <<scene, dragged, hovered, highlighted, hint, zoom, room>>

(* redraw takes the highlights off, not the model's idea of them. *)
Redraw ==
    /\ Becomes(FoldLeft(LAMBDA s, i : SetActive(s, i, s.bar[i].active),
                        removeHighlights(scene, highlighted), EachInstance))
    /\ highlighted' = {}
    /\ UNCHANGED <<dragged, hovered, hint, menu, zoom, room>>

Paused(s, paused) == [s EXCEPT !.layer = [l \in Layers |-> [@[l] EXCEPT !.paused = paused]]]

quickZoom ==
    /\ zoom = "no" /\ room \in Zoomed
    /\ Becomes(Paused(removeHighlights(scene, highlighted), TRUE))
    /\ zoom' = "out"
    /\ menu' = FALSE
    /\ highlighted' = {}
    /\ UNCHANGED <<dragged, hovered, hint, room>>

evZoomReady ==
    /\ zoom = "out"
    /\ Becomes([scene EXCEPT !.layer = [l \in Layers |-> redraw(@[l])]])
    /\ zoom' = "in"
    /\ UNCHANGED <<dragged, hovered, highlighted, hint, menu, room>>

evZoomComplete ==
    /\ zoom = "in"
    /\ Becomes(Paused(scene, FALSE))
    /\ zoom' = "no"
    /\ UNCHANGED <<dragged, hovered, highlighted, hint, menu, room>>

(* After an exception the page stays as the handler left it. *)
Halted == scene.threw /\ UNCHANGED vars

Next ==
    \/ Halted
    \/ Frame \/ Poll \/ Draw \/ StartDrag \/ StopDrag \/ Rebuild
    \/ Hover \/ Leave \/ HoverChart \/ LeaveChart \/ showContextMenu \/ Click \/ MenuClick
    \/ Redraw \/ quickZoom \/ evZoomReady \/ evZoomComplete

Spec == Init /\ [][Next]_vars

------------------------------------------------------------------------------
TypeOK ==
    /\ \A l \in Layers : IsLayer(scene.layer[l])
    /\ \A i \in Instances : scene.bar[i].value \in {None} \cup Values
    /\ dragged \in {None} \cup Instances
    /\ hovered \subseteq {None} \cup Instances
    /\ highlighted \subseteq Instances \cup Devices
    /\ hint \in {None} \cup Devices
    /\ menu \in BOOLEAN
    /\ zoom \in {"no", "out", "in"}

(* The loop of no layer dies: whatever a callback removes, each animation of
   the list has its asset (runAnims, remove and the callbacks of the bars). *)
LayersLive == \A l \in Layers : ~scene.layer[l].dead

(* A space that a hasty drop has left in its rack: it shows, and nothing will
   take it away. *)
LeftBehind(L, r) ==
    \E id \in DOMAIN L.assetDir :
        /\ L.assetDir[id].region = r /\ L.assetDir[id].alpha # 0 /\ id \notin ToSet(scene.spaces[r])
        /\ \A k \in DOMAIN L.anims : L.anims[k].id = id => L.anims[k].onComplete # "evSpaceHidden"

(* The canvas is current: a region that no frame has still to clear or draw
   shows the assets that are in it, unless one bar has drawn two of them, or
   a space was left behind, which a later drag clears with its own. *)
PictureIsCurrent ==
    \A l \in Layers, r \in Region :
        LET L == scene.layer[l] IN
        (/\ l = "info" /\ r \in Instances => Len(scene.bar[r].assets) <= 1
         /\ l = "rackInfo" /\ r \in Racks => ~LeftBehind(L, r)
         /\ r \notin L.clearList
         /\ \A id \in L.drawList : Has(L, id) => L.assetDir[id].region # r)
        => L.canvas[r] = Looks(L, DOMAIN L.assetDir, r)

(* Nothing stays in the layer of the bars that no bar would remove again
   (hide and destroy, with fades, polls and rebuilds between them). *)
BarsOwnTheirAssets ==
    DOMAIN scene.layer.info.assetDir \subseteq UNION {ToSet(scene.bar[i].assets) : i \in Instances}

(* After a drag its spaces fade from the picture, unless it ended before they
   had started to show, or a handler threw (hideSpaces). *)
SpacesFadeAway ==
    /\ dragged = None /\ ~scene.threw /\ ~scene.hasty
    /\ Settled(scene.layer.rackInfo)
    => \A r \in Region : scene.layer.rackInfo.canvas[r] = {}

(* A highlight belongs to an instance of a device that the view has
   highlighted or the tooltip of the chart is about, and goes with it (select,
   deselect, destroy). *)
HighlightsBelong ==
    /\ DOMAIN scene.layer.alert.assetDir = {scene.mark[i] : i \in Instances} \ {0}
    /\ \A i \in Instances : Marked(scene, i) => DeviceOf[i] \in {hint} \cup {DeviceOf[j] : j \in highlighted \cap Instances}

(* A highlight pulses for as long as it is there: its fades never stop, by a
   zoom, a redraw or an update. *)
HighlightsPulse == \A i \in Instances : Marked(scene, i) => scene.mark[i] \in Animated(scene.layer.alert)

(* Every layer draws what is in it, and what is in it has an owner. *)
Safety == TypeOK /\ LayersLive /\ PictureIsCurrent /\ BarsOwnTheirAssets /\ HighlightsBelong

==============================================================================
