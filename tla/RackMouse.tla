------------------------------ MODULE RackMouse ------------------------------
(***************************************************************************)
(* The mouse over the racks: presses, clicks, double clicks and drags of   *)
(* devices (IRVController's handlers, RackSpaceDragHandler), the free      *)
(* spaces a rack offers (Rack, RackObject), and the server that is asked   *)
(* for each move and announces the moves of everybody.                     *)
(*                                                                         *)
(* A point is a U of a rack, or Nowhere.  A live update carries the whole  *)
(* layout: RackView models which parts of it may be lost.  Devices are     *)
(* numbered in the order in which the server lists them.                   *)
(***************************************************************************)
EXTENDS RackLayout, Sequences

CONSTANTS
  Layouts,      \* layouts the page may open with
  Movable,      \* devices whose template and team role allow a move
  Nowhere,      \* a point over no rack
  NoDrag,       \* drag = NoDrag: no device has been picked up
  NoSite,       \* drag.site = NoSite: no drop site is highlighted
  NoLayout,     \* loading = NoLayout: no images are waited for
  MaxPresses,   \* bound on the presses of the button
  MaxMoves      \* bound on the moves of other users

ASSUME MouseAssumption ==
  /\ NodeIds \subseteq Nat /\ Movable \subseteq NodeIds
  /\ Layouts \subseteq Layout /\ NoLayout \notin Layout
  /\ MaxPresses \in Nat /\ MaxMoves \in Nat

VARIABLES
  mouse,     \* IRVController: clickAssigned, clickTmr, dragging, downCoords...
  drag,      \* RackSpaceDragHandler: draggee and nearest
  page,      \* the face, the chassis as shown, and Rack.uOccupied's layout
  sites,     \* availableSpaces of all racks
  zooming,   \* the mask of a zoom covers the page
  loading,   \* a received layout whose images are still loading
  server,    \* the layout in the database
  posted,    \* update_position requests that have no answer
  news,      \* layouts announced and not received
  presses,   \* presses so far
  moves,     \* moves of others so far
  cut,       \* history: a live update cut a click short
  astray     \* history: a move was refused, or made with a destroyed chassis

vars == <<mouse, drag, page, sites, zooming, loading, server, posted, news,
          presses, moves, cut, astray>>
pageVars   == <<page, sites, loading>>
serverVars == <<server, posted, news, moves, astray>>

Points == RackIds \X (0..(MaxHeight - 1))
Side(face) == IF face = "front" THEN "f" ELSE "b"
HeightOf(row) == TemplateHeight[row.template]
At(row, rack, u) == [row EXCEPT !.rack = rack, !.start = u + 1]
---------------------------------------------------------------------------
(* Which U of a rack are free *)

\* uOccupied, uOccupiedFront or uOccupiedRear has no child at u, or has n:
\* the child that was written last
IsFree(layout, rack, u, facings, n) ==
  LET over == {m \in In(layout, rack) : OccupiesU(layout[m], u + 1, facings)}
  IN \A m \in over : m <= n /\ n \in over

\* mutant: a half depth device is offered what both faces leave free
SpacesOfEitherFace(p, n) ==
  LET row == p.at[n]
      hash == IF FullDepth(row) THEN {Side(p.face)} ELSE Facings
  IN {[rack |-> row.rack, u |-> u, height |-> HeightOf(row), facing |-> Side(p.face)] :
        u \in {v \in 0..(MaxHeight - HeightOf(row)) :
                 \A i \in v..(v + HeightOf(row) - 1) : IsFree(p.built, row.rack, i, hash, n)}}
\* the starts from which the device would cover free U only
FreeSpacesForChassis(p, n) ==
  LET row == p.at[n]
      hash == IF FullDepth(row) THEN Facings ELSE {Side(p.face)}
  IN {[rack |-> row.rack, u |-> u, height |-> HeightOf(row), facing |-> Side(p.face)] :
        u \in {v \in 0..(MaxHeight - HeightOf(row)) :
                 \A i \in v..(v + HeightOf(row) - 1) : IsFree(p.built, row.rack, i, hash, n)}}

\* the devices that may be on top at a point: those mounted on this side
\* are drawn last
DevicesAt(p, point) ==
  IF point = Nowhere THEN {}
  ELSE LET over == {n \in In(p.at, point[1]) :
                      OccupiesU(p.at[n], point[2] + 1, Facings)}
           near == {n \in over : p.at[n].facing = Side(p.face)}
       IN IF near # {} THEN near ELSE over

\* the drop sites of any rack that the point is on
SitesAt(point) ==
  {s \in sites : /\ point # Nowhere /\ s.rack = point[1]
                 /\ point[2] \in s.u..(s.u + s.height - 1)}
---------------------------------------------------------------------------
Init ==
  /\ mouse = [pressed |-> FALSE, down |-> Nowhere, heard |-> FALSE, dragging |-> FALSE,
              cancelled |-> FALSE, assigned |-> TRUE, timer |-> FALSE]
  /\ drag = NoDrag
  /\ server \in Layouts
  /\ page = [face |-> "front", at |-> server, built |-> server]
  /\ sites = {} /\ loading = NoLayout /\ zooming = FALSE
  /\ posted = {} /\ news = <<>>
  /\ presses = 0 /\ moves = 0 /\ cut = FALSE /\ astray = FALSE

(* RackSpaceDragHandler *)

CanIMove(n) == n \in Movable /\ page.at[n].facing = Side(page.face)

StartDrag(point) ==
  \/ /\ \A n \in DevicesAt(page, point) : ~CanIMove(n)
     /\ drag' = NoDrag /\ UNCHANGED pageVars
  \/ \E n \in {m \in DevicesAt(page, point) : CanIMove(m)} :
       /\ drag' = [node |-> n, start |-> page.at[n].start, destroyed |-> FALSE,
                   site |-> NoSite]
       /\ sites' = {s \in sites : s.rack # page.at[n].rack} \cup FreeSpacesForChassis(page, n)
       /\ UNCHANGED <<page, loading>>

\* the nearest space may be another one than the space under the mouse
DragOver(point) ==
  /\ \/ UNCHANGED drag
     \/ \E s \in SitesAt(point) : drag # NoDrag /\ drag' = [drag EXCEPT !.site = s]
  /\ UNCHANGED pageVars

\* mutant: the point where the device is dropped is not looked at
AnyLocation(point) == TRUE
ValidLocationToMove(point) ==
  \/ point # Nowhere /\ DevicesAt(page, point) = {}
  \/ \E n \in DevicesAt(page, point) :
       n = drag.node \/ page.at[n].facing # drag.site.facing

\* mutant: the U is counted from zero
MoveFromZero(s) ==
  LET n == drag.node
  IN /\ page' = [page EXCEPT !.at[n] = At(@, s.rack, s.u)]
     /\ posted' = posted \cup {[node |-> n, facing |-> s.facing, start |-> s.u]}
     /\ astray' = (astray \/ drag.destroyed)
\* updateChassisPosition finds the chassis of the page by its id; the request
\* is made by the one that was picked up, with the face it was drawn with
MoveDeviceBeingDragged(s) ==
  LET n == drag.node
      left == drag.destroyed /\ page.at[n] # NoNode /\ page.at[n].rack = s.rack
  IN /\ page' = [page EXCEPT !.at[n] = At(@, s.rack, s.u)]
     /\ \E facing \in IF left THEN Facings ELSE {s.facing} :
          posted' = posted \cup {[node |-> n, facing |-> facing,
                                 start |-> IF left THEN drag.start ELSE s.u + 1]}
     /\ astray' = (astray \/ drag.destroyed)

StopDrag(point) ==
  IF drag # NoDrag /\ drag.site # NoSite /\ ValidLocationToMove(point)
  THEN /\ MoveDeviceBeingDragged(drag.site) /\ drag' = [drag EXCEPT !.site = NoSite]
       /\ UNCHANGED <<sites, loading, server, news, moves>>
  ELSE /\ drag' = IF drag = NoDrag THEN drag ELSE [drag EXCEPT !.site = NoSite]
       /\ UNCHANGED <<pageVars, serverVars>>

(* IRVController's handlers; under the mask of a zoom nothing is heard *)

EvMouseDownRack ==
  /\ ~zooming /\ ~mouse.pressed /\ presses < MaxPresses
  /\ \E point \in Points \cup {Nowhere} :
       mouse' = [mouse EXCEPT !.pressed = TRUE, !.down = point, !.heard = TRUE]
  /\ presses' = presses + 1
  /\ UNCHANGED <<drag, zooming, pageVars, serverVars, cut>>

EvDrag ==
  /\ ~zooming /\ mouse.heard
  /\ \E point \in Points \cup {Nowhere} :
       IF mouse.dragging
       THEN DragOver(point) /\ UNCHANGED mouse
       ELSE /\ point # mouse.down
            /\ mouse' = [mouse EXCEPT !.dragging = TRUE, !.assigned = TRUE]
            /\ StartDrag(mouse.down)
  /\ UNCHANGED <<zooming, serverVars, presses, cut>>

Released == [mouse EXCEPT !.pressed = FALSE, !.timer = FALSE, !.heard = FALSE]

EvMouseUpAfterCancel ==
  /\ ~zooming /\ mouse.pressed /\ mouse.cancelled
  /\ mouse' = [Released EXCEPT !.cancelled = FALSE]
  /\ UNCHANGED <<drag, zooming, pageVars, serverVars, presses, cut>>

EvMouseUpDragging ==
  /\ ~zooming /\ mouse.pressed /\ ~mouse.cancelled /\ mouse.dragging
  /\ \E point \in Points \cup {Nowhere} : StopDrag(point)
  /\ mouse' = [Released EXCEPT !.assigned = TRUE, !.dragging = FALSE]
  /\ UNCHANGED <<zooming, presses, cut>>

EvMouseUpFirst ==
  /\ ~zooming /\ mouse.pressed /\ ~mouse.cancelled /\ ~mouse.dragging /\ mouse.assigned
  /\ mouse' = [Released EXCEPT !.assigned = FALSE, !.timer = TRUE]
  /\ UNCHANGED <<drag, zooming, pageVars, serverVars, presses, cut>>

EvDoubleClick ==
  /\ ~zooming /\ mouse.pressed /\ ~mouse.cancelled /\ ~mouse.dragging /\ ~mouse.assigned
  /\ mouse' = [Released EXCEPT !.assigned = TRUE]
  /\ zooming' = TRUE /\ cut' = FALSE
  /\ UNCHANGED <<drag, pageVars, serverVars, presses>>

\* the button is released over something else than the racks
MouseUpElsewhere ==
  /\ mouse.pressed
  /\ mouse' = [mouse EXCEPT !.pressed = FALSE]
  /\ UNCHANGED <<drag, zooming, pageVars, serverVars, presses, cut>>

\* mutant: the click is not ticked off
EvClickUnassigned ==
  /\ mouse.timer
  /\ mouse' = [mouse EXCEPT !.timer = FALSE]
  /\ UNCHANGED <<drag, zooming, pageVars, serverVars, presses, cut>>
\* DOUBLE_CLICK_TIMEOUT after the first click
EvClick ==
  /\ mouse.timer
  /\ mouse' = IF mouse.assigned THEN [mouse EXCEPT !.timer = FALSE]
              ELSE [mouse EXCEPT !.timer = FALSE, !.assigned = TRUE,
                                 !.dragging = FALSE, !.heard = FALSE]
  /\ UNCHANGED <<drag, zooming, pageVars, serverVars, presses, cut>>

EvRightClickRack ==
  /\ ~zooming /\ ~mouse.assigned
  /\ mouse' = [mouse EXCEPT !.assigned = TRUE]
  /\ cut' = FALSE
  /\ UNCHANGED <<drag, zooming, pageVars, serverVars, presses>>

EvZoomComplete ==
  /\ zooming /\ zooming' = FALSE
  /\ UNCHANGED <<mouse, drag, pageVars, serverVars, presses, cut>>

SwitchFace ==
  /\ ~zooming /\ ~mouse.pressed
  /\ page' = [page EXCEPT !.face = IF @ = "front" THEN "rear" ELSE "front"]
  /\ UNCHANGED <<mouse, drag, sites, zooming, loading, serverVars, presses, cut>>

(* Live updates *)

\* mutant: the device is dropped where the mouse was pressed
CancelWhereDown == mouse.down
\* cancelDragging stops the drag at the origin of the canvas
Origin == Nowhere

CancelDragging ==
  /\ cut' = (cut \/ (~mouse.assigned /\ ~mouse.dragging))
  /\ mouse' = LET deaf == [mouse EXCEPT !.timer = FALSE, !.heard = FALSE]
              IN IF mouse.dragging
                 THEN [deaf EXCEPT !.assigned = TRUE, !.dragging = FALSE,
                                   !.cancelled = TRUE]
                 ELSE deaf

\* new instances for all racks and chassis
Rebuild(layout) ==
  /\ page' = [page EXCEPT !.at = layout, !.built = layout] /\ sites' = {}
  /\ loading' = NoLayout

Destroyed(d) == IF d = NoDrag THEN d ELSE [d EXCEPT !.destroyed = TRUE]
Unsited(d) == IF d = NoDrag THEN d ELSE [d EXCEPT !.site = NoSite]

\* a change of the racks: with images to load the page is rebuilt later
ReceiveUpdate ==
  /\ ~zooming /\ news # <<>>
  /\ news' = Tail(news)
  /\ CancelDragging
  /\ IF /\ mouse.dragging /\ drag # NoDrag /\ drag.site # NoSite
        /\ ValidLocationToMove(Origin)
     THEN /\ MoveDeviceBeingDragged(drag.site)
          /\ drag' = Unsited(drag) /\ loading' = Head(news) /\ UNCHANGED sites
     ELSE /\ \/ Rebuild(Head(news)) /\ drag' = Destroyed(Unsited(drag))
             \/ /\ loading' = Head(news) /\ UNCHANGED <<page, sites>>
                /\ drag' = IF mouse.dragging THEN Unsited(drag) ELSE drag
          /\ UNCHANGED <<posted, astray>>
  /\ UNCHANGED <<zooming, server, moves, presses>>

ImagesLoaded ==
  /\ loading # NoLayout
  /\ Rebuild(loading)
  /\ drag' = Destroyed(drag)
  /\ UNCHANGED <<mouse, zooming, serverVars, presses, cut>>

(* The server: update_position *)

Apart(layout) ==
  \A n, m \in Live(layout) :
    Rivals(layout, n, m) => layout[n].start > EndU(layout[m]) \/ layout[m].start > EndU(layout[n])

\* Location#update_position: the rack_id that is sent is not read
Asked(row, request) == [row EXCEPT !.start = request.start, !.facing = request.facing]

\* a save that changes nothing is announced as well
UpdatePosition(request) ==
  LET row == Asked(server[request.node], request)
  IN /\ posted' = posted \ {request}
     /\ \/ /\ LocationIsValid(server, request.node, row, MaxHeight)
           /\ server' = [server EXCEPT ![request.node] = row]
           /\ news' = Append(news, server')
           /\ UNCHANGED astray
        \/ /\ ~LocationIsValid(server, request.node, row, MaxHeight)
           /\ astray' = TRUE /\ UNCHANGED <<server, news>>
  /\ UNCHANGED <<mouse, drag, zooming, pageVars, moves, presses, cut>>

SomebodyMoves ==
  /\ moves < MaxMoves /\ moves' = moves + 1
  /\ \E n \in Live(server), start \in Us, facing \in Facings :
       LET row == [server[n] EXCEPT !.start = start, !.facing = facing]
       IN /\ row # server[n] /\ LocationIsValid(server, n, row, MaxHeight)
          /\ server' = [server EXCEPT ![n] = row]
          /\ news' = Append(news, server')
  /\ Apart(server')
  /\ UNCHANGED <<mouse, drag, zooming, pageVars, posted, astray, presses, cut>>

Answer == \E request \in posted : UpdatePosition(request)
EvMouseUpRack == EvMouseUpAfterCancel \/ EvMouseUpDragging \/ EvMouseUpFirst \/ EvDoubleClick
Next == \/ EvMouseDownRack \/ EvDrag \/ EvMouseUpRack \/ MouseUpElsewhere \/ EvClick
        \/ EvRightClickRack \/ EvZoomComplete \/ SwitchFace
        \/ ReceiveUpdate \/ ImagesLoaded \/ Answer \/ SomebodyMoves

Spec == Init /\ [][Next]_vars
FairSpec == Spec /\ WF_vars(EvClick) /\ WF_vars(EvZoomComplete)
---------------------------------------------------------------------------
Mouse == [pressed : BOOLEAN, down : Points \cup {Nowhere}, heard : BOOLEAN,
          dragging : BOOLEAN, cancelled : BOOLEAN, assigned : BOOLEAN, timer : BOOLEAN]
Site == [rack : RackIds, u : 0..(MaxHeight - 1), height : Nat, facing : Facings]
Drag == [node : NodeIds, start : Us, destroyed : BOOLEAN, site : Site \cup {NoSite}]
Request == [node : NodeIds, start : Us, facing : Facings]

TypeOK ==
  /\ mouse \in Mouse /\ drag \in Drag \cup {NoDrag}
  /\ page \in [face : {"front", "rear"}, at : Layout, built : Layout]
  /\ sites \subseteq Site /\ loading \in Layout \cup {NoLayout}
  /\ server \in Layout /\ posted \subseteq Request /\ news \in Seq(Layout)

\* What a rack offers to the device being dragged is what the server accepts,
\* as long as the server has the layout the rack was built from.
OffersAreAccepted ==
  (mouse.dragging /\ drag # NoDrag /\ ~drag.destroyed
     /\ server = page.at /\ page.built = server /\ Apart(server)) =>
  \A s \in sites :
    s.rack = page.at[drag.node].rack =>
      LocationIsValid(server, drag.node, At(server[drag.node], s.rack, s.u), MaxHeight)

\* A drop within the rack, on a page that shows what its racks were built
\* from, never lays one device over another.
DropsKeepApart ==
  [][((\E r \in posted' : r \notin posted) /\ drag.site # NoSite /\ ~drag.destroyed
        /\ page.built = page.at /\ Apart(page.at)
        /\ drag.site.rack = page.at[drag.node].rack)
     => Apart(page'.at)]_vars

\* An update that cancels a drag moves nothing: the only requests that are
\* made are those of a drop.
CancelMovesNothing ==
  [][(\E r \in posted' : r \notin posted) => mouse.pressed /\ ~mouse'.pressed]_vars

\* Once everything is answered and received, the page shows what the server
\* has, unless a move was refused or made with a chassis that was replaced.
PageAgrees ==
  (posted = {} /\ news = <<>> /\ loading = NoLayout /\ ~astray) => page.at = server

\* What the racks offer is what the server accepts, and the page agrees with
\* the server in the end.
Safety == TypeOK /\ OffersAreAccepted /\ PageAgrees

\* A first click becomes a click, a double click or a drag, unless a live
\* update cut it short.
PendingClicksEnd == ~mouse.assigned ~> (mouse.assigned \/ cut)

=============================================================================
