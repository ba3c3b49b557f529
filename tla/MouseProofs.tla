----------------------------- MODULE MouseProofs -----------------------------
(***************************************************************************)
(* Theorems about what the mouse does in the rack view: on the racks, for  *)
(* all racks, devices, templates, layouts and numbers of presses and moves *)
(* (RackMouse), and on the chart below them, for all components, values,   *)
(* levels and sizes of the chart (RackChart). The two share no state.      *)
(***************************************************************************)
EXTENDS RackMouse, RackChart, TLAPS, FiniteSetTheorems, WellFoundedInduction

(***************************************************************************)
(* The racks                                                               *)
(***************************************************************************)
(* Two layouts of the same devices: moves are all that tells them apart. *)
SameDevices(one, other) ==
  \A n \in NodeIds :
    /\ one[n] = NoNode <=> other[n] = NoNode
    /\ one[n] # NoNode => one[n].template = other[n].template

(* Every layout that is under way, and whatever was picked up or posted,   *)
(* is of the devices the server has.                                       *)
Kin ==
  /\ SameDevices(page.at, server) /\ SameDevices(page.built, server)
  /\ loading # NoLayout => SameDevices(loading, server)
  /\ \A i \in 1..Len(news) : SameDevices(news[i], server)
  /\ drag # NoDrag => server[drag.node] # NoNode
  /\ \A r \in posted : server[r.node] # NoNode

(* What the rack of the dragged device offers is a start from which the    *)
(* device covers U that no other one covers.                               *)
Held == mouse.dragging /\ drag # NoDrag /\ ~drag.destroyed
Offered(s, n) ==
  LET row == page.at[n]
  IN /\ s.u + s.height <= MaxHeight /\ s.height = HeightOf(row) /\ s.facing = row.facing
     /\ \A i \in s.u..(s.u + s.height - 1) :
          IsFree(page.built, row.rack, i, FacingsOf(row), n)
Offers ==
  Held => /\ \A s \in sites : s.rack = page.at[drag.node].rack => Offered(s, drag.node)
          /\ drag.site # NoSite => drag.site \in sites

(* The last layout that is on its way is the one the server has; with none *)
(* on its way, and no request either, the page shows it.                   *)
Latest ==
  /\ news # <<>> => news[Len(news)] = server
  /\ news = <<>> /\ loading # NoLayout => loading = server
  /\ news = <<>> /\ loading = NoLayout /\ ~astray /\ posted = {} => page.at = server

MouseInv == TypeOK /\ Kin /\ Offers /\ Latest
-----------------------------------------------------------------------------
(* Rows and layouts *)

LEMMA AtRow ==
  ASSUME NEW row \in Row, NEW rack \in RackIds, NEW u \in 0..(MaxHeight - 1)
  PROVE  /\ At(row, rack, u) \in Row
         /\ At(row, rack, u).rack = rack /\ At(row, rack, u).start = u + 1
         /\ At(row, rack, u).template = row.template
         /\ At(row, rack, u).facing = row.facing
<1>1. u + 1 \in Us
  BY HeightAssumption DEF Us
<1>. QED BY <1>1 DEF At, Row

LEMMA AskedRow ==
  ASSUME NEW row \in Row, NEW r \in Request
  PROVE  /\ Asked(row, r) \in Row
         /\ Asked(row, r).template = row.template
BY DEF Asked, Row, Request

LEMMA LiveRow ==
  ASSUME NEW layout \in Layout, NEW n \in NodeIds
  PROVE  layout[n] # NoNode => layout[n] \in Row
BY DEF Layout

(* A move of one device. *)
LEMMA MovedLayout ==
  ASSUME NEW layout \in Layout, NEW n \in NodeIds, layout[n] # NoNode,
         NEW row \in Row, row.template = layout[n].template
  PROVE  /\ [layout EXCEPT ![n] = row] \in Layout
         /\ SameDevices([layout EXCEPT ![n] = row], layout)
BY NoNodeAssumption DEF Layout, SameDevices

LEMMA SameSame ==
  ASSUME NEW one, NEW two, NEW three, SameDevices(one, two), SameDevices(three, two)
  PROVE  SameDevices(one, three) /\ SameDevices(two, two)
BY DEF SameDevices

LEMMA Kinship ==
  ASSUME Kin, NEW n \in NodeIds, server[n] # NoNode
  PROVE  page.at[n] # NoNode /\ page.built[n] # NoNode
           /\ page.at[n].template = server[n].template
           /\ page.built[n].template = server[n].template
BY DEF Kin, SameDevices

-----------------------------------------------------------------------------
(* Steps of the mouse alone: they pick nothing up. *)

LEMMA MouseAlone ==
  ASSUME MouseInv, mouse' \in Mouse, mouse'.dragging => mouse.dragging,
         UNCHANGED <<drag, pageVars, serverVars>>
  PROVE  MouseInv'
BY DEF MouseInv, TypeOK, Kin, Offers, Held, Offered, Latest, pageVars, serverVars

LEMMA MouseSteps ==
  ASSUME MouseInv,
         \/ EvMouseDownRack \/ EvMouseUpAfterCancel \/ EvMouseUpFirst \/ EvDoubleClick
         \/ MouseUpElsewhere \/ EvClick \/ EvRightClickRack \/ EvZoomComplete
         \/ UNCHANGED vars
  PROVE  MouseInv'
<1>1. mouse \in Mouse
  BY DEF MouseInv, TypeOK
<1>2. Released \in Mouse /\ Released.dragging = mouse.dragging
  BY <1>1 DEF Released, Mouse
<1>3. mouse' \in Mouse
  BY <1>1, <1>2
     DEF Mouse, EvMouseDownRack, EvMouseUpAfterCancel, EvMouseUpFirst, EvDoubleClick,
         MouseUpElsewhere, EvClick, EvRightClickRack, EvZoomComplete, vars
<1>4. mouse'.dragging => mouse.dragging
  BY <1>1, <1>2
     DEF Mouse, EvMouseDownRack, EvMouseUpAfterCancel, EvMouseUpFirst, EvDoubleClick,
         MouseUpElsewhere, EvClick, EvRightClickRack, EvZoomComplete, vars
<1>5. UNCHANGED <<drag, pageVars, serverVars>>
  BY DEF EvMouseDownRack, EvMouseUpAfterCancel, EvMouseUpFirst, EvDoubleClick,
         MouseUpElsewhere, EvClick, EvRightClickRack, EvZoomComplete, vars, pageVars, serverVars
<1>. QED BY <1>3, <1>4, <1>5, MouseAlone

LEMMA FaceStep ==
  ASSUME MouseInv, SwitchFace
  PROVE  MouseInv'
<1>1. /\ page' = [page EXCEPT !.face = IF @ = "front" THEN "rear" ELSE "front"]
      /\ UNCHANGED <<mouse, drag, sites, loading, server, posted, news, astray>>
  BY DEF SwitchFace, serverVars
<1>2. /\ page' \in [face : {"front", "rear"}, at : Layout, built : Layout]
      /\ page'.at = page.at /\ page'.built = page.built
  BY <1>1 DEF MouseInv, TypeOK
<1>. QED BY <1>1, <1>2 DEF MouseInv, TypeOK, Kin, Offers, Held, Offered, Latest

-----------------------------------------------------------------------------
(* Drags *)

(* What is offered when a device is picked up. *)
LEMMA SpacesOffered ==
  ASSUME TypeOK, NEW n \in NodeIds, page.at[n] # NoNode, CanIMove(n),
         NEW s \in FreeSpacesForChassis(page, n)
  PROVE  s \in Site /\ s.rack = page.at[n].rack /\ Offered(s, n)
<1> DEFINE row == page.at[n]
           hash == IF FullDepth(row) THEN Facings ELSE {Side(page.face)}
<1>1. row \in Row /\ row.facing = Side(page.face)
  BY LiveRow DEF TypeOK, CanIMove
<1>2. hash = FacingsOf(row)
  BY <1>1 DEF FacingsOf
<1>3. HeightOf(row) \in Nat \ {0}
  BY <1>1, TemplateAssumption DEF HeightOf, Row
<1> HIDE DEF row, hash
<1>4. PICK u \in 0..(MaxHeight - HeightOf(row)) :
        /\ s = [rack |-> row.rack, u |-> u, height |-> HeightOf(row), facing |-> Side(page.face)]
        /\ \A i \in u..(u + HeightOf(row) - 1) : IsFree(page.built, row.rack, i, hash, n)
  BY DEF FreeSpacesForChassis, row, hash
<1>5. s \in Site
  <2>1. u \in 0..(MaxHeight - 1)
    BY <1>3, <1>4, HeightAssumption
  <2>. QED BY <1>1, <1>3, <1>4, <2>1 DEF Site, Row
<1>6. u + HeightOf(row) <= MaxHeight
  BY <1>3, <1>4, HeightAssumption
<1>7. /\ s.rack = row.rack /\ s.u = u /\ s.height = HeightOf(row) /\ s.facing = row.facing
  BY <1>1, <1>4
<1>8. \A i \in s.u..(s.u + s.height - 1) : IsFree(page.built, row.rack, i, FacingsOf(row), n)
  BY <1>2, <1>4, <1>7
<1>. QED BY <1>5, <1>6, <1>7, <1>8 DEF Offered, row

LEMMA DragStarts ==
  ASSUME MouseInv, StartDrag(mouse.down), mouse' \in Mouse, UNCHANGED serverVars
  PROVE  MouseInv'
<1> USE DEF serverVars
<1>1. CASE drag' = NoDrag /\ UNCHANGED pageVars
  BY <1>1 DEF pageVars, MouseInv, TypeOK, Kin, Offers, Held, Latest
<1>2. ASSUME NEW n \in DevicesAt(page, mouse.down), CanIMove(n),
             drag' = [node |-> n, start |-> page.at[n].start, destroyed |-> FALSE,
                      site |-> NoSite],
             sites' = {s \in sites : s.rack # page.at[n].rack} \cup FreeSpacesForChassis(page, n),
             UNCHANGED <<page, loading>>
      PROVE  MouseInv'
  <2>1. n \in NodeIds /\ page.at[n] # NoNode
    BY <1>2 DEF DevicesAt, In, Live
  <2>2. page.at[n] \in Row
    BY <2>1, LiveRow DEF MouseInv, TypeOK
  <2>3. drag' \in Drag /\ drag'.node = n /\ drag'.site = NoSite
    BY <1>2, <2>1, <2>2 DEF Drag, Row
  <2>4. /\ sites' \subseteq Site
        /\ \A s \in sites' : s.rack = page.at[n].rack => Offered(s, n)
    BY <1>2, <2>1, SpacesOffered DEF MouseInv, TypeOK
  <2>5. TypeOK'
    BY <1>2, <2>3, <2>4 DEF MouseInv, TypeOK
  <2>6. Kin'
    <3>1. server[n] # NoNode
      BY <2>1 DEF MouseInv, Kin, SameDevices
    <3>. QED BY <1>2, <2>3, <3>1 DEF MouseInv, Kin
  <2>7. Offers'
    BY <1>2, <2>3, <2>4 DEF Offers, Offered
  <2>8. Latest'
    BY <1>2 DEF MouseInv, Latest
  <2>. QED BY <2>5, <2>6, <2>7, <2>8 DEF MouseInv
<1>. QED BY <1>1, <1>2 DEF StartDrag

LEMMA DragsOver ==
  ASSUME MouseInv, NEW point, DragOver(point), UNCHANGED <<mouse, serverVars>>
  PROVE  MouseInv'
<1> USE DEF serverVars, pageVars
<1>1. CASE UNCHANGED drag
  BY <1>1, MouseAlone DEF DragOver, MouseInv, TypeOK
<1>2. ASSUME NEW s \in SitesAt(point), drag # NoDrag, drag' = [drag EXCEPT !.site = s]
      PROVE  MouseInv'
  <2>1. UNCHANGED <<page, sites, loading>>
    BY DEF DragOver
  <2>2. s \in sites /\ s \in Site
    BY DEF SitesAt, MouseInv, TypeOK
  <2>3. /\ drag \in Drag /\ drag' \in Drag
        /\ drag'.node = drag.node /\ drag'.destroyed = drag.destroyed /\ drag'.site = s
    BY <1>2, <2>2 DEF MouseInv, TypeOK, Drag
  <2>4. TypeOK' /\ Kin' /\ Latest'
    BY <1>2, <2>1, <2>3 DEF MouseInv, TypeOK, Kin, Latest
  <2>5. Offers'
    BY <1>2, <2>1, <2>2, <2>3 DEF MouseInv, Offers, Held, Offered
  <2>. QED BY <2>4, <2>5 DEF MouseInv
<1>. QED BY <1>1, <1>2 DEF DragOver

-----------------------------------------------------------------------------
(* Drops *)

(* What the request of a drop asks for, when the device was not replaced.  *)
LEMMA Dropped ==
  ASSUME MouseInv, drag # NoDrag, drag.site # NoSite, MoveDeviceBeingDragged(drag.site)
  PROVE  /\ drag.node \in NodeIds /\ drag.site \in Site
         /\ page.at[drag.node] \in Row
         /\ page' = [page EXCEPT !.at[drag.node] = At(@, drag.site.rack, drag.site.u)]
         /\ page'.at = [page.at EXCEPT ![drag.node] = At(@, drag.site.rack, drag.site.u)]
         /\ page'.built = page.built
         /\ astray' = (astray \/ drag.destroyed)
         /\ \E r \in Request :
              /\ posted' = posted \cup {r} /\ r.node = drag.node
<1> DEFINE n == drag.node
           t == drag.site
           left == drag.destroyed /\ page.at[n] # NoNode /\ page.at[n].rack = t.rack
<1>1. /\ drag \in Drag /\ n \in NodeIds /\ t \in Site
      /\ page \in [face : {"front", "rear"}, at : Layout, built : Layout]
  BY DEF MouseInv, TypeOK, Drag
<1>2. page.at[n] \in Row
  BY <1>1, Kinship, LiveRow DEF MouseInv, Kin
<1>3. /\ page' = [page EXCEPT !.at[n] = At(@, t.rack, t.u)]
      /\ astray' = (astray \/ drag.destroyed)
  BY DEF MoveDeviceBeingDragged
<1>4. page'.at = [page.at EXCEPT ![n] = At(@, t.rack, t.u)] /\ page'.built = page.built
  BY <1>1, <1>3
<1>5. PICK facing \in IF left THEN Facings ELSE {t.facing} :
        posted' = posted \cup {[node |-> n, facing |-> facing,
                                start |-> IF left THEN drag.start ELSE t.u + 1]}
  BY DEF MoveDeviceBeingDragged
<1> DEFINE r == [node |-> n, facing |-> facing,
                 start |-> IF left THEN drag.start ELSE t.u + 1]
<1>6. t.u + 1 \in Us /\ drag.start \in Us /\ t.facing \in Facings /\ t.rack \in RackIds
  BY <1>1, HeightAssumption DEF Site, Drag, Us
<1>7. r \in Request
  BY <1>1, <1>5, <1>6 DEF Request
<1>8. r.node = n
  OBVIOUS
<1> HIDE DEF r, left
<1>9. posted' = posted \cup {r}
  BY <1>5 DEF r
<1>. QED BY <1>1, <1>2, <1>3, <1>4, <1>7, <1>8, <1>9

LEMMA DropStep ==
  ASSUME MouseInv, drag # NoDrag, drag.site # NoSite, MoveDeviceBeingDragged(drag.site),
         drag' = [drag EXCEPT !.site = NoSite],
         mouse' \in Mouse, ~mouse'.dragging,
         UNCHANGED <<sites, loading, server, news>>
  PROVE  MouseInv'
<1> DEFINE n == drag.node
           t == drag.site
           row == At(page.at[n], t.rack, t.u)
<1>1. /\ n \in NodeIds /\ t \in Site /\ page.at[n] \in Row
      /\ page'.at = [page.at EXCEPT ![n] = row] /\ page'.built = page.built
      /\ page' = [page EXCEPT !.at[n] = row]
      /\ astray' = (astray \/ drag.destroyed)
  BY Dropped
<1>2. PICK r \in Request : posted' = posted \cup {r} /\ r.node = n
  BY Dropped
<1>3. row \in Row /\ row.template = page.at[n].template
  <2>1. t.rack \in RackIds /\ t.u \in 0..(MaxHeight - 1)
    BY <1>1 DEF Site
  <2>. QED BY <1>1, <2>1, AtRow, Zenon
<1> HIDE DEF row
<1>4. page.at \in Layout /\ server \in Layout /\ page.at[n] # NoNode
  BY <1>1, NoNodeAssumption DEF MouseInv, TypeOK
<1>5. page'.at \in Layout /\ SameDevices(page'.at, page.at)
  <2>1. /\ [page.at EXCEPT ![n] = row] \in Layout
        /\ SameDevices([page.at EXCEPT ![n] = row], page.at)
    BY <1>1, <1>3, <1>4, MovedLayout
  <2>. QED BY <1>1, <2>1
<1>6. server[n] # NoNode /\ drag \in Drag /\ drag'.node = n /\ drag' \in Drag
  BY DEF MouseInv, Kin, TypeOK, Drag
<1>7. TypeOK'
  BY <1>1, <1>2, <1>5, <1>6 DEF MouseInv, TypeOK
<1>8. Kin'
  <2>1. SameDevices(page'.at, server)
    BY <1>5 DEF MouseInv, Kin, SameDevices
  <2>. QED BY <1>1, <1>2, <1>6, <2>1 DEF MouseInv, Kin
<1>9. Offers'
  BY DEF Offers, Held
<1>10. Latest'
  BY <1>2 DEF MouseInv, Latest
<1>. QED BY <1>7, <1>8, <1>9, <1>10 DEF MouseInv

LEMMA UpStep ==
  ASSUME MouseInv, EvMouseUpDragging
  PROVE  MouseInv'
<1>1. /\ mouse' = [Released EXCEPT !.assigned = TRUE, !.dragging = FALSE]
      /\ mouse' \in Mouse /\ ~mouse'.dragging
  BY DEF EvMouseUpDragging, Released, Mouse, MouseInv, TypeOK
<1>2. PICK point : StopDrag(point)
  BY DEF EvMouseUpDragging
<1>3. CASE drag # NoDrag /\ drag.site # NoSite /\ ValidLocationToMove(point)
  BY <1>1, <1>2, <1>3, DropStep DEF StopDrag
<1>4. CASE ~(drag # NoDrag /\ drag.site # NoSite /\ ValidLocationToMove(point))
  <2>1. /\ drag' = IF drag = NoDrag THEN drag ELSE [drag EXCEPT !.site = NoSite]
        /\ UNCHANGED <<pageVars, serverVars>>
    BY <1>2, <1>4 DEF StopDrag
  <2>2. /\ drag' \in Drag \cup {NoDrag}
        /\ drag' # NoDrag => drag # NoDrag /\ drag'.node = drag.node
    BY <2>1 DEF MouseInv, TypeOK, Drag
  <2>. QED BY <1>1, <2>1, <2>2
       DEF MouseInv, TypeOK, Kin, Offers, Held, Latest, pageVars, serverVars
<1>. QED BY <1>3, <1>4

-----------------------------------------------------------------------------
(* Live updates *)

(* No device is at the origin of the canvas, where a drag is cancelled. *)
LEMMA NothingAtOrigin == ~ValidLocationToMove(Origin)
BY DEF ValidLocationToMove, Origin, DevicesAt

LEMMA Announced ==
  ASSUME NEW seq \in Seq(Layout), seq # <<>>
  PROVE  /\ Len(seq) \in Nat \ {0}
         /\ Head(seq) \in Layout /\ Head(seq) = seq[1]
         /\ Tail(seq) \in Seq(Layout) /\ Len(Tail(seq)) = Len(seq) - 1
         /\ \A i \in 1..(Len(seq) - 1) : Tail(seq)[i] = seq[i + 1]
         /\ Tail(seq) = <<>> => Len(seq) = 1
<1>1. Len(seq) \in Nat \ {0} /\ Head(seq) \in Layout /\ Head(seq) = seq[1]
  OBVIOUS
<1>2. Tail(seq) \in Seq(Layout) /\ Len(Tail(seq)) = Len(seq) - 1
  OBVIOUS
<1>3. \A i \in 1..(Len(seq) - 1) : Tail(seq)[i] = seq[i + 1]
  OBVIOUS
<1>4. Tail(seq) = <<>> => Len(seq) = 1
  <2>1. Len(<<>>) = 0
    OBVIOUS
  <2>2. Tail(seq) = <<>> => Len(Tail(seq)) = 0
    BY <2>1, Zenon
  <2>. QED BY <1>1, <1>2, <2>2
<1>. QED BY <1>1, <1>2, <1>3, <1>4

LEMMA Appended ==
  ASSUME NEW seq \in Seq(Layout), NEW layout \in Layout
  PROVE  /\ Append(seq, layout) \in Seq(Layout) /\ Append(seq, layout) # <<>>
         /\ Len(Append(seq, layout)) = Len(seq) + 1 /\ Len(seq) \in Nat
         /\ \A i \in 1..Len(seq) : Append(seq, layout)[i] = seq[i]
         /\ Append(seq, layout)[Len(seq) + 1] = layout
OBVIOUS

LEMMA DragKept ==
  ASSUME NEW d \in Drag \cup {NoDrag}
  PROVE  /\ Unsited(d) \in Drag \cup {NoDrag} /\ Destroyed(d) \in Drag \cup {NoDrag}
         /\ Unsited(d) # NoDrag => d # NoDrag /\ Unsited(d).node = d.node
         /\ Destroyed(d) # NoDrag => d # NoDrag /\ Destroyed(d).node = d.node
         /\ Destroyed(d) # NoDrag => Destroyed(d).destroyed
<1>1. CASE d = NoDrag
  BY <1>1 DEF Unsited, Destroyed
<1>2. CASE d # NoDrag
  <2>1. d \in Drag
    BY <1>2
  <2>2. /\ [d EXCEPT !.site = NoSite] \in Drag /\ [d EXCEPT !.site = NoSite].node = d.node
        /\ [d EXCEPT !.destroyed = TRUE] \in Drag
        /\ [d EXCEPT !.destroyed = TRUE].node = d.node
        /\ [d EXCEPT !.destroyed = TRUE].destroyed
    BY <2>1 DEF Drag
  <2>. QED BY <1>2, <2>2 DEF Unsited, Destroyed
<1>. QED BY <1>1, <1>2

LEMMA Rebuilt ==
  ASSUME TypeOK, NEW layout \in Layout, Rebuild(layout)
  PROVE  /\ page' \in [face : {"front", "rear"}, at : Layout, built : Layout]
         /\ page'.at = layout /\ page'.built = layout
         /\ sites' = {} /\ loading' = NoLayout
BY DEF Rebuild, TypeOK

LEMMA UpdateStep ==
  ASSUME MouseInv, ReceiveUpdate
  PROVE  MouseInv'
<1> DEFINE layout == Head(news)
<1>1. /\ news # <<>> /\ news' = Tail(news) /\ CancelDragging
      /\ UNCHANGED <<server, posted, astray>>
      /\ \/ Rebuild(layout) /\ drag' = Destroyed(Unsited(drag))
         \/ /\ loading' = layout /\ UNCHANGED <<page, sites>>
            /\ drag' = IF mouse.dragging THEN Unsited(drag) ELSE drag
  BY NothingAtOrigin DEF ReceiveUpdate
<1>2. mouse' \in Mouse /\ ~mouse'.dragging
  BY <1>1 DEF CancelDragging, Mouse, MouseInv, TypeOK
<1>3. /\ layout \in Layout /\ SameDevices(layout, server) /\ layout # NoLayout
      /\ news' \in Seq(Layout) /\ \A i \in 1..Len(news') : SameDevices(news'[i], server)
      /\ news' # <<>> => news'[Len(news')] = server
      /\ news' = <<>> => layout = server
  <2>1. news \in Seq(Layout) /\ \A i \in 1..Len(news) : SameDevices(news[i], server)
    BY DEF MouseInv, TypeOK, Kin
  <2>2. news[Len(news)] = server
    BY <1>1 DEF MouseInv, Latest
  <2>3. /\ Len(news) \in Nat \ {0} /\ layout \in Layout /\ layout = news[1]
        /\ news' \in Seq(Layout) /\ Len(news') = Len(news) - 1
        /\ \A i \in 1..(Len(news) - 1) : news'[i] = news[i + 1]
        /\ news' = <<>> => Len(news) = 1
    BY <1>1, <2>1, Announced
  <2>4. \A i \in 1..Len(news') : i + 1 \in 1..Len(news) /\ news'[i] = news[i + 1]
    BY <2>3
  <2>5. news' # <<>> => Len(news') \in 1..Len(news') /\ Len(news') + 1 = Len(news)
    BY <2>3
  <2>6. layout # NoLayout
    BY <2>3, MouseAssumption
  <2>. HIDE DEF layout
  <2>. QED BY <2>1, <2>2, <2>3, <2>4, <2>5, <2>6
<1>4. /\ drag' \in Drag \cup {NoDrag}
      /\ drag' # NoDrag => drag # NoDrag /\ drag'.node = drag.node
  BY <1>1, DragKept DEF MouseInv, TypeOK
<1>5. /\ page' \in [face : {"front", "rear"}, at : Layout, built : Layout]
      /\ sites' \subseteq Site /\ loading' \in Layout \cup {NoLayout}
      /\ \/ page' = page /\ loading' = layout
         \/ page'.at = layout /\ page'.built = layout /\ loading' = NoLayout
  BY <1>1, <1>3, Rebuilt DEF MouseInv, TypeOK
<1> HIDE DEF layout
<1>6. TypeOK'
  BY <1>1, <1>2, <1>3, <1>4, <1>5 DEF MouseInv, TypeOK
<1>7. Kin'
  BY <1>1, <1>3, <1>4, <1>5 DEF MouseInv, Kin
<1>8. Offers'
  BY <1>2 DEF Offers, Held
<1>9. Latest'
  BY <1>1, <1>3, <1>5 DEF Latest
<1>. QED BY <1>6, <1>7, <1>8, <1>9 DEF MouseInv

LEMMA ImagesStep ==
  ASSUME MouseInv, ImagesLoaded
  PROVE  MouseInv'
<1>1. /\ loading # NoLayout /\ loading \in Layout
      /\ UNCHANGED <<mouse, server, posted, news, astray>>
  BY DEF ImagesLoaded, MouseInv, TypeOK, serverVars
<1>2. /\ page' \in [face : {"front", "rear"}, at : Layout, built : Layout]
      /\ page'.at = loading /\ page'.built = loading
      /\ sites' = {} /\ loading' = NoLayout
  BY <1>1, Rebuilt DEF ImagesLoaded, MouseInv
<1>3. /\ drag' \in Drag \cup {NoDrag}
      /\ drag' # NoDrag => drag # NoDrag /\ drag'.node = drag.node /\ drag'.destroyed
  BY DragKept DEF ImagesLoaded, MouseInv, TypeOK
<1>4. TypeOK' /\ Kin' /\ Offers' /\ Latest'
  BY <1>1, <1>2, <1>3 DEF MouseInv, TypeOK, Kin, Offers, Held, Latest
<1>. QED BY <1>4 DEF MouseInv

-----------------------------------------------------------------------------
(* The server *)

(* A step that moves one device in the database and announces it. *)
LEMMA ServerStep ==
  ASSUME MouseInv, NEW n \in NodeIds, server[n] # NoNode,
         NEW row \in Row, row.template = server[n].template,
         server' = [server EXCEPT ![n] = row], news' = Append(news, server'),
         posted' \subseteq posted,
         UNCHANGED <<mouse, drag, page, sites, loading>>
  PROVE  MouseInv'
<1>1. server' \in Layout /\ SameDevices(server', server)
  <2>1. server \in Layout
    BY DEF MouseInv, TypeOK
  <2>2. /\ [server EXCEPT ![n] = row] \in Layout
        /\ SameDevices([server EXCEPT ![n] = row], server)
    BY <2>1, MovedLayout
  <2>. QED BY <2>2
<1>2. /\ news' \in Seq(Layout) /\ news' # <<>>
      /\ Len(news') = Len(news) + 1 /\ Len(news) \in Nat
      /\ \A i \in 1..Len(news) : news'[i] = news[i]
      /\ news'[Len(news')] = server'
  BY <1>1, Appended DEF MouseInv, TypeOK
<1>3. TypeOK'
  BY <1>1, <1>2 DEF MouseInv, TypeOK
<1>4. Kin'
  <2>1. ASSUME NEW layout, SameDevices(layout, server) PROVE SameDevices(layout, server')
    BY <1>1, <2>1, SameSame
  <2>2. SameDevices(server', server')
    BY DEF SameDevices
  <2>3. \A m \in NodeIds : server[m] # NoNode => server'[m] # NoNode
    BY <1>1 DEF SameDevices
  <2>4. \A i \in 1..Len(news') : SameDevices(news'[i], server')
    <3>1. ASSUME NEW i \in 1..Len(news') PROVE SameDevices(news'[i], server')
      <4>1. CASE i \in 1..Len(news)
        BY <1>2, <2>1, <4>1 DEF MouseInv, Kin
      <4>2. CASE i = Len(news')
        BY <1>2, <2>2, <4>2
      <4>. QED BY <1>2, <3>1, <4>1, <4>2
    <3>. QED BY <3>1
  <2>5. drag' # NoDrag => drag'.node \in NodeIds
    BY DEF MouseInv, TypeOK, Drag
  <2>6. \A r \in posted' : r.node \in NodeIds
    BY DEF MouseInv, TypeOK, Request
  <2>. QED BY <2>1, <2>3, <2>4, <2>5, <2>6 DEF MouseInv, Kin
<1>5. Offers'
  BY DEF MouseInv, Offers, Held, Offered
<1>6. Latest'
  BY <1>2 DEF Latest
<1>. QED BY <1>3, <1>4, <1>5, <1>6 DEF MouseInv

LEMMA AnswerStep ==
  ASSUME MouseInv, NEW request \in posted, UpdatePosition(request)
  PROVE  MouseInv'
<1> DEFINE n == request.node
           row == Asked(server[n], request)
<1>1. request \in Request /\ n \in NodeIds /\ server[n] # NoNode /\ server[n] \in Row
  BY LiveRow DEF MouseInv, TypeOK, Kin, Request
<1>2. row \in Row /\ row.template = server[n].template
  BY <1>1, AskedRow, Zenon
<1>3. /\ posted' = posted \ {request}
      /\ UNCHANGED <<mouse, drag, page, sites, loading>>
  BY DEF UpdatePosition, pageVars
<1> HIDE DEF row
<1>4. CASE server' = [server EXCEPT ![n] = row] /\ news' = Append(news, server')
  BY <1>1, <1>2, <1>3, <1>4, ServerStep
<1>5. CASE astray' = TRUE /\ UNCHANGED <<server, news>>
  BY <1>3, <1>5 DEF MouseInv, TypeOK, Kin, Offers, Held, Offered, Latest
<1>6. \/ server' = [server EXCEPT ![n] = row] /\ news' = Append(news, server')
      \/ astray' = TRUE /\ UNCHANGED <<server, news>>
  BY DEF UpdatePosition, row
<1>. QED BY <1>4, <1>5, <1>6

LEMMA MoveStep ==
  ASSUME MouseInv, SomebodyMoves
  PROVE  MouseInv'
<1>1. PICK n \in Live(server), start \in Us, facing \in Facings :
        /\ server' = [server EXCEPT ![n] = [server[n] EXCEPT !.start = start, !.facing = facing]]
        /\ news' = Append(news, server')
  BY DEF SomebodyMoves
<1> DEFINE row == [server[n] EXCEPT !.start = start, !.facing = facing]
<1>2. n \in NodeIds /\ server[n] # NoNode /\ server[n] \in Row
  BY LiveRow DEF Live, MouseInv, TypeOK
<1>3. row \in Row /\ row.template = server[n].template
  BY <1>2 DEF Row
<1>4. UNCHANGED <<mouse, drag, page, sites, loading, posted>>
  BY DEF SomebodyMoves, pageVars
<1> HIDE DEF row
<1>. QED BY <1>1, <1>2, <1>3, <1>4, ServerStep DEF row

-----------------------------------------------------------------------------
LEMMA InitMouse == Init => MouseInv
<1> SUFFICES ASSUME Init PROVE MouseInv
  OBVIOUS
<1>1. /\ server \in Layout
      /\ page = [face |-> "front", at |-> server, built |-> server]
      /\ mouse = [pressed |-> FALSE, down |-> Nowhere, heard |-> FALSE, dragging |-> FALSE,
                  cancelled |-> FALSE, assigned |-> TRUE, timer |-> FALSE]
      /\ drag = NoDrag /\ sites = {} /\ loading = NoLayout /\ posted = {} /\ news = <<>>
  BY MouseAssumption DEF Init
<1>2. TypeOK
  BY <1>1 DEF TypeOK, Mouse
<1>3. Kin
  BY <1>1 DEF Kin, SameDevices
<1>4. Offers /\ Latest
  BY <1>1 DEF Offers, Held, Latest
<1>. QED BY <1>2, <1>3, <1>4 DEF MouseInv

LEMMA NextMouse ==
  ASSUME MouseInv, [Next]_vars
  PROVE  MouseInv'
<1>1. CASE EvDrag
  <2>1. PICK point :
          IF mouse.dragging
          THEN DragOver(point) /\ UNCHANGED mouse
          ELSE /\ mouse' = [mouse EXCEPT !.dragging = TRUE, !.assigned = TRUE]
               /\ StartDrag(mouse.down)
    BY <1>1 DEF EvDrag
  <2>2. UNCHANGED serverVars
    BY <1>1 DEF EvDrag
  <2>3. ~mouse.dragging => mouse' \in Mouse
    BY <2>1 DEF MouseInv, TypeOK, Mouse
  <2>. QED BY <2>1, <2>2, <2>3, DragStarts, DragsOver
<1>2. CASE Answer
  BY <1>2, AnswerStep DEF Answer
<1>. QED BY <1>1, <1>2, MouseSteps, FaceStep, UpStep, UpdateStep, ImagesStep, MoveStep
     DEF Next, EvMouseUpRack

(* A device that is offered a place can be put there: the server finds     *)
(* nothing on the U the page found free.                                   *)
LEMMA OfferIsAccepted ==
  ASSUME MouseInv, Held, server = page.at, page.built = server, Apart(server),
         NEW s \in sites, s.rack = page.at[drag.node].rack
  PROVE  LocationIsValid(server, drag.node, At(server[drag.node], s.rack, s.u), MaxHeight)
<1> DEFINE n == drag.node
           row == server[n]
<1>1. n \in NodeIds /\ row \in Row /\ n \in Live(server) /\ server \in Layout /\ s \in Site
  BY LiveRow DEF MouseInv, TypeOK, Kin, Held, Drag, Live
<1>2. Offered(s, n)
  BY DEF MouseInv, Offers
<1>3. HeightOf(row) \in Nat \ {0} /\ s.u \in Nat /\ s.rack = row.rack
  BY <1>1, TemplateAssumption DEF HeightOf, Row, Site
<1>4. /\ At(row, s.rack, s.u).start = s.u + 1
      /\ At(row, s.rack, s.u).rack = row.rack
      /\ At(row, s.rack, s.u).template = row.template
      /\ FacingsOf(At(row, s.rack, s.u)) = FacingsOf(row)
  <2>1. s.rack \in RackIds /\ s.u \in 0..(MaxHeight - 1)
    BY <1>1 DEF Site
  <2>2. /\ At(row, s.rack, s.u).start = s.u + 1 /\ At(row, s.rack, s.u).rack = s.rack
        /\ At(row, s.rack, s.u).template = row.template
        /\ At(row, s.rack, s.u).facing = row.facing
    BY <1>1, <2>1, AtRow, Zenon
  <2>. QED BY <1>3, <2>2 DEF FacingsOf, FullDepth
<1> DEFINE new == At(row, s.rack, s.u)
<1>5. s.u + s.height <= MaxHeight /\ s.height = HeightOf(row)
        /\ IsFree(server, row.rack, s.u, FacingsOf(row), n)
  BY <1>2, <1>3 DEF Offered
<1>6. ASSUME NEW m \in In(server, row.rack) \ {n}, OccupiesU(server[m], s.u + 1, FacingsOf(row))
      PROVE  FALSE
  <2>1. m \in Live(server) /\ server[m] \in Row /\ server[m].rack = row.rack
    BY <1>1, <1>6, LiveRow DEF In, Live
  <2>2. n \in In(server, row.rack) /\ OccupiesU(row, s.u + 1, FacingsOf(row))
    BY <1>5, <1>6 DEF IsFree
  <2>3. Rivals(server, n, m)
    BY <1>1, <1>6, <2>1 DEF Rivals, OccupiesU, FacingsOf, Facings, Row
  <2>4. row.start <= s.u + 1 /\ s.u + 1 <= EndU(row)
          /\ server[m].start <= s.u + 1 /\ s.u + 1 <= EndU(server[m])
    BY <1>6, <2>2 DEF OccupiesU
  <2>5. row.start > EndU(server[m]) \/ server[m].start > EndU(row)
    BY <1>1, <2>1, <2>3 DEF Apart
  <2>6. row.start \in Nat /\ EndU(row) \in Int /\ server[m].start \in Nat
          /\ EndU(server[m]) \in Int
    BY <1>1, <2>1, HeightAssumption, TemplateAssumption DEF EndU, Row, Us
  <2>. QED BY <1>3, <2>4, <2>5, <2>6
<1>7. UIsEmpty(server, row.rack, s.u + 1, FacingsOf(row), {n})
  BY <1>6 DEF UIsEmpty
<1>8. new.start <= MaxHeight /\ EndU(new) <= MaxHeight
  BY <1>3, <1>4, <1>5, HeightAssumption DEF EndU, HeightOf
<1> HIDE DEF new, row, n
<1>. QED BY <1>4, <1>7, <1>8 DEF LocationIsValid, new, row, n

(* However presses, drags, live updates and answers interleave, the page   *)
(* offers only starts that the server accepts, and shows what the server   *)
(* has when all is answered and received, unless a move was refused or     *)
(* made with a replaced chassis (RackSpaceDragHandler, Rack, RackObject).  *)
THEOREM MouseSafety == Spec => []Safety
<1>1. MouseInv => OffersAreAccepted
  BY OfferIsAccepted DEF OffersAreAccepted, Held
<1>2. MouseInv => PageAgrees
  BY DEF MouseInv, Latest, PageAgrees, TypeOK, Layout
<1>3. MouseInv => Safety
  BY <1>1, <1>2 DEF Safety, MouseInv
<1>. QED BY InitMouse, NextMouse, <1>3, PTL DEF Spec

(* The only requests to move a device are made by the button that is       *)
(* released: no live update, and no image that arrives, drops a device     *)
(* (RackSpaceDragHandler#cancelDragging).                                  *)
THEOREM OnlyDropsMove == Spec => CancelMovesNothing
<1>1. ASSUME MouseInv, [Next]_vars, NEW r \in posted', r \notin posted
      PROVE  mouse.pressed /\ ~mouse'.pressed
  <2>1. CASE EvMouseUpDragging
    BY <1>1, <2>1 DEF EvMouseUpDragging, Released, MouseInv, TypeOK, Mouse
  <2>2. CASE ReceiveUpdate
    BY <1>1, <2>2, NothingAtOrigin DEF ReceiveUpdate
  <2>3. CASE Answer
    BY <1>1, <2>3 DEF Answer, UpdatePosition
  <2>4. ~(\/ EvMouseDownRack \/ EvDrag \/ EvMouseUpAfterCancel \/ EvMouseUpFirst
          \/ EvDoubleClick \/ MouseUpElsewhere \/ EvClick \/ EvRightClickRack
          \/ EvZoomComplete \/ SwitchFace \/ ImagesLoaded \/ SomebodyMoves \/ UNCHANGED vars)
    BY <1>1 DEF EvMouseDownRack, EvDrag, EvMouseUpAfterCancel, EvMouseUpFirst, EvDoubleClick,
                MouseUpElsewhere, EvClick, EvRightClickRack, EvZoomComplete, SwitchFace,
                ImagesLoaded, SomebodyMoves, vars, serverVars
  <2>. QED BY <1>1, <2>1, <2>2, <2>3, <2>4 DEF Next, EvMouseUpRack
<1>2. MouseInv /\ [Next]_vars =>
        [(\E r \in posted' : r \notin posted) => mouse.pressed /\ ~mouse'.pressed]_vars
  BY <1>1
<1>. QED BY InitMouse, NextMouse, <1>2, PTL DEF Spec, CancelMovesNothing

(* A device that is dropped within its rack covers only U that no other    *)
(* device covers, although only the start is looked up by the server.      *)
LEMMA DropIsApart ==
  ASSUME MouseInv, Held, drag.site # NoSite, MoveDeviceBeingDragged(drag.site),
         page.built = page.at, Apart(page.at), drag.site.rack = page.at[drag.node].rack
  PROVE  Apart(page'.at)
<1> DEFINE n == drag.node
           s == drag.site
           row == page.at[n]
           new == At(row, s.rack, s.u)
<1>1. /\ n \in NodeIds /\ s \in Site /\ row \in Row
      /\ page'.at = [page.at EXCEPT ![n] = new]
  BY Dropped DEF Held
<1>2. s.rack \in RackIds /\ s.u \in 0..(MaxHeight - 1)
  BY <1>1 DEF Site
<1>3. /\ new \in Row /\ new.start = s.u + 1 /\ new.rack = row.rack
      /\ new.template = row.template /\ new.facing = row.facing
  <2>1. row \in Row
    BY <1>1
  <2> HIDE DEF row, s
  <2>2. /\ new \in Row /\ new.start = s.u + 1 /\ new.rack = s.rack
        /\ new.template = row.template /\ new.facing = row.facing
    BY <1>2, <2>1, AtRow, Zenon
  <2>3. s.rack = row.rack
    BY DEF row, s
  <2>. QED BY <2>2, <2>3
<1>4. Offered(s, n)
  BY DEF MouseInv, Offers, Held
<1>5. page.at \in Layout /\ n \in Live(page.at)
  BY <1>1, NoNodeAssumption DEF MouseInv, TypeOK, Live
<1>6. HeightOf(row) \in Nat \ {0} /\ s.u \in Nat
        /\ EndU(new) = s.u + HeightOf(row) /\ FacingsOf(new) = FacingsOf(row)
  BY <1>1, <1>2, <1>3, TemplateAssumption
     DEF HeightOf, EndU, FacingsOf, FullDepth, Row
<1> HIDE DEF new, row, n, s
<1>7. ASSUME NEW m \in Live(page.at) \ {n}, page.at[m].rack = row.rack,
             FacingsOf(row) \cap FacingsOf(page.at[m]) # {}
      PROVE  new.start > EndU(page.at[m]) \/ page.at[m].start > EndU(new)
  <2> DEFINE other == page.at[m]
  <2>1. other \in Row /\ m \in NodeIds
    BY <1>5, <1>7, LiveRow DEF Live
  <2>2. /\ other.start \in Nat \ {0} /\ EndU(other) \in Nat
        /\ other.start <= EndU(other)
        /\ row.start \in Nat /\ EndU(row) \in Int
    BY <1>1, <2>1, HeightAssumption, TemplateAssumption DEF EndU, Row, Us, row
  <2>3. Rivals(page.at, n, m)
    BY <1>7 DEF Rivals, row
  <2>4. row.start > EndU(other) \/ other.start > EndU(row)
    BY <1>5, <1>7, <2>3 DEF Apart, row
  <2>5. ASSUME NEW i \in s.u..(s.u + HeightOf(row) - 1),
               other.start <= i + 1, i + 1 <= EndU(other)
        PROVE  FALSE
    <3>1. IsFree(page.at, row.rack, i, FacingsOf(row), n)
      BY <1>4, <2>5 DEF Offered, row
    <3>2. OccupiesU(other, i + 1, FacingsOf(row))
      BY <1>7, <2>1, <2>5 DEF OccupiesU, FacingsOf
    <3>3. m \in In(page.at, row.rack)
      BY <1>7 DEF In
    <3>4. OccupiesU(row, i + 1, FacingsOf(row))
      BY <3>1, <3>2, <3>3 DEF IsFree, row
    <3>5. row.start <= i + 1 /\ i + 1 <= EndU(row) /\ i \in Int
      BY <1>6, <3>4 DEF OccupiesU
    <3>. QED BY <2>2, <2>4, <2>5, <3>5
  <2>6. ASSUME s.u + 1 <= EndU(other), other.start <= s.u + HeightOf(row)
        PROVE  FALSE
    <3>1. CASE other.start <= s.u + 1
      <4>1. s.u \in s.u..(s.u + HeightOf(row) - 1)
        BY <1>6
      <4>. QED BY <2>5, <2>6, <3>1, <4>1
    <3>2. CASE other.start > s.u + 1
      <4>1. other.start - 1 \in s.u..(s.u + HeightOf(row) - 1)
        BY <1>6, <2>2, <2>6, <3>2
      <4>2. other.start - 1 + 1 = other.start
        BY <2>2
      <4>. QED BY <2>2, <2>5, <4>1, <4>2
    <3>. QED BY <1>6, <2>2, <3>1, <3>2
  <2>. HIDE DEF other
  <2>7. s.u + 1 > EndU(other) \/ other.start > s.u + HeightOf(row)
    BY <1>6, <2>2, <2>6
  <2>. QED BY <1>3, <1>6, <2>7 DEF other
<1>8. ASSUME NEW one \in Live(page'.at), NEW two \in Live(page'.at),
             Rivals(page'.at, one, two)
      PROVE  \/ page'.at[one].start > EndU(page'.at[two])
             \/ page'.at[two].start > EndU(page'.at[one])
  <2>1. page'.at[n] = new /\ \A m \in NodeIds \ {n} : page'.at[m] = page.at[m]
    BY <1>1, <1>5 DEF Layout
  <2>2. one \in Live(page.at) /\ two \in Live(page.at) /\ one # two
    BY <1>5, <1>8, <2>1 DEF Live, Rivals
  <2>3. CASE one # n /\ two # n
    <3>1. page'.at[one] = page.at[one] /\ page'.at[two] = page.at[two]
      BY <2>1, <2>2, <2>3 DEF Live
    <3>2. Rivals(page.at, one, two)
      BY <1>8, <3>1 DEF Rivals
    <3>. QED BY <2>2, <3>1, <3>2 DEF Apart
  <2>4. CASE one = n
    <3>1. page'.at[two] = page.at[two] /\ two # n
      BY <2>1, <2>2, <2>4 DEF Live
    <3>2. page.at[two].rack = row.rack /\ FacingsOf(row) \cap FacingsOf(page.at[two]) # {}
      BY <1>3, <1>6, <1>8, <2>1, <2>4, <3>1 DEF Rivals
    <3>. QED BY <1>7, <2>1, <2>2, <2>4, <3>1, <3>2
  <2>5. CASE two = n
    <3>1. page'.at[one] = page.at[one] /\ one # n
      BY <2>1, <2>2, <2>5 DEF Live
    <3>2. page.at[one].rack = row.rack /\ FacingsOf(row) \cap FacingsOf(page.at[one]) # {}
      BY <1>3, <1>6, <1>8, <2>1, <2>5, <3>1 DEF Rivals
    <3>. QED BY <1>7, <2>1, <2>2, <2>5, <3>1, <3>2
  <2>. QED BY <2>3, <2>4, <2>5
<1>. QED BY <1>8 DEF Apart

(* On a page that shows what its racks were built from, a drop within the  *)
(* rack never lays one device over another (Rack#availableSpaces,          *)
(* RackSpaceDragHandler#stopDrag).                                         *)
THEOREM DropsLeaveDevicesApart == Spec => DropsKeepApart
<1> DEFINE Tidy == ((\E r \in posted' : r \notin posted) /\ drag.site # NoSite /\ ~drag.destroyed
                      /\ page.built = page.at /\ Apart(page.at)
                      /\ drag.site.rack = page.at[drag.node].rack)
                     => Apart(page'.at)
<1>1. ASSUME MouseInv, [Next]_vars PROVE Tidy
  <2>1. CASE EvMouseUpDragging
    <3>1. PICK point : StopDrag(point)
      BY <2>1 DEF EvMouseUpDragging
    <3>2. mouse.dragging
      BY <2>1 DEF EvMouseUpDragging
    <3>. QED BY <1>1, <3>1, <3>2, DropIsApart DEF StopDrag, Held, serverVars
  <2>2. CASE posted' \subseteq posted
    BY <2>2
  <2>3. ReceiveUpdate \/ Answer => posted' \subseteq posted
    BY NothingAtOrigin DEF ReceiveUpdate, Answer, UpdatePosition
  <2>4. (\/ EvMouseDownRack \/ EvDrag \/ EvMouseUpAfterCancel \/ EvMouseUpFirst
         \/ EvDoubleClick \/ MouseUpElsewhere \/ EvClick \/ EvRightClickRack
         \/ EvZoomComplete \/ SwitchFace \/ ImagesLoaded \/ SomebodyMoves \/ UNCHANGED vars)
         => posted' = posted
    BY DEF EvMouseDownRack, EvDrag, EvMouseUpAfterCancel, EvMouseUpFirst, EvDoubleClick,
           MouseUpElsewhere, EvClick, EvRightClickRack, EvZoomComplete, SwitchFace,
           ImagesLoaded, SomebodyMoves, vars, serverVars
  <2>. QED BY <1>1, <2>1, <2>2, <2>3, <2>4 DEF Next, EvMouseUpRack
<1>2. MouseInv /\ [Next]_vars => [Tidy]_vars
  BY <1>1
<1>. QED BY InitMouse, NextMouse, <1>2, PTL DEF Spec, DropsKeepApart

(***************************************************************************)
(* The chart: numbers, by the least counterexample                         *)
(***************************************************************************)
LEMMA Least ==
    ASSUME NEW T, T \subseteq Nat, T # {}
    PROVE  \E x \in T : \A y \in T : x <= y
<1>1. PICK R : IsWellFoundedOn(R, Nat) /\ \A x, y \in Nat : y < x => <<y, x>> \in R
  <2> DEFINE R == OpToRel(<, Nat)
  <2>1. IsWellFoundedOn(R, Nat)
    BY NatLessThanWellFounded
  <2>2. \A x, y \in Nat : y < x => <<y, x>> \in R
    BY DEF OpToRel
  <2> HIDE DEF R
  <2>. QED BY <2>1, <2>2
<1>2. PICK x \in T : \A y \in T : ~ (<<y, x>> \in R)
  BY <1>1, WFMin
<1>3. ASSUME NEW y \in T PROVE x <= y
  <2>1. x \in Nat /\ y \in Nat /\ ~(y < x)
    BY <1>1, <1>2
  <2>. QED BY <2>1
<1>. QED BY <1>3

LEMMA Climb ==
    ASSUME NEW n \in Nat, NEW T,
           0 \in T, \A k \in 1..n : k - 1 \in T => k \in T
    PROVE  0..n \subseteq T
<1>. SUFFICES ASSUME ~ (0..n \subseteq T) PROVE FALSE
  OBVIOUS
<1>. DEFINE B == (0..n) \ T
<1>1. B \subseteq Nat /\ B # {}
  OBVIOUS
<1>2. PICK k \in B : \A j \in B : k <= j
  <2>. HIDE DEF B
  <2>. QED BY <1>1, Least
<1>3. k \in 1..n /\ k - 1 \in 0..n /\ k - 1 < k
  BY <1>2
<1>4. k - 1 \in T
  BY <1>2, <1>3
<1>. QED BY <1>2, <1>3, <1>4

(***************************************************************************)
(* The axis                                                                *)
(***************************************************************************)

(* A function that agrees with the recursion up to n, and what it counts.   *)
Scale(n, g) ==
  \A m \in 0..n : /\ g[m] = (IF m < 10 THEN 1 ELSE 10 * g[m \div 10])
                  /\ g[m] \in Nat \ {0} /\ (m > 0 => g[m] <= m) /\ m < 10 * g[m]

LEMMA Tenth ==
    ASSUME NEW n \in Nat, n >= 10
    PROVE  n \div 10 \in 1..(n - 1) /\ 10 * (n \div 10) <= n /\ n < 10 * (n \div 10) + 10
OBVIOUS

LEMMA ScaleExists ==
    ASSUME NEW range \in Nat
    PROVE  \E g : Scale(range, g)
<1>. DEFINE T == {k \in 0..range : \E g : Scale(k, g)}
<1>1. 0 \in T
  <2>1. Scale(0, [n \in {0} |-> 1])
    BY DEF Scale
  <2>. QED BY <2>1
<1>2. ASSUME NEW k \in 1..range, k - 1 \in T PROVE k \in T
  <2>1. PICK g : Scale(k - 1, g)
    BY <1>2
  <2>. DEFINE h == [n \in 0..k |-> IF n < k THEN g[n] ELSE IF n < 10 THEN 1 ELSE 10 * g[n \div 10]]
  <2>2. ASSUME NEW n \in 0..k
        PROVE  /\ h[n] = (IF n < 10 THEN 1 ELSE 10 * h[n \div 10])
               /\ h[n] \in Nat \ {0} /\ (n > 0 => h[n] <= n) /\ n < 10 * h[n]
    <3>1. CASE n < k
      <4>1. n \in 0..(k - 1) /\ h[n] = g[n]
        BY <3>1
      <4>2. n >= 10 => h[n \div 10] = g[n \div 10]
        BY Tenth
      <4>. HIDE DEF h
      <4>. QED BY <2>1, <4>1, <4>2 DEF Scale
    <3>2. CASE n = k /\ n < 10
      BY <3>2
    <3>3. CASE n = k /\ n >= 10
      <4>1. PICK d \in 1..(k - 1) : d = n \div 10 /\ 10 * d <= n /\ n < 10 * d + 10
        BY <3>3, Tenth
      <4>2. h[d] = g[d] /\ h[n] = 10 * g[d]
        BY <3>3, <4>1
      <4>3. g[d] \in Nat \ {0} /\ g[d] <= d /\ d < 10 * g[d]
        BY <2>1, <4>1 DEF Scale
      <4>. HIDE DEF h
      <4>. QED BY <3>3, <4>1, <4>2, <4>3
    <3>. QED BY <3>1, <3>2, <3>3
  <2>3. Scale(k, h)
    <3>. HIDE DEF h
    <3>. QED BY <2>2 DEF Scale
  <2>. QED BY <2>3
<1>3. range \in T
  <2>. HIDE DEF T
  <2>. QED BY <1>1, <1>2, Climb
<1>. QED BY <1>3

LEMMA ScaleIsFactor ==
    ASSUME NEW range \in Nat, NEW g, Scale(range, g)
    PROVE  \A n \in 0..range : Factor(n) = g[n]
<1>. SUFFICES ASSUME NEW n \in 0..range PROVE Factor(n) = g[n]
  OBVIOUS
<1>. DEFINE Step(f) == [m \in 0..n |-> IF m < 10 THEN 1 ELSE 10 * f[m \div 10]]
<1>1. \E f : f = Step(f)
  <2>. DEFINE f == [m \in 0..n |-> g[m]]
  <2>1. \A m \in 0..n : m >= 10 => m \div 10 \in 0..n
    BY Tenth
  <2>2. Step(f) = f
    BY <2>1 DEF Scale
  <2>. QED BY <2>2
<1>2. PICK f : f = (CHOOSE h : h = Step(h))
  OBVIOUS
<1>3. f = Step(f)
  <2>. HIDE DEF Step
  <2>. QED BY <1>1, <1>2
<1>4. Factor(n) = f[n]
  BY <1>2 DEF Factor
<1>. DEFINE U == {k \in 0..n : \A m \in 0..k : f[m] = g[m]}
<1>5. 0 \in U
  BY <1>3 DEF Scale
<1>6. ASSUME NEW k \in 1..n, k - 1 \in U PROVE k \in U
  <2>1. k >= 10 => k \div 10 \in 0..(k - 1)
    BY Tenth
  <2>2. k >= 10 => f[k \div 10] = g[k \div 10]
    BY <1>6, <2>1
  <2>3. f[k] = (IF k < 10 THEN 1 ELSE 10 * f[k \div 10])
    BY <1>3
  <2>4. g[k] = (IF k < 10 THEN 1 ELSE 10 * g[k \div 10])
    BY DEF Scale
  <2>5. f[k] = g[k]
    BY <2>2, <2>3, <2>4
  <2>. QED BY <1>6, <2>5
<1>7. n \in U
  <2>. HIDE DEF U
  <2>. QED BY <1>5, <1>6, Climb
<1>. QED BY <1>4, <1>7

LEMMA FactorIs ==
    ASSUME NEW range \in Nat \ {0}
    PROVE  /\ Factor(range) \in Nat \ {0} /\ Factor(range) <= range /\ range < 10 * Factor(range)
           /\ range < 10 => Factor(range) = 1
           /\ range >= 10 => Factor(range) = 10 * Factor(range \div 10)
<1>1. PICK g : Scale(range, g)
  BY ScaleExists
<1>2. Factor(range) = g[range] /\ (range >= 10 => Factor(range \div 10) = g[range \div 10])
  BY <1>1, ScaleIsFactor, Tenth
<1>. QED BY <1>1, <1>2 DEF Scale

(* Factors are powers of ten: none lies between another and its tenfold.    *)
LEMMA FactorsApart ==
    ASSUME NEW b \in Nat \ {0}
    PROVE  \A a \in 1..b : Factor(b) < 10 * Factor(a) => Factor(a) = Factor(b)
<1>. DEFINE T == {k \in 0..b : \A n \in 1..k : \A a \in 1..n :
                                 Factor(n) < 10 * Factor(a) => Factor(a) = Factor(n)}
<1>1. 0 \in T
  OBVIOUS
<1>2. ASSUME NEW k \in 1..b, k - 1 \in T PROVE k \in T
  <2>. SUFFICES ASSUME NEW a \in 1..k, Factor(k) < 10 * Factor(a) PROVE Factor(a) = Factor(k)
    BY <1>2
  <2>1. CASE a < 10
    <3>1. Factor(a) = 1
      BY <2>1, FactorIs
    <3>2. k >= 10 => Factor(k) >= 10
      <4>. SUFFICES ASSUME k >= 10 PROVE Factor(k) >= 10
        OBVIOUS
      <4>1. PICK d \in 1..(k - 1) : d = k \div 10
        BY Tenth
      <4>2. Factor(k) = 10 * Factor(d) /\ Factor(d) \in Nat \ {0}
        BY <4>1, FactorIs
      <4>. QED BY <4>2
    <3>. QED BY <3>1, <3>2, FactorIs
  <2>2. CASE a >= 10
    <3>1. PICK c \in 1..(a - 1) : c = a \div 10 /\ a < 10 * c + 10
      BY <2>2, Tenth
    <3>2. k >= 10
      BY <2>2
    <3>3. PICK d \in 1..(k - 1) : d = k \div 10 /\ 10 * d <= k /\ k < 10 * d + 10
      BY <3>2, Tenth
    <3>4. c <= d
      <4>1. 10 * c <= a
        BY <2>2, <3>1, Tenth
      <4>. QED BY <3>3, <4>1
    <3>5. Factor(a) = 10 * Factor(c) /\ Factor(k) = 10 * Factor(d)
      BY <2>2, <3>1, <3>2, <3>3, FactorIs
    <3>6. Factor(c) \in Nat \ {0} /\ Factor(d) \in Nat \ {0}
      BY FactorIs
    <3>7. Factor(d) < 10 * Factor(c)
      BY <3>5, <3>6
    <3>8. Factor(c) = Factor(d)
      BY <1>2, <3>4, <3>7
    <3>. QED BY <3>5, <3>8
  <2>. QED BY <2>1, <2>2
<1>3. b \in T
  <2>. HIDE DEF T
  <2>. QED BY <1>1, <1>2, Climb
<1>. QED BY <1>3

LEMMA Multiple ==
    ASSUME NEW x \in Int, NEW f \in Nat \ {0}
    PROVE  /\ Down(x, f) \in Int /\ Down(x, f) <= x /\ x < Down(x, f) + f
           /\ Up(x, f) \in Int /\ x <= Up(x, f) /\ Up(x, f) < x + f
<1>1. PICK q \in Int : q = x \div f /\ q * f <= x /\ x < q * f + f
  OBVIOUS
<1>2. PICK r \in Int : r = (-x) \div f /\ r * f <= -x /\ -x < r * f + f
  OBVIOUS
<1>3. Down(x, f) = q * f
  BY <1>1 DEF Down
<1>4. Up(x, f) = -(r * f)
  <2>1. Up(x, f) = -r * f
    BY <1>2 DEF Up
  <2>. QED BY <2>1
<1>5. q * f \in Int /\ r * f \in Int
  OBVIOUS
<1>. QED BY <1>1, <1>2, <1>3, <1>4, <1>5

(* The axis holds the values between the two ends, zero alone at its foot.  *)
LEMMA AxisIs ==
    ASSUME NEW max \in Int, NEW min \in Int, min <= max
    PROVE  /\ AxisRange(max, min).low \in Int /\ AxisRange(max, min).high \in Int
           /\ AxisRange(max, min).low < AxisRange(max, min).high
           /\ \A v \in Int : min <= v /\ v <= max =>
                /\ AxisRange(max, min).low <= v /\ v <= AxisRange(max, min).high
                /\ v # 0 => AxisRange(max, min).low < v
<1>1. PICK axis : axis = AxisRange(max, min)
  OBVIOUS
<1>2. CASE max = min
  <2>1. axis.low = min - 1 /\ axis.high = max
    BY <1>1, <1>2 DEF AxisRange
  <2>. QED BY <1>1, <1>2, <2>1
<1>3. CASE max # min
  <2>1. PICK f \in Nat \ {0} : f = Factor(max - min)
    BY <1>3, FactorIs
  <2>2. PICK d \in Int : d = Down(min, f) /\ d <= min
    BY Multiple
  <2>3. PICK u \in Int : u = Up(max, f) /\ max <= u
    BY Multiple
  <2>4. axis.high = u /\ axis.low = (IF d = min /\ min # 0 THEN d - f ELSE d)
    BY <1>1, <1>3, <2>1, <2>2, <2>3 DEF AxisRange
  <2>5. PICK low \in Int : low = axis.low /\ low <= min /\ (low = min => min = 0)
    BY <2>2, <2>4
  <2>. QED BY <1>1, <1>3, <2>3, <2>4, <2>5
<1>. QED BY <1>2, <1>3

(* The labels divide the axis by the step before the first narrow one.      *)
LEMMA StepsAre ==
    /\ Len(Steps) = 11 /\ \A n \in 1..11 : Steps[n] \in Nat
    /\ Steps[1] = 10000 /\ Steps[2] = 5000 /\ Steps[3] = 2000 /\ Steps[4] = 1000 /\ Steps[5] = 500
    /\ Steps[6] = 200 /\ Steps[7] = 100 /\ Steps[8] = 50 /\ Steps[9] = 20 /\ Steps[10] = 10
    /\ Steps[11] = 5
BY DEF Steps

LEMMA StepIs ==
    ASSUME NEW low \in Int, NEW high \in Int, low < high
    PROVE  \E k \in 2..11 :
             /\ LabelDivision(low, high) = Steps[k - 1] * Factor(high - low)
             /\ Steps[k - 1] * (Factor(high - low) * Room) > 1000 * (high - low)
             /\ Steps[k] * (Factor(high - low) * Room) <= 1000 * (high - low)
<1>1. PICK range \in Nat \ {0} : range = high - low
  OBVIOUS
<1>2. PICK f \in Nat \ {0} : f = Factor(range) /\ f <= range /\ range < 10 * f
  BY FactorIs
<1>3. PICK p \in Nat \ {0} : p = f * Room /\ 2 * f <= p /\ p <= 200 * f
  BY ChartAssumption
<1>. DEFINE narrow(n) == Steps[n] * f * Room <= range * Unit
            first == CHOOSE n \in 2..Len(Steps) : narrow(n) /\ \A m \in 2..(n - 1) : ~narrow(m)
<1>5. \A n \in 1..11 : narrow(n) <=> Steps[n] * p <= 1000 * range
  <2>. TAKE n \in 1..11
  <2>1. PICK a \in Nat : a = Steps[n]
    BY StepsAre
  <2>2. a * f * Room = a * p
    BY <1>3, ChartAssumption
  <2>3. range * Unit = 1000 * range
    BY DEF Unit
  <2>. QED BY <2>1, <2>2, <2>3
<1>7. narrow(11) /\ ~narrow(1)
  <2>1. 5 * p <= 1000 * range /\ ~(10000 * p <= 1000 * range)
    BY <1>2, <1>3
  <2>. HIDE DEF narrow
  <2>. QED BY <1>5, <2>1, StepsAre
<1>8. PICK k \in 2..11 : k = first /\ narrow(k) /\ \A m \in 2..(k - 1) : ~narrow(m)
  <2>1. \E n \in 2..11 : narrow(n) /\ \A m \in 2..(n - 1) : ~narrow(m)
    <3>. DEFINE N == {n \in 2..11 : narrow(n)}
    <3>1. N \subseteq Nat /\ N # {}
      <4>. HIDE DEF narrow
      <4>. QED BY <1>7
    <3>2. PICK n \in N : \A m \in N : n <= m
      <4>. HIDE DEF N
      <4>. QED BY <3>1, Least
    <3>. HIDE DEF narrow
    <3>. QED BY <3>2
  <2>2. first = CHOOSE n \in 2..11 : narrow(n) /\ \A m \in 2..(n - 1) : ~narrow(m)
    BY StepsAre
  <2>. HIDE DEF narrow, first
  <2>. QED BY <2>1, <2>2
<1>9. LabelDivision(low, high) = Steps[k - 1] * f
  BY <1>1, <1>2, <1>8 DEF LabelDivision
<1>10. ~narrow(k - 1)
  <2>. HIDE DEF narrow
  <2>1. k - 1 = 1 \/ k - 1 \in 2..(k - 1)
    OBVIOUS
  <2>. QED BY <1>7, <1>8, <2>1
<1>11. /\ ~(Steps[k - 1] * p <= 1000 * range) /\ Steps[k] * p <= 1000 * range
       /\ Steps[k - 1] \in Nat /\ Steps[k] \in Nat
  <2>1. k - 1 \in 1..11 /\ k \in 1..11
    OBVIOUS
  <2>2. Steps[k - 1] \in Nat /\ Steps[k] \in Nat
    BY <2>1, StepsAre
  <2>. HIDE DEF narrow
  <2>. QED BY <1>5, <1>8, <1>10, <2>1, <2>2
<1>12. Steps[k - 1] * p > 1000 * range
  BY <1>11
<1>. HIDE DEF narrow, first
<1>. QED BY <1>1, <1>2, <1>3, <1>9, <1>11, <1>12

(* A division is wider than the distance of two labels. It is no wider than *)
(* the axis, but for room for two distances on an axis of four factors.     *)
LEMMA DivisionIs ==
    ASSUME NEW low \in Int, NEW high \in Int, low < high
    PROVE  /\ LabelDivision(low, high) \in Nat \ {0}
           /\ LabelDivision(low, high) * Room > (high - low) * Unit
           /\ \/ LabelDivision(low, high) <= (high - low) * Unit
              \/ /\ LabelDivision(low, high) = 5 * Factor(high - low) * Unit
                 /\ 4 * Factor(high - low) <= high - low /\ high - low < 5 * Factor(high - low)
<1>1. PICK range \in Nat \ {0} : range = high - low
  OBVIOUS
<1>2. PICK f \in Nat \ {0} : f = Factor(range) /\ f <= range /\ range < 10 * f
  BY FactorIs
<1>3. PICK p \in Nat \ {0} : p = f * Room /\ 2 * f <= p /\ p <= 200 * f /\ (Room # 2 => 3 * f <= p)
  BY ChartAssumption
<1>4. PICK k \in 2..11 : /\ LabelDivision(low, high) = Steps[k - 1] * f
                         /\ Steps[k - 1] * p > 1000 * range /\ Steps[k] * p <= 1000 * range
  BY <1>1, <1>2, <1>3, StepIs
<1>5. /\ Steps[k - 1] \in Nat \ {0} /\ Steps[k] \in Nat \ {0} /\ 2 * Steps[k - 1] <= 5 * Steps[k]
      /\ \/ Steps[k - 1] <= 2 * Steps[k]
         \/ Steps[k - 1] = 5000 /\ Steps[k] = 2000
         \/ Steps[k - 1] <= 500
  BY StepsAre
<1>6. PICK a \in Nat \ {0}, b \in Nat \ {0} :
        /\ a = Steps[k - 1] /\ b = Steps[k] /\ 2 * a <= 5 * b /\ a * p > 1000 * range
        /\ b * p <= 1000 * range /\ (a <= 2 * b \/ (a = 5000 /\ b = 2000) \/ a <= 500)
  BY <1>4, <1>5
<1>7. PICK d \in Nat \ {0} : d = a * f /\ LabelDivision(low, high) = d
  BY <1>4, <1>6
<1>8. d * Room = a * p
  BY <1>3, <1>7, ChartAssumption
<1>9. d <= 1000 * range \/ (a = 5000 /\ 4 * f <= range /\ range < 5 * f)
  <2>1. CASE a <= 2 * b
    <3>1. b * (2 * f) <= b * p
      BY <1>3
    <3>2. d <= 2 * (b * f)
      BY <1>7, <2>1
    <3>3. b * (2 * f) = 2 * (b * f) /\ b * f \in Nat
      OBVIOUS
    <3>. QED BY <1>6, <3>1, <3>2, <3>3
  <2>2. CASE a <= 500
    <3>1. d <= 500 * f
      BY <1>7, <2>2
    <3>. QED BY <1>2, <3>1
  <2>3. CASE a = 5000 /\ b = 2000
    <3>1. d = 5000 * f /\ 2000 * p <= 1000 * range
      BY <1>6, <1>7, <2>3
    <3>. QED BY <1>3, <2>3, <3>1
  <2>. QED BY <1>6, <2>1, <2>2, <2>3
<1>10. a = 5000 => d = 5 * f * 1000
  BY <1>7
<1>. QED BY <1>1, <1>2, <1>6, <1>7, <1>8, <1>9, <1>10 DEF Unit

(***************************************************************************)
(* The labels                                                              *)
(***************************************************************************)
LEMMA AxisEnds ==
    ASSUME NEW max \in Int, NEW min \in Int, min < max,
           NEW f \in Nat \ {0}, f = Factor(max - min), NEW axis, axis = AxisRange(max, min)
    PROVE  \E x, y \in Int : /\ axis.low = f * x /\ axis.high = f * y
                             /\ max - min <= f * y - f * x /\ f * y - f * x < max - min + 2 * f
<1>3. PICK q \in Int : q = min \div f /\ q * f <= min /\ min < q * f + f
  OBVIOUS
<1>4. PICK r \in Int : r = (-max) \div f /\ r * f <= -max /\ -max < r * f + f
  OBVIOUS
<1>5. Down(min, f) = f * q /\ Up(max, f) = f * (-r)
  <2>1. Up(max, f) = -r * f
    BY <1>4 DEF Up
  <2>2. -r * f = f * (-r)
    OBVIOUS
  <2>. QED BY <1>3, <2>1, <2>2 DEF Down
<1>6. axis.low = (IF f * q = min /\ min # 0 THEN f * q - f ELSE f * q) /\ axis.high = f * (-r)
  BY <1>5 DEF AxisRange
<1>7. f * q - f = f * (q - 1) /\ f * q \in Int /\ f * (-r) \in Int /\ f * q = q * f /\ f * (-r) = -(r * f)
  OBVIOUS
<1>8. PICK x \in Int : axis.low = f * x /\ f * x <= min /\ min - f <= f * x
  <2>1. CASE f * q = min /\ min # 0
    <3>1. axis.low = f * (q - 1) /\ q - 1 \in Int /\ f * (q - 1) <= min /\ min - f <= f * (q - 1)
      BY <1>3, <1>6, <1>7, <2>1
    <3>. QED BY <3>1
  <2>2. CASE ~(f * q = min /\ min # 0)
    <3>1. axis.low = f * q /\ f * q <= min /\ min - f <= f * q
      BY <1>3, <1>6, <1>7, <2>2
    <3>. QED BY <3>1
  <2>. QED BY <2>1, <2>2
<1>9. max <= f * (-r) /\ f * (-r) < max + f
  BY <1>4, <1>7
<1>10. PICK y \in Int : axis.high = f * y /\ max <= f * y /\ f * y < max + f
  BY <1>6, <1>9
<1>11. PICK l \in Int, h \in Int : l = f * x /\ h = f * y
  OBVIOUS
<1>12. max - min <= h - l /\ h - l < max - min + 2 * f
  BY <1>8, <1>10, <1>11
<1>. QED BY <1>8, <1>10, <1>11, <1>12

(* An axis that is not empty has a label, and labels keep their distance.   *)
LEMMA LabelsOf ==
    ASSUME NEW low \in Int, NEW high \in Int, low < high,
           NEW d \in Nat \ {0}, d = LabelDivision(low, high)
    PROVE  /\ \A k \in Int : low * Unit <= d * k /\ d * k <= high * Unit => d * k \in Labels(low, high)
           /\ \A a, b \in Labels(low, high) : a \in Int /\ b \in Int /\ (a < b => b - a >= d)
<1>1. PICK l \in Int, h \in Int : l = low * Unit /\ h = high * Unit
  BY DEF Unit
<1>2. PICK q \in Int : q = (-l) \div d /\ q * d <= -l /\ -l < q * d + d
  OBVIOUS
<1>3. PICK r \in Int : r = h \div d /\ r * d <= h /\ h < r * d + d
  OBVIOUS
<1>4. Labels(low, high) = {d * k : k \in (-q)..r}
  <2>1. -low * Unit = -l
    BY <1>1 DEF Unit
  <2>. QED BY <1>1, <1>2, <1>3, <2>1 DEF Labels
<1>5. ASSUME NEW k \in Int, l <= d * k, d * k <= h PROVE k \in (-q)..r
  <2>1. k <= r
    <3>. SUFFICES ASSUME k >= r + 1 PROVE FALSE
      OBVIOUS
    <3>1. d * k >= d * (r + 1)
      OBVIOUS
    <3>2. d * (r + 1) = r * d + d
      OBVIOUS
    <3>. QED BY <1>3, <1>5, <3>1, <3>2
  <2>2. -q <= k
    <3>. SUFFICES ASSUME k <= -q - 1 PROVE FALSE
      OBVIOUS
    <3>1. d * k <= d * (-q - 1)
      OBVIOUS
    <3>2. d * (-q - 1) = -(q * d) - d
      OBVIOUS
    <3>. QED BY <1>2, <1>5, <3>1, <3>2
  <2>. QED BY <2>1, <2>2
<1>6. ASSUME NEW k \in Int, NEW m \in Int, d * k < d * m PROVE d * m - d * k >= d
  <2>1. k < m
    <3>. SUFFICES ASSUME m <= k PROVE FALSE
      OBVIOUS
    <3>1. d * m <= d * k
      OBVIOUS
    <3>. QED BY <1>6, <3>1
  <2>2. d * (k + 1) <= d * m /\ d * (k + 1) = d * k + d
    BY <2>1
  <2>. QED BY <2>2
<1>7. \A k \in Int : d * k \in Int
  OBVIOUS
<1>. QED BY <1>1, <1>4, <1>5, <1>6, <1>7

LEMMA LabelsAre ==
    ASSUME NEW max \in Int, NEW min \in Int, min <= max, NEW axis, axis = AxisRange(max, min)
    PROVE  /\ Labels(axis.low, axis.high) # {}
           /\ \A a, b \in Labels(axis.low, axis.high) :
                a < b => (b - a) * Room > (axis.high - axis.low) * Unit
<1>1. PICK low \in Int, high \in Int : low = axis.low /\ high = axis.high /\ low < high
  BY AxisIs
<1>2. PICK d \in Nat \ {0} : d = LabelDivision(low, high) /\ d * Room > (high - low) * Unit
  BY <1>1, DivisionIs
<1>3. ASSUME NEW a \in Labels(low, high), NEW b \in Labels(low, high), a < b
      PROVE  (b - a) * Room > (high - low) * Unit
  <2>1. PICK e \in Nat : e = b - a /\ e >= d
    <3>1. a \in Int /\ b \in Int /\ b - a >= d
      BY <1>1, <1>2, <1>3, LabelsOf
    <3>. QED BY <3>1
  <2>2. e * Room >= d * Room
    BY <2>1, ChartAssumption
  <2>. QED BY <1>2, <2>1, <2>2, ChartAssumption DEF Unit
<1>4. \E k \in Int : low * Unit <= d * k /\ d * k <= high * Unit
  <2>1. CASE d <= (high - low) * Unit
    <3>1. PICK q \in Int : q = (high * Unit) \div d /\ q * d <= high * Unit /\ high * Unit < q * d + d
      BY DEF Unit
    <3>2. low * Unit <= d * q /\ d * q <= high * Unit
      <4>1. PICK e \in Int : e = d * q /\ e = q * d
        OBVIOUS
      <4>. QED BY <2>1, <3>1, <4>1 DEF Unit
    <3>. QED BY <3>2
  <2>2. CASE ~(d <= (high - low) * Unit)
    <3>1. PICK f \in Nat \ {0} : /\ f = Factor(high - low) /\ d = 5 * f * Unit
                                 /\ 4 * f <= high - low /\ high - low < 5 * f
      <4>1. high - low \in Nat \ {0}
        BY <1>1
      <4>2. Factor(high - low) \in Nat \ {0}
        BY <4>1, FactorIs
      <4>. QED BY <1>1, <1>2, <2>2, <4>2, DivisionIs
    <3>2. min < max
      <4>. SUFFICES ASSUME min = max PROVE FALSE
        OBVIOUS
      <4>1. high - low = 1
        BY <1>1 DEF AxisRange
      <4>. QED BY <3>1, <4>1
    <3>3. PICK g \in Nat \ {0} : g = Factor(max - min) /\ g <= max - min /\ max - min < 10 * g
      BY <3>2, FactorIs
    <3>4. PICK x \in Int, y \in Int :
            /\ low = g * x /\ high = g * y
            /\ max - min <= g * y - g * x /\ g * y - g * x < max - min + 2 * g
      BY <1>1, <3>2, <3>3, AxisEnds
    <3>5. g = f
      <4>1. max - min <= high - low /\ high - low < 12 * g
        BY <3>3, <3>4
      <4>2. f < 10 * g
        BY <3>1, <4>1
      <4>3. max - min \in 1..(high - low) /\ high - low \in Nat \ {0}
        BY <1>1, <3>2, <4>1
      <4>. QED BY <3>1, <3>3, <4>2, <4>3, FactorsApart
    <3>6. y = x + 4
      <4>1. f * y - f * x = f * (y - x) /\ y - x \in Int
        OBVIOUS
      <4>2. PICK n \in Int : n = y - x /\ 4 * f <= f * n /\ f * n < 5 * f
        BY <3>1, <3>4, <3>5, <4>1
      <4>3. n >= 4
        <5>. SUFFICES ASSUME n <= 3 PROVE FALSE
          OBVIOUS
        <5>1. f * n <= f * 3
          OBVIOUS
        <5>. QED BY <4>2, <5>1
      <4>4. n <= 4
        <5>. SUFFICES ASSUME n >= 5 PROVE FALSE
          OBVIOUS
        <5>1. f * n >= f * 5
          OBVIOUS
        <5>. QED BY <4>2, <5>1
      <4>. QED BY <4>2, <4>3, <4>4
    <3>7. PICK k \in Int : x <= 5 * k /\ 5 * k <= x + 4
      <4>1. PICK k \in Int : k = (x + 4) \div 5 /\ 5 * k <= x + 4 /\ x + 4 < 5 * k + 5
        OBVIOUS
      <4>. QED BY <4>1
    <3>8. f * x <= f * (5 * k) /\ f * (5 * k) <= f * (x + 4)
      BY <3>7
    <3>9. d * k = f * (5 * k) * 1000
      BY <3>1 DEF Unit
    <3>10. PICK a \in Int, b \in Int, c \in Int : a = f * x /\ b = f * (5 * k) /\ c = f * (x + 4)
      OBVIOUS
    <3>11. low = a /\ high = c /\ d * k = b * 1000 /\ a <= b /\ b <= c
      BY <3>4, <3>5, <3>6, <3>8, <3>9, <3>10
    <3>12. low * Unit <= d * k /\ d * k <= high * Unit
      BY ONLY <3>11, a \in Int, b \in Int, c \in Int DEF Unit
    <3>. QED BY <3>12
  <2>. QED BY <2>1, <2>2
<1>5. Labels(low, high) # {}
  BY <1>1, <1>2, <1>4, LabelsOf
<1>. QED BY <1>1, <1>3, <1>5

(***************************************************************************)
(* The search                                                              *)
(***************************************************************************)

(* What is left of an ordered list holds whatever may still be x; the index *)
(* last tried is next to where x is or would be.                            *)
Part(x, xs, n, w) ==
  /\ w.low \in 1..(n + 1) /\ w.high \in 0..n /\ w.low <= w.high + 1 /\ w.idx \in 0..n
  /\ \A i \in 1..n : (i < w.low => xs[i] < x) /\ (i > w.high => xs[i] > x)
  /\ w.low > w.high => w.idx \in {w.low, w.high} \ {0}

(* What is left after k turns, unless x was found.                          *)
Shrinks(x, xs, n, k, w) ==
  \/ w.high - w.low + 1 <= n - k
  \/ /\ w.low <= w.high /\ w.idx = (w.low + w.high) \div 2 /\ w.idx \in 1..n /\ xs[w.idx] = x

Ascending(xs, n) == xs \in [1..n -> Int] /\ \A i, j \in 1..n : i < j => xs[i] < xs[j]

LEMMA Turn ==
    ASSUME NEW n \in Nat \ {0}, NEW x \in Int, NEW xs, Ascending(xs, n),
           NEW k \in 0..(n - 1), NEW w, Part(x, xs, n, w), Shrinks(x, xs, n, k, w)
    PROVE  Part(x, xs, n, Try(x, xs, w)) /\ Shrinks(x, xs, n, k + 1, Try(x, xs, w))
<1>1. CASE w.low > w.high
  <2>1. Try(x, xs, w) = w
    BY <1>1 DEF Try
  <2>2. w.low \in Int /\ w.high \in Int /\ w.low = w.high + 1
    BY <1>1 DEF Part
  <2>3. Shrinks(x, xs, n, k + 1, w)
    BY <2>2 DEF Shrinks
  <2>. QED BY <2>1, <2>3
<1>2. CASE w.low <= w.high
  <2>1. PICK low \in 1..n, high \in 1..n : low = w.low /\ high = w.high /\ low <= high
    BY <1>2 DEF Part
  <2>2. PICK mid \in low..high : mid = (low + high) \div 2
    BY <2>1
  <2>3. PICK v : v = Try(x, xs, w)
    OBVIOUS
  <2>4. /\ v.low = IF xs[mid] < x THEN mid + 1 ELSE low
        /\ v.high = IF xs[mid] > x THEN mid - 1 ELSE high
        /\ v.idx = mid
    BY <2>1, <2>2, <2>3 DEF Try
  <2>5. mid \in 1..n /\ xs[mid] \in Int /\ \A i \in 1..n : xs[i] \in Int
    BY <2>1, <2>2 DEF Ascending
  <2>6. \A i \in 1..n : (i < low => xs[i] < x) /\ (i > high => xs[i] > x)
    BY <2>1 DEF Part
  <2>7. CASE xs[mid] < x
    <3>1. v.low = mid + 1 /\ v.high = high /\ v.idx = mid
      BY <2>4, <2>5, <2>7
    <3>2. \A i \in 1..n : i < mid + 1 => xs[i] < x
      <4>. TAKE i \in 1..n
      <4>1. i < mid => xs[i] < xs[mid]
        BY <2>5 DEF Ascending
      <4>. QED BY <2>5, <2>7, <4>1
    <3>3. Part(x, xs, n, v)
      BY <2>1, <2>2, <2>5, <2>6, <3>1, <3>2 DEF Part
    <3>4. high - (mid + 1) + 1 <= n - (k + 1)
      <4>1. high - low + 1 <= n - k
        BY <2>1, <2>2, <2>5, <2>7 DEF Shrinks
      <4>. QED BY <4>1, <2>1, <2>2
    <3>. QED BY <2>3, <3>1, <3>3, <3>4 DEF Shrinks
  <2>8. CASE xs[mid] > x
    <3>1. v.low = low /\ v.high = mid - 1 /\ v.idx = mid
      BY <2>4, <2>5, <2>8
    <3>2. \A i \in 1..n : i > mid - 1 => xs[i] > x
      <4>. TAKE i \in 1..n
      <4>1. mid < i => xs[mid] < xs[i]
        BY <2>5 DEF Ascending
      <4>. QED BY <2>5, <2>8, <4>1
    <3>3. Part(x, xs, n, v)
      BY <2>1, <2>2, <2>5, <2>6, <3>1, <3>2 DEF Part
    <3>4. (mid - 1) - low + 1 <= n - (k + 1)
      <4>1. high - low + 1 <= n - k
        BY <2>1, <2>2, <2>5, <2>8 DEF Shrinks
      <4>. QED BY <4>1, <2>1, <2>2
    <3>. QED BY <2>3, <3>1, <3>3, <3>4 DEF Shrinks
  <2>9. CASE xs[mid] = x
    <3>1. v.low = low /\ v.high = high /\ v.idx = mid
      BY <2>4, <2>5, <2>9
    <3>2. Part(x, xs, n, v)
      BY <2>1, <2>2, <2>5, <2>6, <3>1 DEF Part
    <3>. QED BY <2>1, <2>2, <2>3, <2>5, <2>9, <3>1, <3>2 DEF Shrinks
  <2>. QED BY <2>5, <2>7, <2>8, <2>9
<1>. QED BY <1>1, <1>2 DEF Part

(* The search ends next to the gap in which x would be, or on x.            *)
Found(x, xs, n, i) ==
  /\ i \in 1..n
  /\ \/ xs[i] = x
     \/ \E p \in 0..n : /\ i = p \/ i = p + 1
                        /\ \A j \in 1..n : IF j <= p THEN xs[j] < x ELSE x < xs[j]

LEMMA Search ==
    ASSUME NEW n \in Nat \ {0}, NEW x \in Int, NEW xs, Ascending(xs, n)
    PROVE  Found(x, xs, n, LastTried(x, xs))
<1>1. Len(xs) = n
  BY DEF Ascending
<1>. DEFINE First == [low |-> 1, high |-> n, idx |-> 0]
            Step(f) == [k \in 0..n |-> IF k = 0 THEN First ELSE Try(x, xs, f[k - 1])]
            Well(k, w) == Part(x, xs, n, w) /\ Shrinks(x, xs, n, k, w)
            Turns(k, g) == \A m \in 0..k : /\ g[m] = (IF m = 0 THEN First ELSE Try(x, xs, g[m - 1]))
                                           /\ Well(m, g[m])
            T == {k \in 0..n : \E g : Turns(k, g)}
<1>2. Well(0, First)
  <2>1. Part(x, xs, n, First)
    BY DEF Part
  <2>2. Shrinks(x, xs, n, 0, First)
    BY DEF Shrinks
  <2>. QED BY <2>1, <2>2
<1>3. 0 \in T
  <2>1. Turns(0, [m \in {0} |-> First])
    BY <1>2
  <2>. HIDE DEF Turns
  <2>. QED BY <2>1
<1>4. ASSUME NEW k \in 1..n, k - 1 \in T PROVE k \in T
  <2>1. PICK g : Turns(k - 1, g)
    <3>. HIDE DEF Turns
    <3>. QED BY <1>4
  <2>. DEFINE h == [m \in 0..k |-> IF m < k THEN g[m] ELSE Try(x, xs, g[k - 1])]
  <2>2. ASSUME NEW m \in 0..k
        PROVE  h[m] = (IF m = 0 THEN First ELSE Try(x, xs, h[m - 1])) /\ Well(m, h[m])
    <3>1. CASE m < k
      <4>1. m \in 0..(k - 1) /\ h[m] = g[m] /\ (m # 0 => h[m - 1] = g[m - 1])
        BY <3>1
      <4>2. g[m] = (IF m = 0 THEN First ELSE Try(x, xs, g[m - 1])) /\ Well(m, g[m])
        BY <2>1, <4>1
      <4>. HIDE DEF h, Well, First
      <4>. QED BY <4>1, <4>2
    <3>2. CASE m = k
      <4>1. m # 0 /\ h[m - 1] = g[k - 1] /\ h[m] = Try(x, xs, g[k - 1]) /\ k - 1 \in 0..(n - 1)
        BY <3>2
      <4>2. Well(k - 1, g[k - 1])
        BY <2>1, <4>1
      <4>3. Well(k, Try(x, xs, g[k - 1]))
        <5>1. k - 1 + 1 = k
          OBVIOUS
        <5>2. Part(x, xs, n, g[k - 1]) /\ Shrinks(x, xs, n, k - 1, g[k - 1])
          BY <4>2
        <5>3. /\ Part(x, xs, n, Try(x, xs, g[k - 1]))
              /\ Shrinks(x, xs, n, k - 1 + 1, Try(x, xs, g[k - 1]))
          <6>. HIDE DEF h, Turns
          <6>. QED BY <4>1, <5>2, Turn
        <5>. QED BY <5>1, <5>3
      <4>. HIDE DEF h, Well, First
      <4>. QED BY <3>2, <4>1, <4>3
    <3>. QED BY <3>1, <3>2
  <2>3. Turns(k, h)
    <3>. HIDE DEF h, Well, First
    <3>. QED BY <2>2
  <2>. HIDE DEF Turns, h
  <2>. QED BY <2>3
<1>5. n \in T
  <2>. HIDE DEF T
  <2>. QED BY <1>3, <1>4, Climb
<1>6. PICK g : Turns(n, g)
  <2>. HIDE DEF Turns
  <2>. QED BY <1>5
<1>7. \E f : f = Step(f)
  <2>. DEFINE f == [m \in 0..n |-> g[m]]
  <2>1. \A m \in 0..n : m # 0 => m - 1 \in 0..n
    OBVIOUS
  <2>. HIDE DEF First, Well
  <2>2. Step(f) = f
    BY <1>6, <2>1
  <2>. QED BY <2>2
<1>8. PICK f : f = (CHOOSE h : h = Step(h))
  OBVIOUS
<1>9. f = Step(f)
  <2>. HIDE DEF Step
  <2>. QED BY <1>7, <1>8
<1>10. LastTried(x, xs) = f[n].idx
  BY <1>1, <1>8 DEF LastTried
<1>. HIDE DEF First, Well
<1>. DEFINE U == {k \in 0..n : f[k] = g[k]}
<1>11. 0 \in U
  BY <1>6, <1>9
<1>12. ASSUME NEW k \in 1..n, k - 1 \in U PROVE k \in U
  <2>1. f[k] = Try(x, xs, f[k - 1]) /\ g[k] = Try(x, xs, g[k - 1])
    <3>1. k \in 0..n /\ k # 0
      OBVIOUS
    <3>2. f[k] = Step(f)[k]
      BY <1>9
    <3>3. Step(f)[k] = Try(x, xs, f[k - 1])
      BY <3>1
    <3>4. g[k] = (IF k = 0 THEN First ELSE Try(x, xs, g[k - 1]))
      BY <1>6, <3>1
    <3>. HIDE DEF Step
    <3>. QED BY <3>1, <3>2, <3>3, <3>4
  <2>. QED BY <1>12, <2>1
<1>13. f[n] = g[n]
  <2>1. n \in U
    <3>. HIDE DEF U
    <3>. QED BY <1>11, <1>12, Climb
  <2>. QED BY <2>1
<1>14. PICK w : w = f[n] /\ Part(x, xs, n, w) /\ Shrinks(x, xs, n, n, w)
  BY <1>6, <1>13 DEF Well
<1>15. CASE w.low > w.high
  <2>1. PICK p \in 0..n : p = w.high /\ w.low = p + 1 /\ w.idx \in {p, p + 1} \ {0} /\ w.idx \in 1..n
    BY <1>14, <1>15 DEF Part
  <2>2. \A j \in 1..n : IF j <= p THEN xs[j] < x ELSE x < xs[j]
    <3>. TAKE j \in 1..n
    <3>1. (j < p + 1 => xs[j] < x) /\ (j > p => xs[j] > x) /\ xs[j] \in Int
      BY <1>14, <2>1 DEF Part, Ascending
    <3>. QED BY <3>1
  <2>. QED BY <1>10, <1>14, <2>1, <2>2 DEF Found
<1>16. CASE ~(w.low > w.high)
  <2>1. w.idx \in 1..n /\ xs[w.idx] = x
    BY <1>14, <1>16 DEF Part, Shrinks
  <2>. QED BY <1>10, <1>14, <2>1 DEF Found
<1>. QED BY <1>15, <1>16

LEMMA BarsAscend ==
    ASSUME NEW n \in Nat
    PROVE  /\ Ascending(Centres(n), n) /\ Ascending(Dots(n), n)
           /\ DOMAIN Centres(n) = 1..n /\ DOMAIN Dots(n) = 1..n
<1>1. PICK half \in Int : half = Width \div 2
  BY ChartAssumption
<1>2. \A k \in 1..n : Left(k) \in Int /\ Gap * (k - 1) \in Int
  BY ChartAssumption DEF Left
<1>3. ASSUME NEW i \in 1..n, NEW j \in 1..n, i < j PROVE Left(i) < Left(j) /\ Gap * (i - 1) < Gap * (j - 1)
  <2>1. PICK a \in Nat, b \in Nat : a = i - 1 /\ b = j - 1 /\ a < b
    BY <1>3
  <2>2. Width * a < Width * b /\ Gap * a < Gap * b
    BY <2>1, ChartAssumption
  <2>. QED BY <2>1, <2>2 DEF Left
<1>4. Centres(n) = [k \in 1..n |-> Left(k) + half] /\ Dots(n) = [k \in 1..n |-> Gap * (k - 1)]
  BY <1>1 DEF Centres, Dots
<1>5. \A k \in 1..n : Left(k) + half \in Int
  BY <1>2
<1>6. Ascending(Dots(n), n)
  BY <1>2, <1>3, <1>4 DEF Ascending
<1>7. Ascending(Centres(n), n)
  <2>1. ASSUME NEW i \in 1..n, NEW j \in 1..n, i < j PROVE Left(i) + half < Left(j) + half
    <3>1. Left(i) \in Int /\ Left(j) \in Int /\ Left(i) < Left(j)
      BY <1>2, <1>3, <2>1
    <3>. QED BY <3>1
  <2>. QED BY <1>4, <1>5, <2>1 DEF Ascending
<1>. QED BY <1>4, <1>6, <1>7

LEMMA CandidatesAre ==
    ASSUME NEW n \in Nat \ {0}, NEW x \in Int, NEW xs, Ascending(xs, n)
    PROVE  \E i \in 1..n : /\ Found(x, xs, n, i)
                           /\ Candidates(x, xs) = ((i - 1)..(i + 1)) \cap 1..n
<1>1. Found(x, xs, n, LastTried(x, xs))
  BY Search
<1>2. DOMAIN xs = 1..n
  BY DEF Ascending
<1>. QED BY <1>1, <1>2 DEF Candidates, Found

(* The mouse is over a bar that the search has found.                       *)
LEMMA BarIsFound ==
    ASSUME NEW n \in Nat \ {0}, NEW x \in 0..(Width * n)
    PROVE  \E k \in HoverBar(n, x) : OverBar(x, k)
<1>1. PICK half \in Nat : Width = 2 * half /\ half = Width \div 2 /\ half > 0
  BY ChartAssumption
<1>2. Ascending(Centres(n), n)
  BY BarsAscend
<1>3. x \in Int /\ Width * n \in Int /\ 0 <= x /\ x <= Width * n
  BY ChartAssumption
<1>4. PICK i \in 1..n : /\ Found(x, Centres(n), n, i)
                        /\ Candidates(x, Centres(n)) = ((i - 1)..(i + 1)) \cap 1..n
  BY <1>2, <1>3, CandidatesAre
<1>5. \A k \in 1..n : Centres(n)[k] = Left(k) + half
  BY <1>1 DEF Centres
<1>6. \A k \in 1..(n + 1) : Left(k) \in Int /\ (k <= n => Left(k + 1) = Left(k) + Width)
  BY ChartAssumption DEF Left
<1>7. Left(1) = 0 /\ Left(n + 1) = Width * n
  BY ChartAssumption DEF Left
<1>. SUFFICES \E k \in 1..n : i - 1 <= k /\ k <= i + 1 /\ Left(k) <= x /\ x <= Left(k) + Width
  BY <1>4 DEF HoverBar, OverBar
<1>8. CASE Centres(n)[i] = x
  <2>1. x = Left(i) + half /\ Left(i) \in Int
    BY <1>5, <1>6, <1>8
  <2>. QED BY <1>1, <2>1
<1>9. CASE Centres(n)[i] # x
  <2>1. PICK p \in 0..n : /\ i = p \/ i = p + 1
                          /\ \A j \in 1..n : IF j <= p THEN Centres(n)[j] < x ELSE x < Centres(n)[j]
    BY <1>4, <1>9 DEF Found
  <2>2. p # 0 => Left(p) + half < x /\ Left(p) \in Int /\ Left(p + 1) = Left(p) + Width
    <3>. SUFFICES ASSUME p # 0
                  PROVE  Left(p) + half < x /\ Left(p) \in Int /\ Left(p + 1) = Left(p) + Width
      OBVIOUS
    <3>1. p \in 1..n /\ p <= p
      OBVIOUS
    <3>2. Centres(n)[p] < x
      BY <2>1, <3>1
    <3>. QED BY <1>5, <1>6, <3>1, <3>2
  <2>3. p # n => x < Left(p + 1) + half /\ Left(p + 1) \in Int
    <3>. SUFFICES ASSUME p # n PROVE x < Left(p + 1) + half /\ Left(p + 1) \in Int
      OBVIOUS
    <3>1. p + 1 \in 1..n /\ ~(p + 1 <= p)
      OBVIOUS
    <3>2. x < Centres(n)[p + 1]
      BY <2>1, <3>1
    <3>. QED BY <1>5, <1>6, <3>1, <3>2
  <2>4. CASE p = 0
    BY <1>1, <1>3, <1>7, <2>1, <2>3, <2>4
  <2>5. CASE p = n
    <3>1. x <= Left(n) + Width /\ Left(n) <= x
      BY <1>1, <1>3, <1>7, <2>2, <2>5
    <3>. QED BY <2>1, <2>5, <3>1
  <2>6. CASE p # 0 /\ p # n
    <3>1. PICK l \in Int : l = Left(p) /\ l + half < x /\ x < l + Width + half /\ Left(p + 1) = l + Width
      BY <2>2, <2>3, <2>6
    <3>2. p \in 1..n /\ p + 1 \in 1..n
      BY <2>6
    <3>3. CASE x <= l + Width
      BY <1>1, <2>1, <3>1, <3>2, <3>3
    <3>4. CASE ~(x <= l + Width)
      <4>1. Left(p + 1) <= x /\ x <= Left(p + 1) + Width
        BY <1>1, <1>3, <3>1, <3>4
      <4>. QED BY <2>1, <3>2, <4>1
    <3>. QED BY <3>3, <3>4
  <2>. QED BY <2>4, <2>5, <2>6
<1>. QED BY <1>8, <1>9

(* A point next to the mouse is among those that the search looks at.       *)
LEMMA PointsAreLookedAt ==
    ASSUME NEW n \in Nat \ {0}, NEW x \in 0..(Gap * n), NEW j \in 1..n,
           Dots(n)[j] \in (x - Gap)..(x + Gap)
    PROVE  j \in Candidates(x, Dots(n)) /\ Candidates(x, Dots(n)) \subseteq 1..n
<1>1. Ascending(Dots(n), n)
  BY BarsAscend
<1>2. x \in Int /\ 0 <= x /\ Gap \in Nat \ {0}
  BY ChartAssumption
<1>3. PICK i \in 1..n : /\ Found(x, Dots(n), n, i)
                        /\ Candidates(x, Dots(n)) = ((i - 1)..(i + 1)) \cap 1..n
  BY <1>1, <1>2, CandidatesAre
<1>4. \A k \in 1..n : Dots(n)[k] \in Int
  BY <1>1 DEF Ascending
<1>5. \A k \in 1..n : k + 1 \in 1..n => Dots(n)[k + 1] = Dots(n)[k] + Gap
  BY <1>2 DEF Dots
<1>6. \A k, l \in 1..n : k < l => Dots(n)[k] + Gap <= Dots(n)[l]
  <2>. SUFFICES ASSUME NEW k \in 1..n, NEW l \in 1..n, k < l
                PROVE  Dots(n)[k] + Gap <= Dots(n)[l]
    OBVIOUS
  <2>1. k + 1 \in 1..n /\ (k + 1 = l \/ k + 1 < l)
    OBVIOUS
  <2>2. Dots(n)[k + 1] <= Dots(n)[l]
    BY <1>1, <1>4, <2>1 DEF Ascending
  <2>. QED BY <1>5, <2>1, <2>2
<1>7. i - 1 <= j /\ j <= i + 1
  <2>1. CASE Dots(n)[i] = x
    <3>1. ASSUME j < i - 1 PROVE FALSE
      <4>1. i - 1 \in 1..n /\ j < i - 1 /\ i - 1 < i
        BY <3>1
      <4>2. Dots(n)[j] + Gap <= Dots(n)[i - 1] /\ Dots(n)[i - 1] + Gap <= x
        BY <1>6, <2>1, <4>1
      <4>. QED BY <1>2, <1>4, <4>1, <4>2
    <3>2. ASSUME i + 1 < j PROVE FALSE
      <4>1. i + 1 \in 1..n /\ i + 1 < j /\ i < i + 1
        BY <3>2
      <4>2. x + Gap <= Dots(n)[i + 1] /\ Dots(n)[i + 1] + Gap <= Dots(n)[j]
        BY <1>6, <2>1, <4>1
      <4>. QED BY <1>2, <1>4, <4>1, <4>2
    <3>. QED BY <3>1, <3>2
  <2>2. CASE Dots(n)[i] # x
    <3>1. PICK p \in 0..n : /\ i = p \/ i = p + 1
                            /\ \A m \in 1..n : IF m <= p THEN Dots(n)[m] < x ELSE x < Dots(n)[m]
      BY <1>3, <2>2 DEF Found
    <3>2. p <= j
      <4>. SUFFICES ASSUME j < p PROVE FALSE
        OBVIOUS
      <4>1. p \in 1..n /\ Dots(n)[p] < x
        BY <3>1
      <4>2. Dots(n)[j] + Gap <= Dots(n)[p]
        BY <1>6, <4>1
      <4>. QED BY <1>2, <1>4, <4>1, <4>2
    <3>3. j <= p + 1
      <4>. SUFFICES ASSUME p + 1 < j PROVE FALSE
        OBVIOUS
      <4>1. p + 1 \in 1..n /\ ~(p + 1 <= p)
        OBVIOUS
      <4>2. x < Dots(n)[p + 1]
        BY <3>1, <4>1
      <4>3. Dots(n)[p + 1] + Gap <= Dots(n)[j]
        BY <1>6, <4>1
      <4>. QED BY <1>2, <1>4, <4>1, <4>2, <4>3
    <3>. QED BY <3>1, <3>2, <3>3
  <2>. QED BY <2>1, <2>2
<1>. QED BY <1>3, <1>7

(* Of up to three points one is the nearest.                               *)
LEMMA OneIsNearest ==
    ASSUME NEW i \in Int, NEW C, C \subseteq (i - 1)..(i + 1), C # {},
           NEW far, \A k \in C : far[k] \in Int
    PROVE  \E k \in C : \A j \in C : far[k] <= far[j]
<1>1. \A k \in C : k \in Int /\ (k = i - 1 \/ k = i \/ k = i + 1)
  OBVIOUS
<1>2. ASSUME NEW a \in C, NEW b \in C PROVE \E k \in C : far[k] <= far[a] /\ far[k] <= far[b]
  BY <1>2
<1>3. ASSUME NEW a \in C, NEW b \in C, NEW c \in C
      PROVE  \E k \in C : far[k] <= far[a] /\ far[k] <= far[b] /\ far[k] <= far[c]
  <2>1. PICK k \in C : far[k] <= far[a] /\ far[k] <= far[b]
    BY <1>2
  <2>2. PICK l \in C : far[l] <= far[k] /\ far[l] <= far[c]
    BY <1>2
  <2>. QED BY <2>1, <2>2
<1>4. PICK d \in C : TRUE
  OBVIOUS
<1>5. PICK a \in C : a = IF i - 1 \in C THEN i - 1 ELSE d
  BY <1>4
<1>6. PICK b \in C : b = IF i \in C THEN i ELSE d
  BY <1>4
<1>7. PICK c \in C : c = IF i + 1 \in C THEN i + 1 ELSE d
  BY <1>4
<1>8. \A j \in C : j = a \/ j = b \/ j = c
  BY <1>1, <1>5, <1>6, <1>7
<1>9. PICK k \in C : far[k] <= far[a] /\ far[k] <= far[b] /\ far[k] <= far[c]
  BY <1>3
<1>. QED BY <1>8, <1>9

(* A point next to the mouse and within the radius is found, or one that is
   not further away.                                                        *)
LEMMA PointIsFound ==
    ASSUME NEW n \in Nat \ {0}, NEW x \in 0..(Gap * n), NEW rise \in [1..n -> Rises],
           NEW j \in InReach(n, x, rise)
    PROVE  \E k \in HoverLine(n, x, rise) :
             SquaredDistance(n, x, rise, k) <= SquaredDistance(n, x, rise, j)
<1>. DEFINE C == Candidates(x, Dots(n))
            far == [k \in 1..n |-> SquaredDistance(n, x, rise, k)]
<1>1. /\ j \in 1..n /\ Dots(n)[j] \in (x - Gap)..(x + Gap)
      /\ SquaredDistance(n, x, rise, j) <= Square(Radius)
  BY DEF InReach
<1>2. j \in C /\ C \subseteq 1..n
  BY <1>1, PointsAreLookedAt
<1>3. x \in Int /\ \A k \in 1..n : Dots(n)[k] \in Int /\ rise[k] \in Int
  <2>1. Gap * n \in Int /\ Rises \subseteq Int
    BY ChartAssumption
  <2>2. \A k \in 1..n : rise[k] \in Int
    BY <2>1
  <2>3. Ascending(Dots(n), n)
    BY BarsAscend
  <2>4. \A k \in 1..n : Dots(n)[k] \in Int
    BY <2>3 DEF Ascending
  <2>. QED BY <2>1, <2>2, <2>4
<1>4. Square(Radius) \in Int /\ \A k \in 1..n : far[k] \in Int
  <2>1. \A a \in Int : Square(a) \in Int
    BY DEF Square
  <2>2. ASSUME NEW k \in 1..n PROVE Square(Dots(n)[k] - x) \in Int /\ Square(rise[k]) \in Int
    <3>1. Dots(n)[k] - x \in Int /\ rise[k] \in Int
      BY <1>3
    <3>. QED BY <2>1, <3>1
  <2>3. \A k \in 1..n : SquaredDistance(n, x, rise, k) \in Int
    BY <2>2 DEF SquaredDistance
  <2>. QED BY <2>1, <2>3, ChartAssumption
<1>5. PICK k \in C : \A m \in C : far[k] <= far[m]
  <2>1. PICK i \in Int : C \subseteq (i - 1)..(i + 1)
    <3>1. Ascending(Dots(n), n)
      BY BarsAscend
    <3>2. PICK i \in 1..n : C = ((i - 1)..(i + 1)) \cap 1..n
      BY <1>3, <3>1, CandidatesAre
    <3>3. i \in Int /\ C \subseteq (i - 1)..(i + 1)
      <4>. HIDE DEF C
      <4>. QED BY <3>2
    <3>. HIDE DEF C
    <3>. QED BY <3>3
  <2>2. \A m \in C : far[m] \in Int
    BY <1>2, <1>4
  <2>. HIDE DEF C, far
  <2>. QED BY <1>2, <2>1, <2>2, OneIsNearest
<1>6. far[k] <= far[j] /\ far[j] <= Square(Radius) /\ far[k] \in Int /\ far[j] \in Int
  BY <1>1, <1>2, <1>4, <1>5
<1>7. far[k] <= Square(Radius)
  <2>. HIDE DEF far
  <2>. QED BY <1>4, <1>6
<1>8. k \in HoverLine(n, x, rise)
  <2>1. \A m \in C : SquaredDistance(n, x, rise, k) <= SquaredDistance(n, x, rise, m)
    BY <1>2, <1>5
  <2>2. SquaredDistance(n, x, rise, k) <= Square(Radius)
    BY <1>2, <1>7
  <2>. QED BY <2>1, <2>2 DEF HoverLine
<1>. QED BY <1>2, <1>6, <1>8

LEMMA SearchFinds == SearchIsSound
<1>1. 1..Longest \subseteq Nat \ {0}
  BY ComponentsAssumption
<1>. QED BY <1>1, BarIsFound, PointIsFound DEF SearchIsSound

(***************************************************************************)
(* The data in their order                                                 *)
(***************************************************************************)
Before(key, a, b) == key[a] < key[b] \/ (key[a] = key[b] /\ a < b)
UpTo(D, key, c) == {d \in D : d = c \/ Before(key, d, c)}

LEMMA Order ==
    ASSUME NEW D, D \subseteq Int, NEW key, \A c \in D : key[c] \in Int
    PROVE  /\ \A a, b \in D : a = b \/ Before(key, a, b) \/ Before(key, b, a)
           /\ \A a, b, c \in D : Before(key, a, b) /\ Before(key, b, c) => Before(key, a, c)
           /\ \A a, b \in D : ~(Before(key, a, b) /\ Before(key, b, a)) /\ ~Before(key, a, a)
<1>1. ASSUME NEW a \in D, NEW b \in D PROVE a = b \/ Before(key, a, b) \/ Before(key, b, a)
  <2>1. PICK x \in Int, y \in Int : x = key[a] /\ y = key[b]
    OBVIOUS
  <2>2. a \in Int /\ b \in Int
    OBVIOUS
  <2>. QED BY <2>1, <2>2 DEF Before
<1>2. ASSUME NEW a \in D, NEW b \in D, NEW c \in D, Before(key, a, b), Before(key, b, c)
      PROVE  Before(key, a, c)
  <2>1. PICK x \in Int, y \in Int, z \in Int : x = key[a] /\ y = key[b] /\ z = key[c]
    OBVIOUS
  <2>2. a \in Int /\ b \in Int /\ c \in Int
    OBVIOUS
  <2>. QED BY <1>2, <2>1, <2>2 DEF Before
<1>3. ASSUME NEW a \in D, NEW b \in D
      PROVE  ~(Before(key, a, b) /\ Before(key, b, a)) /\ ~Before(key, a, a)
  <2>1. PICK x \in Int, y \in Int : x = key[a] /\ y = key[b]
    OBVIOUS
  <2>2. a \in Int /\ b \in Int
    OBVIOUS
  <2>. QED BY <2>1, <2>2 DEF Before
<1>. QED BY <1>1, <1>2, <1>3

LEMMA RanksRise ==
    ASSUME NEW D, IsFiniteSet(D), D \subseteq Int, NEW key, \A c \in D : key[c] \in Int
    PROVE  /\ Cardinality(D) \in Nat
           /\ \A c \in D : Cardinality(UpTo(D, key, c)) \in 1..Cardinality(D)
           /\ \A a, b \in D : Before(key, a, b) =>
                Cardinality(UpTo(D, key, a)) < Cardinality(UpTo(D, key, b))
<1>1. ASSUME NEW c \in D
      PROVE  /\ IsFiniteSet(UpTo(D, key, c)) /\ UpTo(D, key, c) \in SUBSET D
             /\ c \in UpTo(D, key, c) /\ Cardinality(UpTo(D, key, c)) \in 1..Cardinality(D)
  <2>1. UpTo(D, key, c) \in SUBSET D /\ c \in UpTo(D, key, c)
    BY DEF UpTo
  <2>2. IsFiniteSet(UpTo(D, key, c)) /\ Cardinality(UpTo(D, key, c)) <= Cardinality(D)
    BY <2>1, FS_Subset
  <2>3. Cardinality(UpTo(D, key, c)) \in Nat /\ Cardinality(D) \in Nat
    BY <2>2, FS_CardinalityType
  <2>4. Cardinality(UpTo(D, key, c)) # 0
    BY <2>1, <2>2, FS_EmptySet
  <2>. QED BY <2>1, <2>2, <2>3, <2>4
<1>2. ASSUME NEW a \in D, NEW b \in D, Before(key, a, b)
      PROVE  Cardinality(UpTo(D, key, a)) < Cardinality(UpTo(D, key, b))
  <2>1. UpTo(D, key, a) \cup {b} \in SUBSET UpTo(D, key, b) /\ b \notin UpTo(D, key, a)
    <3>1. \A d \in D : Before(key, d, a) => Before(key, d, b)
      BY <1>2, Order
    <3>2. ~Before(key, b, a) /\ ~Before(key, a, a)
      BY <1>2, Order
    <3>3. b # a
      BY <1>2, <3>2, Zenon
    <3>. QED BY <1>2, <3>1, <3>2, <3>3, Zenon DEF UpTo
  <2>2. Cardinality(UpTo(D, key, a) \cup {b}) = Cardinality(UpTo(D, key, a)) + 1
    BY <1>1, <2>1, FS_AddElement
  <2>3. Cardinality(UpTo(D, key, a) \cup {b}) <= Cardinality(UpTo(D, key, b))
    BY <1>1, <2>1, FS_Subset
  <2>4. Cardinality(UpTo(D, key, a)) \in Nat /\ Cardinality(UpTo(D, key, b)) \in Nat
    BY <1>1, FS_CardinalityType
  <2>. QED BY <2>2, <2>3, <2>4
<1>3. Cardinality(D) \in Nat
  BY FS_CardinalityType
<1>. QED BY <1>1, <1>2, <1>3

(* A finite set of components has its data in order.                        *)
LEMMA ArrangedIs ==
    ASSUME NEW D, D \subseteq Components, NEW key, \A c \in D : key[c] \in Int
    PROVE  /\ Arranged(D, key) \in Seq(Components) /\ ToSet(Arranged(D, key)) = D
           /\ D = {} => Arranged(D, key) = <<>>
<1>1. IsFiniteSet(D) /\ D \subseteq Int
  BY ComponentsAssumption, FS_Subset
<1>2. PICK n \in Nat : n = Cardinality(D)
  BY <1>1, FS_CardinalityType
<1>. DEFINE rank == [c \in D |-> Cardinality(UpTo(D, key, c))]
            InOrder(q) == \A i, j \in DOMAIN q :
                            i < j => key[q[i]] < key[q[j]] \/ (key[q[i]] = key[q[j]] /\ q[i] < q[j])
<1>3. rank \in [D -> 1..n] /\ \A a, b \in D : Before(key, a, b) => rank[a] < rank[b]
  BY <1>1, <1>2, RanksRise
<1>4. \A a, b \in D : rank[a] = rank[b] => a = b
  <2>. SUFFICES ASSUME NEW a \in D, NEW b \in D, rank[a] = rank[b], a # b PROVE FALSE
    OBVIOUS
  <2>1. Before(key, a, b) \/ Before(key, b, a)
    BY <1>1, Order
  <2>2. rank[a] \in Nat /\ rank[b] \in Nat
    BY <1>3
  <2>. HIDE DEF rank
  <2>. QED BY <1>3, <2>1, <2>2
<1>5. \A i \in 1..n : \E c \in D : rank[c] = i
  <2>. HIDE DEF rank
  <2>1. rank \in Injection(D, 1..n)
    BY <1>3, <1>4 DEF Injection, IsInjective
  <2>2. IsFiniteSet(1..n) /\ Cardinality(1..n) = n
    BY FS_Interval
  <2>3. rank \in Surjection(D, 1..n)
    BY <1>1, <1>2, <2>1, <2>2, FS_Injection
  <2>. QED BY <2>3 DEF Surjection
<1>6. \E q \in [1..n -> D] : InOrder(q)
  <2>. DEFINE q == [i \in 1..n |-> CHOOSE c \in D : rank[c] = i]
  <2>. HIDE DEF rank
  <2>1. \A i \in 1..n : q[i] \in D /\ rank[q[i]] = i
    BY <1>5
  <2>2. q \in [1..n -> D] /\ DOMAIN q = 1..n
    BY <2>1
  <2>. HIDE DEF q
  <2>3. ASSUME NEW i \in 1..n, NEW j \in 1..n, i < j PROVE Before(key, q[i], q[j])
    <3>1. q[i] = q[j] \/ Before(key, q[i], q[j]) \/ Before(key, q[j], q[i])
      BY <1>1, <2>1, Order
    <3>2. Before(key, q[j], q[i]) => j < i
      BY <1>3, <2>1
    <3>. QED BY <2>1, <2>3, <3>1, <3>2
  <2>4. InOrder(q)
    BY <2>2, <2>3 DEF Before
  <2>. HIDE DEF InOrder
  <2>. QED BY <2>2, <2>4
<1>7. PICK q \in [1..n -> D] : q = Arranged(D, key) /\ InOrder(q)
  <2>1. Arranged(D, key) = CHOOSE q \in [1..n -> D] : InOrder(q)
    BY <1>2 DEF Arranged
  <2>. HIDE DEF InOrder
  <2>. QED BY <1>6, <2>1
<1>8. q \in Seq(Components) /\ Len(q) = n /\ DOMAIN q = 1..n
  OBVIOUS
<1>9. ToSet(q) = D
  <2>1. \A i, j \in 1..n : q[i] = q[j] => i = j
    <3>. SUFFICES ASSUME NEW i \in 1..n, NEW j \in 1..n, i < j, q[i] = q[j] PROVE FALSE
      OBVIOUS
    <3>1. Before(key, q[i], q[j]) /\ q[i] \in D /\ q[j] \in D
      BY <1>7, <1>8 DEF Before
    <3>. QED BY <1>1, <3>1, Order
  <2>2. q \in Injection(1..n, D)
    BY <2>1 DEF Injection, IsInjective
  <2>3. Cardinality(1..n) = n /\ IsFiniteSet(1..n)
    BY FS_Interval
  <2>4. q \in Surjection(1..n, D)
    BY <1>1, <1>2, <2>2, <2>3, FS_Injection
  <2>. QED BY <1>8, <2>4 DEF Surjection, ToSet
<1>10. D = {} => q = <<>>
  <2>1. D = {} => n = 0
    BY <1>2, FS_EmptySet
  <2>2. n = 0 => q = <<>>
    BY <1>8
  <2>. QED BY <2>1, <2>2
<1>. HIDE DEF InOrder, rank
<1>. QED BY <1>7, <1>8, <1>9, <1>10

(* One of some numbers is the least, and one the greatest.                  *)
LEMMA Extremes ==
    ASSUME NEW n \in Nat \ {0}, NEW f \in [1..n -> Int]
    PROVE  \E a, b \in 1..n : \A i \in 1..n : f[a] <= f[i] /\ f[i] <= f[b]
<1>. DEFINE T == {k \in 0..n : k > 0 => \E a, b \in 1..n : \A i \in 1..k : f[a] <= f[i] /\ f[i] <= f[b]}
<1>1. 0 \in T
  OBVIOUS
<1>2. ASSUME NEW k \in 1..n, k - 1 \in T PROVE k \in T
  <2>1. CASE k = 1
    <3>1. \A i \in 1..k : f[1] <= f[i] /\ f[i] <= f[1] /\ 1 \in 1..n
      BY <2>1
    <3>. QED BY <3>1
  <2>2. CASE k # 1
    <3>1. PICK a \in 1..n, b \in 1..n : \A i \in 1..(k - 1) : f[a] <= f[i] /\ f[i] <= f[b]
      BY <1>2, <2>2
    <3>2. PICK c \in 1..n : c = IF f[k] < f[a] THEN k ELSE a
      OBVIOUS
    <3>3. PICK d \in 1..n : d = IF f[k] > f[b] THEN k ELSE b
      OBVIOUS
    <3>4. ASSUME NEW i \in 1..k PROVE f[c] <= f[i] /\ f[i] <= f[d]
      <4>1. i = k \/ i \in 1..(k - 1)
        OBVIOUS
      <4>2. f[a] \in Int /\ f[b] \in Int /\ f[k] \in Int /\ f[i] \in Int
        OBVIOUS
      <4>. QED BY <3>1, <3>2, <3>3, <4>1, <4>2
    <3>5. \E x, y \in 1..n : \A i \in 1..k : f[x] <= f[i] /\ f[i] <= f[y]
      <4>. WITNESS c \in 1..n, d \in 1..n
      <4>. QED BY <3>4
    <3>6. k \in 0..n
      OBVIOUS
    <3>. QED BY ONLY <3>5, <3>6
  <2>. QED BY <2>1, <2>2
<1>3. n \in T
  <2>. HIDE DEF T
  <2>1. n \in Nat /\ n \in 0..n
    OBVIOUS
  <2>2. 0..n \subseteq T
    BY <1>1, <1>2, <2>1, Climb
  <2>. QED BY <2>1, <2>2
<1>. QED BY <1>3

(***************************************************************************)
(* The chart and what it depends on                                        *)
(***************************************************************************)
Values == UNION {[D -> Int] : D \in SUBSET Components}

Charts ==
  [metric : Metrics \cup {None}, data : [metric : Metrics \cup {None}, values : Values],
   mapped : SUBSET Metrics, level : Levels, order : Orders,
   selection : (SUBSET Components) \cup {None}, filter : (SUBSET Components) \cup {None},
   place : Places, shown : BOOLEAN, coords : Seq(Components), drawn : BOOLEAN, wide : BOOLEAN,
   resize : BOOLEAN, pos : Places, hint : Components \cup {None}, lit : SUBSET Components,
   timer : BOOLEAN, late : [on : BOOLEAN, coords : Seq(Components)]]

(* The tooltip is of a datum, and a chart taken away has none left.         *)
Sound(t) ==
  /\ t \in Charts /\ t.lit \subseteq DOMAIN t.place /\ t.late.coords = <<>>
  /\ t.hint # None => t.hint \in ToSet(t.coords)

Ready(t) == t.shown /\ ~t.resize => t.wide
Current(t) == t.shown /\ ~t.resize /\ t.drawn => t.coords = Sorted(t, t.pos)

ChartInv == Sound(chart) /\ Ready(chart) /\ Current(chart)

(* What drawing, the tooltip and the mouse leave alone.                     *)
Alike(t, u) ==
  /\ u.metric = t.metric /\ u.data = t.data /\ u.mapped = t.mapped /\ u.level = t.level
  /\ u.order = t.order /\ u.selection = t.selection /\ u.filter = t.filter
  /\ u.place = t.place /\ u.pos = t.pos
  /\ u.shown = t.shown /\ u.wide = t.wide /\ u.resize = t.resize

(* The tooltip stays, or it closes and leaves no mark.                      *)
Tidy(t, u) == u.hint = t.hint \/ (u.hint = None /\ t.hint \notin u.lit)

LEMMA ValuesAre ==
    /\ \A f \in Values : DOMAIN f \in SUBSET Components /\ \A c \in DOMAIN f : f[c] \in Int
    /\ Answers \subseteq Values /\ Places \subseteq Values /\ <<>> \in Values
<1>1. ASSUME NEW f \in Values
      PROVE  DOMAIN f \in SUBSET Components /\ \A c \in DOMAIN f : f[c] \in Int
  <2>1. PICK D \in SUBSET Components : f \in [D -> Int]
    BY DEF Values
  <2>. QED BY <2>1
<1>2. ASSUME NEW f \in Answers \cup Places PROVE f \in Values
  <2>1. PICK D \in SUBSET Components : f \in [D -> Int]
    BY ComponentsAssumption
  <2>. QED BY <2>1 DEF Values
<1>3. <<>> \in Values
  <2>1. <<>> \in [{} -> Int]
    OBVIOUS
  <2>. QED BY <2>1 DEF Values
<1>. QED BY <1>1, <1>2, <1>3

LEMMA KeysAre ==
    ASSUME NEW t \in Charts, NEW pos \in Values
    PROVE  DataSet(t) \in SUBSET Components /\ \A c \in DataSet(t) : Key(t, c, pos) \in Int
<1>1. t.data.values \in Values
  BY DEF Charts
<1>2. \A c \in DataSet(t) : c \in DOMAIN t.data.values
  BY DEF DataSet
<1>3. \A c \in DataSet(t) : c \in Components /\ t.data.values[c] \in Int
  BY <1>1, <1>2, ValuesAre
<1>4. \A c \in DOMAIN pos : pos[c] \in Int
  BY ValuesAre
<1>. QED BY <1>3, <1>4 DEF Key

(* The data as they are drawn are those to be shown, in a sequence.         *)
LEMMA SortedIs ==
    ASSUME NEW t \in Charts, NEW pos \in Values
    PROVE  /\ Sorted(t, pos) \in Seq(Components) /\ ToSet(Sorted(t, pos)) = DataSet(t)
           /\ DataSet(t) = {} => Sorted(t, pos) = <<>>
<1>1. PICK key : key = [c \in DataSet(t) |-> Key(t, c, pos)]
  OBVIOUS
<1>2. DataSet(t) \subseteq Components /\ \A c \in DataSet(t) : key[c] \in Int
  BY <1>1, KeysAre
<1>3. PICK D : D = DataSet(t)
  OBVIOUS
<1>4. Sorted(t, pos) = Arranged(D, key)
  BY <1>1, <1>3 DEF Sorted
<1>5. D \subseteq Components /\ \A c \in D : key[c] \in Int
  BY <1>2, <1>3
<1>. QED BY <1>3, <1>4, <1>5, ArrangedIs

LEMMA SortedSame ==
    ASSUME NEW t, NEW u, Alike(t, u)
    PROVE  Sorted(u, u.pos) = Sorted(t, t.pos) /\ (Drawable(u) <=> Drawable(t))
<1>1. Drawable(u) <=> Drawable(t)
  BY DEF Alike, Drawable
<1>2. \A c : Included(u, c) <=> Included(t, c)
  BY DEF Alike, Included
<1>3. DataSet(u) = DataSet(t)
  BY <1>1, <1>2 DEF Alike, DataSet
<1>4. \A c : Key(u, c, u.pos) = Key(t, c, t.pos)
  BY DEF Alike, Key
<1>. QED BY <1>1, <1>3, <1>4 DEF Sorted

(* Orders but the physical one do not look at the racks.                    *)
LEMMA SortedByValue ==
    ASSUME NEW t \in Charts, t.order # "physical position", NEW pos, NEW place
    PROVE  Sorted(t, pos) = Sorted(t, place)
<1>1. t.order \in {"ascending", "descending"}
  BY DEF Charts, Orders
<1>2. \A c : Key(t, c, pos) = Key(t, c, place)
  BY <1>1 DEF Key
<1>. QED BY <1>2 DEF Sorted

LEMMA TooltipHidden ==
    ASSUME NEW t \in Charts
    PROVE  /\ HideTooltip(t) \in Charts /\ Alike(t, HideTooltip(t))
           /\ HideTooltip(t).coords = t.coords /\ HideTooltip(t).drawn = t.drawn
           /\ HideTooltip(t).late = t.late /\ HideTooltip(t).hint = None
           /\ HideTooltip(t).lit \subseteq t.lit /\ Tidy(t, HideTooltip(t))
<1>1. CASE t.hint = None
  BY <1>1 DEF HideTooltip, Alike, Tidy
<1>2. CASE t.hint # None
  BY <1>2 DEF HideTooltip, Alike, Tidy, Charts
<1>. QED BY <1>1, <1>2

LEMMA TooltipShown ==
    ASSUME NEW t \in Charts, NEW c \in Components
    PROVE  /\ ShowTooltip(t, c) \in Charts /\ Alike(t, ShowTooltip(t, c))
           /\ ShowTooltip(t, c).coords = t.coords /\ ShowTooltip(t, c).drawn = t.drawn
           /\ ShowTooltip(t, c).late = t.late /\ ShowTooltip(t, c).hint = c
           /\ ShowTooltip(t, c).lit \subseteq t.lit \cup DOMAIN t.place
<1>1. ShowTooltip(t, c) = [t EXCEPT !.hint = c, !.lit = t.lit \cup ({c} \cap DOMAIN t.place)]
  BY DEF ShowTooltip
<1>2. ({c} \cap DOMAIN t.place) \in SUBSET Components
  OBVIOUS
<1>3. PICK more \in SUBSET Components : more = {c} \cap DOMAIN t.place
  BY <1>2
<1>. QED BY <1>1, <1>3 DEF Charts, Alike

LEMMA ChartCleared ==
    ASSUME NEW t, Sound(t)
    PROVE  /\ Sound(Clear(t)) /\ Alike(t, Clear(t)) /\ Clear(t).coords = <<>>
           /\ Clear(t).drawn = t.drawn /\ Clear(t).hint = None /\ Tidy(t, Clear(t))
           /\ Clear(t).lit \subseteq t.lit
<1>1. CASE t.coords = <<>>
  <2>1. t.hint = None
    BY <1>1 DEF Sound, ToSet
  <2>. QED BY <1>1, <2>1 DEF Clear, Alike, Tidy
<1>2. CASE t.coords # <<>>
  <2>1. PICK late : late = IF t.timer THEN [on |-> TRUE, coords |-> <<>>] ELSE t.late
    OBVIOUS
  <2>2. late \in [on : BOOLEAN, coords : Seq(Components)] /\ late.coords = <<>> /\ t \in Charts
    BY <2>1 DEF Sound, Charts
  <2>3. PICK w : w = [t EXCEPT !.coords = <<>>, !.timer = FALSE, !.late = late]
    OBVIOUS
  <2>4. /\ w \in Charts /\ Alike(t, w) /\ w.coords = <<>> /\ w.drawn = t.drawn
        /\ w.hint = t.hint /\ w.lit = t.lit /\ w.late = late
    BY <2>2, <2>3 DEF Charts, Alike
  <2>5. Clear(t) = HideTooltip(w)
    BY <1>2, <2>1, <2>3 DEF Clear, Destroy
  <2>6. PICK u : u = HideTooltip(w)
    OBVIOUS
  <2>7. /\ u \in Charts /\ Alike(w, u) /\ u.coords = w.coords /\ u.drawn = w.drawn
        /\ u.late = w.late /\ u.hint = None /\ u.lit \subseteq w.lit /\ Tidy(w, u)
    BY <2>4, <2>6, TooltipHidden
  <2>8. Alike(t, u)
    BY <2>4, <2>7 DEF Alike
  <2>9. Tidy(t, u)
    BY <2>4, <2>7 DEF Tidy
  <2>10. u.place = t.place
    BY <2>8 DEF Alike
  <2>11. Sound(u)
    BY <2>2, <2>4, <2>7, <2>10 DEF Sound
  <2>. QED BY <2>4, <2>5, <2>6, <2>7, <2>8, <2>9, <2>11
<1>. QED BY <1>1, <1>2

LEMMA ChartUpdated ==
    ASSUME NEW t, Sound(t)
    PROVE  /\ Sound(Update(t)) /\ Alike(t, Update(t)) /\ Update(t).hint = None
           /\ Tidy(t, Update(t)) /\ Update(t).lit \subseteq t.lit
           /\ t.wide => Update(t).coords = Sorted(t, t.pos)
<1>1. PICK u : u = Clear(t)
  OBVIOUS
<1>2. /\ Sound(u) /\ Alike(t, u) /\ u.drawn = t.drawn /\ u.hint = None /\ Tidy(t, u)
      /\ u.lit \subseteq t.lit
  BY <1>1, ChartCleared
<1>3. CASE ~u.wide
  <2>1. Update(t) = u /\ ~t.wide
    BY <1>1, <1>2, <1>3 DEF Update, Alike
  <2>. QED BY <1>2, <2>1
<1>4. CASE u.wide
  <2>1. PICK q : q = Sorted(t, t.pos)
    OBVIOUS
  <2>2. u \in Charts /\ u.pos \in Values /\ q = Sorted(u, u.pos)
    BY <1>2, <2>1, ValuesAre, SortedSame DEF Sound, Charts
  <2>3. q \in Seq(Components)
    BY <2>2, SortedIs
  <2>4. PICK w : w = [u EXCEPT !.coords = q, !.drawn = (u.drawn \/ Drawable(u))]
    OBVIOUS
  <2>5. Update(t) = w
    BY <1>1, <1>4, <2>2, <2>4 DEF Update
  <2>6. /\ w \in Charts /\ Alike(u, w) /\ w.coords = q /\ w.hint = u.hint /\ w.lit = u.lit
        /\ w.late = u.late
    BY <2>2, <2>3, <2>4 DEF Charts, Alike
  <2>7. Alike(t, w) /\ w.place = u.place
    BY <1>2, <2>6 DEF Alike
  <2>8. Sound(w)
    BY <1>2, <2>6, <2>7 DEF Sound
  <2>9. Tidy(t, w)
    BY <1>2, <2>6 DEF Tidy
  <2>. QED BY <1>2, <2>1, <2>5, <2>6, <2>7, <2>8, <2>9
<1>. QED BY <1>3, <1>4

(* A write that tells the chart leaves it drawn from what was written.      *)
LEMMA ChartNotified ==
    ASSUME NEW t, Sound(t), Ready(t)
    PROVE  /\ Sound(Notify(t)) /\ Ready(Notify(t)) /\ Current(Notify(t)) /\ Tidy(t, Notify(t))
           /\ Alike(t, Notify(t))
<1>1. CASE ~t.shown
  BY <1>1 DEF Notify, Current, Tidy, Alike
<1>2. CASE t.shown
  <2>1. PICK u : u = Update(t)
    OBVIOUS
  <2>2. Sound(u) /\ Alike(t, u) /\ Tidy(t, u) /\ (t.wide => u.coords = Sorted(t, t.pos))
    BY <2>1, ChartUpdated
  <2>3. Sorted(u, u.pos) = Sorted(t, t.pos)
    BY <2>2, SortedSame
  <2>4. Ready(u) /\ Current(u)
    BY <2>2, <2>3 DEF Ready, Current, Alike
  <2>5. Notify(t) = u
    BY <1>2, <2>1 DEF Notify
  <2>. QED BY <2>2, <2>4, <2>5
<1>. QED BY <1>1, <1>2

(* What the rest of the view writes. *)
Written(t, w) ==
  /\ Sound(w) /\ w.hint = t.hint /\ w.shown = t.shown /\ w.wide = t.wide /\ w.resize = t.resize

LEMMA WriteIsDrawn ==
    ASSUME NEW t, Sound(t), Ready(t), NEW w, Written(t, w), NEW u, u = Notify(w)
    PROVE  Sound(u) /\ Ready(u) /\ Current(u) /\ Tidy(t, u) /\ Alike(w, u)
<1>1. Sound(w) /\ Ready(w) /\ w.hint = t.hint
  BY DEF Written, Ready
<1>2. Sound(u) /\ Ready(u) /\ Current(u) /\ Tidy(w, u) /\ Alike(w, u)
  BY <1>1, ChartNotified
<1>. QED BY <1>1, <1>2 DEF Tidy

Write(t, m, data, mapped, l, o, s, f) ==
  [t EXCEPT !.metric = m, !.data = data, !.mapped = mapped, !.level = l, !.order = o,
            !.selection = s, !.filter = f]
Data == [metric : Metrics \cup {None}, values : Values]
Selections == (SUBSET Components) \cup {None}

LEMMA WriteIsSound ==
    ASSUME NEW t, Sound(t), NEW m \in Metrics \cup {None}, NEW data \in Data,
           NEW mapped \in SUBSET Metrics, NEW l \in Levels, NEW o \in Orders,
           NEW s \in Selections, NEW f \in Selections
    PROVE  Written(t, Write(t, m, data, mapped, l, o, s, f))
<1>1. t \in Charts
  BY DEF Sound
<1>2. PICK w : w = Write(t, m, data, mapped, l, o, s, f)
  OBVIOUS
<1>3. w \in Charts
  BY <1>1, <1>2 DEF Charts, Write, Data, Selections
<1>4. /\ w.hint = t.hint /\ w.shown = t.shown /\ w.wide = t.wide /\ w.resize = t.resize
      /\ w.coords = t.coords /\ w.lit = t.lit /\ w.late = t.late /\ w.place = t.place
  BY <1>1, <1>2 DEF Charts, Write
<1>. QED BY <1>2, <1>3, <1>4 DEF Written, Sound

(* The data that the mouse can be over are data of the chart.               *)
LEMMA HoverStays ==
    ASSUME NEW n \in Nat, NEW x \in Int
    PROVE  HoverBar(n, x) \subseteq 1..n /\ SomePoint(n, x) \subseteq 1..n /\ HoverLabel(n, x) \subseteq 1..n
<1>1. DOMAIN Centres(n) = 1..n /\ DOMAIN Dots(n) = 1..n
  BY DEF Centres, Dots
<1>2. Candidates(x, Centres(n)) \subseteq 1..n /\ Candidates(x, Dots(n)) \subseteq 1..n
  BY <1>1 DEF Candidates
<1>. QED BY <1>2 DEF HoverBar, SomePoint, HoverLine, HoverLabel

(* What a hover does: nothing, close the tooltip, or open it on a datum. *)
Hovered(t, u) ==
  u = t \/ u = HideTooltip(t)
        \/ \E k \in DOMAIN t.coords : u = ShowTooltip(HideTooltip(t), t.coords[k])
                                       \/ u = ShowTooltip(t, t.coords[k])

LEMMA HoverDoes ==
    ASSUME NEW t, Sound(t), NEW x \in Int,
           NEW u \in HoverDatum(t, t.coords, x) \cup HoverLabels(t, t.coords, x)
    PROVE  Hovered(t, u)
<1>1. t.coords \in Seq(Components)
  BY DEF Sound, Charts
<1>2. PICK n \in Nat : n = Len(t.coords) /\ DOMAIN t.coords = 1..n
  BY <1>1
<1>3. HoverBar(n, x) \subseteq 1..n /\ SomePoint(n, x) \subseteq 1..n /\ HoverLabel(n, x) \subseteq 1..n
  BY HoverStays
<1>4. CASE u \in HoverDatum(t, t.coords, x)
  <2>1. PICK over \in SUBSET (1..n) :
          u \in {HideTooltip(t)} \cup {ShowTooltip(HideTooltip(t), t.coords[k]) : k \in over}
    <3>1. PICK over : over = IF n = 0 THEN {} ELSE IF n > BarLimit THEN SomePoint(n, x) ELSE HoverBar(n, x)
      OBVIOUS
    <3>2. u \in {HideTooltip(t)} \cup {ShowTooltip(HideTooltip(t), t.coords[k]) : k \in over}
      BY <1>2, <1>4, <3>1 DEF HoverDatum
    <3>3. over \in SUBSET (1..n)
      BY <1>3, <3>1
    <3>. QED BY <3>2, <3>3
  <2>. QED BY <1>2, <2>1 DEF Hovered
<1>5. CASE u \in HoverLabels(t, t.coords, x)
  BY <1>2, <1>3, <1>5 DEF HoverLabels, Hovered
<1>. QED BY <1>4, <1>5

LEMMA HoverKeeps ==
    ASSUME NEW t, Sound(t), NEW u, Hovered(t, u)
    PROVE  /\ Sound(u) /\ Alike(t, u) /\ u.coords = t.coords /\ u.drawn = t.drawn
           /\ u.hint = None => Tidy(t, u)
<1>1. t \in Charts /\ t.coords \in Seq(Components) /\ None \notin Components
  BY ComponentsAssumption DEF Sound, Charts
<1>2. CASE u = t
  BY <1>2 DEF Alike, Tidy
<1>3. PICK v : v = HideTooltip(t)
  OBVIOUS
<1>4. /\ v \in Charts /\ Alike(t, v) /\ v.coords = t.coords /\ v.drawn = t.drawn
      /\ v.late = t.late /\ v.hint = None /\ v.lit \subseteq t.lit /\ Tidy(t, v)
  BY <1>1, <1>3, TooltipHidden
<1>5. Sound(v)
  BY <1>4 DEF Sound, Alike
<1>6. CASE u = HideTooltip(t)
  BY <1>3, <1>4, <1>5, <1>6
<1>7. ASSUME NEW w, Sound(w), Alike(t, w), w.coords = t.coords, w.drawn = t.drawn,
             NEW k \in DOMAIN t.coords, u = ShowTooltip(w, t.coords[k])
      PROVE  /\ Sound(u) /\ Alike(t, u) /\ u.coords = t.coords /\ u.drawn = t.drawn
             /\ u.hint # None
  <2>1. PICK c \in Components : c = t.coords[k] /\ c \in ToSet(t.coords)
    BY <1>1 DEF ToSet
  <2>2. w \in Charts
    BY <1>7 DEF Sound
  <2>3. /\ u \in Charts /\ Alike(w, u) /\ u.coords = w.coords /\ u.drawn = w.drawn
        /\ u.late = w.late /\ u.hint = c /\ u.lit \subseteq w.lit \cup DOMAIN w.place
    BY <1>7, <2>1, <2>2, TooltipShown
  <2>4. Alike(t, u)
    BY <1>7, <2>3 DEF Alike
  <2>5. Sound(u)
    BY <1>7, <2>1, <2>3 DEF Sound, Alike
  <2>. QED BY <1>1, <1>7, <2>1, <2>3, <2>4, <2>5
<1>8. Alike(t, t)
  BY DEF Alike
<1>. QED BY <1>2, <1>3, <1>4, <1>5, <1>6, <1>7, <1>8 DEF Hovered

(***************************************************************************)
(* The steps                                                               *)
(***************************************************************************)
Kept(t, u) == Sound(u) /\ Ready(u) /\ Current(u) /\ (u.hint = None => Tidy(t, u))

LEMMA DrawnKept ==
    ASSUME NEW t, Sound(t), Ready(t), NEW w, Written(t, w), NEW u, u = Notify(w)
    PROVE  Kept(t, u)
BY WriteIsDrawn DEF Kept

LEMMA WritesKept ==
    ASSUME ChartInv,
           SwitchMetric \/ DisplayMetrics \/ WriteMaps \/ Select \/ Filter \/ SetMetricLevel \/ SetOrder
    PROVE  Kept(chart, chart')
<1>1. PICK t : t = chart
  OBVIOUS
<1>2. Sound(t) /\ Ready(t)
  BY <1>1 DEF ChartInv
<1>3. /\ t.metric \in Metrics \cup {None} /\ t.mapped \in SUBSET Metrics /\ t.level \in Levels
      /\ t.data \in Data
      /\ t.order \in Orders /\ t.selection \in Selections
      /\ t.filter \in Selections /\ t \in Charts
  BY <1>2 DEF Sound, Charts, Data, Selections
<1>4. Blank \in Data /\ None \in Selections
  BY ValuesAre DEF Blank, Data, Selections
<1>5. Picks \subseteq Selections /\ Answers \subseteq Values
  BY ComponentsAssumption, ValuesAre DEF Selections
<1>6. ASSUME NEW m \in Metrics \cup {None},
             NEW data \in Data,
             NEW mapped \in SUBSET Metrics, NEW l \in Levels, NEW o \in Orders,
             NEW s \in Selections, NEW f \in Selections
      PROVE  Kept(t, Notify(Write(t, m, data, mapped, l, o, s, f)))
  <2>1. PICK w : w = Write(t, m, data, mapped, l, o, s, f)
    OBVIOUS
  <2>2. Written(t, w)
    BY <1>2, <2>1, WriteIsSound
  <2>. QED BY <1>2, <2>1, <2>2, DrawnKept
<1>7. CASE SwitchMetric
  <2>1. PICK m \in Metrics \cup {None} :
          chart' = Notify([t EXCEPT !.metric = m, !.data = Blank, !.filter = None,
                                    !.selection = IF m = None THEN None ELSE @])
    BY <1>1, <1>7 DEF SwitchMetric
  <2>2. PICK s \in Selections : s = IF m = None THEN None ELSE t.selection
    BY <1>3 DEF Selections
  <2>3. [t EXCEPT !.metric = m, !.data = Blank, !.filter = None,
                  !.selection = IF m = None THEN None ELSE @]
        = Write(t, m, Blank, t.mapped, t.level, t.order, s, None)
    BY <1>3, <2>2 DEF Charts, Write
  <2>4. Kept(t, Notify(Write(t, m, Blank, t.mapped, t.level, t.order, s, None)))
    BY <1>3, <1>4, <1>6, <2>2
  <2>. QED BY <1>1, <2>1, <2>3, <2>4
<1>8. CASE DisplayMetrics
  <2>1. PICK m \in Metrics, a \in Answers, f \in Picks :
          chart' = Notify([t EXCEPT !.data = [metric |-> m, values |-> a], !.mapped = @ \cup {m},
                                    !.filter = f])
    BY <1>1, <1>8 DEF DisplayMetrics
  <2>2. PICK data \in Data :
          data = [metric |-> m, values |-> a]
    BY <1>5 DEF Data
  <2>3. t.mapped \cup {m} \in SUBSET Metrics /\ f \in Selections
    BY <1>3, <1>5
  <2>4. [t EXCEPT !.data = [metric |-> m, values |-> a], !.mapped = @ \cup {m}, !.filter = f]
        = Write(t, t.metric, data, t.mapped \cup {m}, t.level, t.order, t.selection, f)
    BY <1>3, <2>2 DEF Charts, Write
  <2>5. Kept(t, Notify(Write(t, t.metric, data, t.mapped \cup {m}, t.level, t.order, t.selection, f)))
    BY <1>3, <1>6, <2>3, <2>2
  <2>. QED BY <1>1, <2>1, <2>4, <2>5
<1>9. CASE WriteMaps
  <2>1. PICK maps \in SUBSET Metrics : chart' = Notify([t EXCEPT !.mapped = maps])
    BY <1>1, <1>9 DEF WriteMaps
  <2>2. [t EXCEPT !.mapped = maps]
        = Write(t, t.metric, t.data, maps, t.level, t.order, t.selection, t.filter)
    BY <1>3 DEF Charts, Write
  <2>3. Kept(t, Notify(Write(t, t.metric, t.data, maps, t.level, t.order, t.selection, t.filter)))
    BY <1>3, <1>6
  <2>. QED BY <1>1, <2>1, <2>2, <2>3
<1>10. CASE Select
  <2>1. PICK choice \in Picks : chart' = Notify([t EXCEPT !.selection = choice])
    BY <1>1, <1>10 DEF Select
  <2>2. [t EXCEPT !.selection = choice]
        = Write(t, t.metric, t.data, t.mapped, t.level, t.order, choice, t.filter)
    BY <1>3 DEF Charts, Write
  <2>3. Kept(t, Notify(Write(t, t.metric, t.data, t.mapped, t.level, t.order, choice, t.filter)))
    BY <1>3, <1>5, <1>6
  <2>. QED BY <1>1, <2>1, <2>2, <2>3
<1>11. CASE Filter
  <2>1. PICK choice \in Picks : chart' = Notify([t EXCEPT !.filter = choice])
    BY <1>1, <1>11 DEF Filter
  <2>2. [t EXCEPT !.filter = choice]
        = Write(t, t.metric, t.data, t.mapped, t.level, t.order, t.selection, choice)
    BY <1>3 DEF Charts, Write
  <2>3. Kept(t, Notify(Write(t, t.metric, t.data, t.mapped, t.level, t.order, t.selection, choice)))
    BY <1>3, <1>5, <1>6
  <2>. QED BY <1>1, <2>1, <2>2, <2>3
<1>12. CASE SetMetricLevel
  <2>1. PICK l \in Levels : chart' = Notify([t EXCEPT !.level = l])
    BY <1>1, <1>12 DEF SetMetricLevel
  <2>2. [t EXCEPT !.level = l]
        = Write(t, t.metric, t.data, t.mapped, l, t.order, t.selection, t.filter)
    BY <1>3 DEF Charts, Write
  <2>3. Kept(t, Notify(Write(t, t.metric, t.data, t.mapped, l, t.order, t.selection, t.filter)))
    BY <1>3, <1>6
  <2>. QED BY <1>1, <2>1, <2>2, <2>3
<1>13. CASE SetOrder
  <2>1. PICK o \in Orders : chart' = Notify([t EXCEPT !.order = o])
    BY <1>1, <1>13 DEF SetOrder
  <2>2. [t EXCEPT !.order = o]
        = Write(t, t.metric, t.data, t.mapped, t.level, o, t.selection, t.filter)
    BY <1>3 DEF Charts, Write
  <2>3. Kept(t, Notify(Write(t, t.metric, t.data, t.mapped, t.level, o, t.selection, t.filter)))
    BY <1>3, <1>6
  <2>. QED BY <1>1, <2>1, <2>2, <2>3
<1>. QED BY <1>7, <1>8, <1>9, <1>10, <1>11, <1>12, <1>13

(* A poll rate of zero: no values, no chart.                                *)
LEMMA StopKept ==
    ASSUME ChartInv, StopPolls
    PROVE  Kept(chart, chart')
<1>1. PICK t : t = chart
  OBVIOUS
<1>2. Sound(t) /\ Ready(t) /\ t.metric # None
  BY <1>1 DEF ChartInv, StopPolls
<1>3. /\ t.metric \in Metrics \cup {None} /\ t.mapped \in SUBSET Metrics /\ t.level \in Levels
      /\ t.order \in Orders /\ t.selection \in Selections
      /\ t.filter \in Selections /\ t \in Charts
  BY <1>2 DEF Sound, Charts, Data, Selections
<1>4. Blank \in Data /\ Blank.metric = None
  BY ValuesAre DEF Blank, Data
<1>5. PICK w : w = [t EXCEPT !.data = Blank]
  OBVIOUS
<1>6. w = Write(t, t.metric, Blank, t.mapped, t.level, t.order, t.selection, t.filter)
  BY <1>3, <1>5 DEF Charts, Write
<1>7. Written(t, w)
  BY <1>2, <1>3, <1>4, <1>6, WriteIsSound
<1>8. w.data = Blank /\ w.metric = t.metric
  BY <1>3, <1>5 DEF Charts
<1>9. PICK v : v = Notify(w)
  OBVIOUS
<1>10. Sound(v) /\ Ready(v) /\ Tidy(t, v) /\ Alike(w, v)
  BY <1>2, <1>7, <1>9, WriteIsDrawn
<1>11. PICK u : u = Clear(v)
  OBVIOUS
<1>12. /\ Sound(u) /\ Alike(v, u) /\ u.coords = <<>> /\ u.hint = None /\ Tidy(v, u)
       /\ u.lit \subseteq v.lit
  BY <1>10, <1>11, ChartCleared
<1>13. Ready(u)
  BY <1>10, <1>12 DEF Ready, Alike
<1>14. Current(u)
  <2>1. u.data = Blank /\ u.metric # None
    BY <1>2, <1>8, <1>10, <1>12 DEF Alike
  <2>2. DataSet(u) = {}
    BY <1>4, <2>1 DEF DataSet, Drawable
  <2>3. u \in Charts /\ u.pos \in Values
    BY <1>12, ValuesAre DEF Sound, Charts
  <2>. QED BY <1>12, <2>2, <2>3, SortedIs DEF Current
<1>15. Tidy(t, u)
  BY <1>10, <1>12 DEF Tidy
<1>16. chart' = u
  BY <1>1, <1>5, <1>9, <1>11 DEF StopPolls
<1>. QED BY <1>1, <1>12, <1>13, <1>14, <1>15, <1>16 DEF Kept

(* A live update draws the chart, hidden or not.                            *)
LEMMA UpdateKept ==
    ASSUME ChartInv, UpdateRacks
    PROVE  Kept(chart, chart')
<1>1. PICK t : t = chart
  OBVIOUS
<1>2. Sound(t) /\ Ready(t) /\ t \in Charts
  BY <1>1 DEF ChartInv, Sound
<1>3. PICK place \in Places : chart' = Synchronise(t, place)
  BY <1>1 DEF UpdateRacks
<1>4. PICK s : s = Remaining(t.selection, place)
  OBVIOUS
<1>5. s \in Selections
  <2>1. t.selection \in Selections
    BY <1>2 DEF Charts, Selections
  <2>. QED BY <1>4, <2>1 DEF Remaining, Selections
<1>6. PICK pos : pos = IF t.shown THEN place ELSE t.pos
  OBVIOUS
<1>7. pos \in Places
  BY <1>2, <1>6 DEF Charts
<1>8. PICK w : w = [t EXCEPT !.place = place, !.pos = pos, !.lit = {}, !.selection = s]
  OBVIOUS
<1>9. /\ w \in Charts /\ w.lit = {} /\ w.hint = t.hint /\ w.coords = t.coords /\ w.late = t.late
      /\ w.shown = t.shown /\ w.wide = t.wide /\ w.resize = t.resize
  BY <1>2, <1>5, <1>7, <1>8 DEF Charts, Selections
<1>10. Sound(w)
  BY <1>2, <1>9 DEF Sound
<1>11. PICK u : u = Update(w)
  OBVIOUS
<1>12. /\ Sound(u) /\ Alike(w, u) /\ u.hint = None /\ u.lit \subseteq w.lit
       /\ (w.wide => u.coords = Sorted(w, w.pos))
  BY <1>10, <1>11, ChartUpdated
<1>13. Ready(u)
  BY <1>2, <1>9, <1>12 DEF Ready, Alike
<1>14. Current(u)
  BY <1>12, <1>13, SortedSame DEF Current, Ready, Alike
<1>15. Tidy(t, u)
  BY <1>9, <1>12 DEF Tidy
<1>16. chart' = u
  BY <1>3, <1>4, <1>6, <1>8, <1>11 DEF Synchronise
<1>. QED BY <1>1, <1>12, <1>13, <1>14, <1>15, <1>16 DEF Kept

(* Hiding, showing and laying out.                                          *)
LEMMA LayoutKept ==
    ASSUME ChartInv, ShowChart \/ Resize \/ SetLayout
    PROVE  Kept(chart, chart')
<1>1. PICK t : t = chart
  OBVIOUS
<1>2. Sound(t) /\ Ready(t) /\ t \in Charts
  BY <1>1 DEF ChartInv, Sound
<1>3. ASSUME NEW v, Sound(v), NEW shown \in BOOLEAN, NEW w, w = [v EXCEPT !.shown = shown, !.resize = TRUE]
      PROVE  Sound(w) /\ Ready(w) /\ Current(w) /\ w.hint = v.hint /\ w.lit = v.lit
  <2>1. v \in Charts
    BY <1>3 DEF Sound
  <2>2. /\ w \in Charts /\ w.lit = v.lit /\ w.hint = v.hint /\ w.coords = v.coords
        /\ w.late = v.late /\ w.resize = TRUE /\ w.place = v.place
    BY <1>3, <2>1 DEF Charts
  <2>. QED BY <1>3, <2>2 DEF Sound, Ready, Current
<1>4. CASE Resize
  <2>1. chart' = [t EXCEPT !.resize = TRUE]
    BY <1>1, <1>4 DEF Resize
  <2>2. t.shown \in BOOLEAN /\ [t EXCEPT !.resize = TRUE] = [t EXCEPT !.shown = t.shown, !.resize = TRUE]
    BY <1>2 DEF Charts
  <2>3. PICK w : w = [t EXCEPT !.shown = t.shown, !.resize = TRUE]
    OBVIOUS
  <2>4. Sound(w) /\ Ready(w) /\ Current(w) /\ w.hint = t.hint
    BY <1>2, <1>3, <2>2, <2>3
  <2>5. chart' = w
    BY <2>1, <2>2, <2>3
  <2>. QED BY <1>1, <2>4, <2>5 DEF Kept, Tidy
<1>5. CASE ~chart.shown /\ chart' = [chart EXCEPT !.shown = TRUE, !.resize = TRUE]
  BY <1>1, <1>2, <1>3, <1>5 DEF Kept, Tidy
<1>6. CASE chart.shown /\ chart' = [Clear(chart) EXCEPT !.shown = FALSE, !.resize = TRUE]
  <2>1. PICK v : v = Clear(t)
    OBVIOUS
  <2>2. Sound(v) /\ v.hint = None /\ Tidy(t, v)
    BY <1>2, <2>1, ChartCleared
  <2>3. PICK w : w = [v EXCEPT !.shown = FALSE, !.resize = TRUE]
    OBVIOUS
  <2>4. Sound(w) /\ Ready(w) /\ Current(w) /\ w.hint = v.hint /\ w.lit = v.lit
    BY <1>3, <2>2, <2>3
  <2>5. Tidy(t, w)
    BY <2>2, <2>4 DEF Tidy
  <2>6. chart' = w
    BY <1>1, <1>6, <2>1, <2>3
  <2>. QED BY <1>1, <2>4, <2>5, <2>6 DEF Kept
<1>7. CASE SetLayout
  <2>1. PICK w : w = [t EXCEPT !.wide = t.shown, !.resize = FALSE]
    OBVIOUS
  <2>2. /\ w \in Charts /\ w.lit = t.lit /\ w.hint = t.hint /\ w.coords = t.coords
        /\ w.late = t.late /\ w.place = t.place /\ w.drawn = t.drawn
        /\ w.wide = t.shown /\ w.shown = t.shown
    BY <1>2, <2>1 DEF Charts
  <2>3. Sound(w) /\ Ready(w)
    BY <1>2, <2>2 DEF Sound, Ready
  <2>4. chart' = IF w.drawn THEN Update(w) ELSE w
    BY <1>1, <1>7, <2>1 DEF SetLayout, UpdateLayout
  <2>5. CASE ~w.drawn
    BY <1>1, <2>2, <2>3, <2>4, <2>5 DEF Kept, Tidy, Current
  <2>6. CASE w.drawn
    <3>1. PICK u : u = Update(w)
      OBVIOUS
    <3>2. Sound(u) /\ Alike(w, u) /\ Tidy(w, u) /\ (w.wide => u.coords = Sorted(w, w.pos))
      BY <2>3, <3>1, ChartUpdated
    <3>3. Ready(u)
      BY <2>3, <3>2 DEF Ready, Alike
    <3>4. Current(u)
      BY <3>2, <3>3, SortedSame DEF Current, Ready, Alike
    <3>5. Tidy(t, u)
      BY <2>2, <3>2 DEF Tidy
    <3>. QED BY <1>1, <2>4, <2>6, <3>1, <3>2, <3>3, <3>4, <3>5 DEF Kept
  <2>. QED BY <2>5, <2>6
<1>. QED BY <1>4, <1>5, <1>6, <1>7 DEF ShowChart

(* The mouse and its timers.                                                *)
LEMMA MouseKept ==
    ASSUME ChartInv, MouseMove \/ TestHover \/ LateHover
    PROVE  Kept(chart, chart')
<1>1. PICK t : t = chart
  OBVIOUS
<1>2. Sound(t) /\ Ready(t) /\ Current(t) /\ t \in Charts
  BY <1>1 DEF ChartInv, Sound
<1>3. ASSUME NEW v, Sound(v), Alike(t, v), v.coords = t.coords, v.drawn = t.drawn
      PROVE  Ready(v) /\ Current(v)
  <2>1. Sorted(v, v.pos) = Sorted(t, t.pos)
    BY <1>3, SortedSame
  <2>. QED BY <1>2, <1>3, <2>1 DEF Ready, Current, Alike
<1>4. CASE MouseMove
  <2>1. PICK v : v = [t EXCEPT !.timer = TRUE]
    OBVIOUS
  <2>2. /\ v \in Charts /\ Alike(t, v) /\ v.coords = t.coords /\ v.drawn = t.drawn
        /\ v.lit = t.lit /\ v.hint = t.hint /\ v.late = t.late
    BY <1>2, <2>1 DEF Charts, Alike
  <2>3. Sound(v)
    BY <1>2, <2>2 DEF Sound, Alike
  <2>4. chart' = v
    BY <1>1, <1>4, <2>1 DEF MouseMove
  <2>. QED BY <1>1, <1>3, <2>2, <2>3, <2>4 DEF Kept, Tidy
<1>5. CASE TestHover
  <2>1. PICK v : v = [t EXCEPT !.timer = FALSE]
    OBVIOUS
  <2>2. /\ v \in Charts /\ Alike(t, v) /\ v.coords = t.coords /\ v.drawn = t.drawn
        /\ v.lit = t.lit /\ v.hint = t.hint /\ v.late = t.late
    BY <1>2, <2>1 DEF Charts, Alike
  <2>3. Sound(v)
    BY <1>2, <2>2 DEF Sound, Alike
  <2>4. PICK x \in Int : chart' \in HoverDatum(v, v.coords, x) \cup HoverLabels(v, v.coords, x)
    BY <1>1, <1>5, <2>1, <2>2 DEF TestHover
  <2>5. PICK u : u = chart'
    OBVIOUS
  <2>6. Hovered(v, u)
    BY <2>3, <2>4, <2>5, HoverDoes
  <2>7. /\ Sound(u) /\ Alike(v, u) /\ u.coords = v.coords /\ u.drawn = v.drawn
        /\ u.hint = None => Tidy(v, u)
    BY <2>3, <2>6, HoverKeeps
  <2>8. Alike(t, u)
    BY <2>2, <2>7 DEF Alike
  <2>9. Ready(u) /\ Current(u)
    BY <1>3, <2>2, <2>7, <2>8
  <2>. QED BY <1>1, <2>2, <2>5, <2>7, <2>9 DEF Kept, Tidy
<1>6. CASE LateHover
  <2>1. PICK v : v = [t EXCEPT !.late = NoTimer]
    OBVIOUS
  <2>2. NoTimer \in [on : BOOLEAN, coords : Seq(Components)] /\ NoTimer.coords = <<>>
    BY DEF NoTimer
  <2>3. /\ v \in Charts /\ Alike(t, v) /\ v.coords = t.coords /\ v.drawn = t.drawn
        /\ v.lit = t.lit /\ v.hint = t.hint /\ v.late = NoTimer
    BY <1>2, <2>1, <2>2 DEF Charts, Alike
  <2>4. Sound(v)
    BY <1>2, <2>2, <2>3 DEF Sound, Alike
  <2>5. t.late.coords = <<>>
    BY <1>2 DEF Sound
  <2>6. chart' = v
    BY <1>1, <1>6, <2>1, <2>5 DEF LateHover
  <2>. QED BY <1>1, <1>3, <2>3, <2>4, <2>6 DEF Kept, Tidy
<1>. QED BY <1>4, <1>5, <1>6

LEMMA ChartStep ==
    ASSUME ChartInv, [ChartNext]_chart
    PROVE  ChartInv' /\ (chart'.hint = None => Tidy(chart, chart'))
<1>1. CASE UNCHANGED chart
  BY <1>1 DEF ChartInv, Sound, Ready, Current, Tidy
<1>2. CASE ChartNext
  <2>1. Kept(chart, chart')
    BY <1>2, WritesKept, StopKept, UpdateKept, LayoutKept, MouseKept DEF ChartNext
  <2>. QED BY <2>1 DEF Kept, ChartInv
<1>. QED BY <1>1, <1>2

LEMMA ChartStarts == InitChart => ChartInv
<1>. SUFFICES ASSUME InitChart PROVE ChartInv
  OBVIOUS
<1>1. PICK place \in Places :
        chart = [metric |-> None, data |-> Blank, mapped |-> {}, level |-> CHOOSE l \in Levels : TRUE,
                 order |-> "descending", selection |-> None, filter |-> None, place |-> place,
                 shown |-> TRUE, coords |-> <<>>, drawn |-> FALSE, wide |-> TRUE, resize |-> FALSE,
                 pos |-> place, hint |-> None, lit |-> {}, timer |-> FALSE, late |-> NoTimer]
  BY DEF InitChart
<1>2. PICK l \in Levels : l = CHOOSE x \in Levels : TRUE
  BY ComponentsAssumption
<1>3. NoTimer \in [on : BOOLEAN, coords : Seq(Components)] /\ NoTimer.coords = <<>>
  BY DEF NoTimer
<1>4. Blank \in Data
  BY ValuesAre DEF Blank, Data
<1>5. chart \in Charts
  BY <1>1, <1>2, <1>3, <1>4 DEF Charts, Orders, Data
<1>. QED BY <1>1, <1>3, <1>5 DEF ChartInv, Sound, Ready, Current

(* The axis of a chart holds what it shows. *)
LEMMA AxisIsRight ==
    ASSUME ChartInv
    PROVE  AxisHoldsTheData
<1>. SUFFICES ASSUME chart.coords # <<>>, chart.coords = Sorted(chart, chart.pos)
              PROVE  LET axis == AxisOf(chart)
                         labels == Labels(axis.low, axis.high)
                     IN /\ \A c \in ToSet(chart.coords) :
                             LET v == chart.data.values[c]
                             IN axis.low <= v /\ v <= axis.high /\ (v # 0 => axis.low < v)
                        /\ labels # {}
                        /\ \A a, b \in labels :
                             a < b => (b - a) * Room > (axis.high - axis.low) * Unit
  BY DEF AxisHoldsTheData
<1>1. PICK t : t = chart
  OBVIOUS
<1>2. t \in Charts /\ t.pos \in Values /\ t.data.values \in Values
  BY <1>1, ValuesAre DEF ChartInv, Sound, Charts
<1>3. t.coords \in Seq(Components) /\ ToSet(t.coords) = DataSet(t)
  BY <1>1, <1>2, SortedIs
<1>4. \A c \in ToSet(t.coords) : t.data.values[c] \in Int
  BY <1>2, <1>3, ValuesAre DEF DataSet
<1>5. PICK n \in Nat \ {0} : n = Len(t.coords) /\ DOMAIN t.coords = 1..n
  <2>1. Len(t.coords) \in Nat /\ DOMAIN t.coords = 1..Len(t.coords) /\ Len(t.coords) # 0
    BY <1>1, <1>3
  <2>. QED BY <2>1
<1>6. PICK f : f = [i \in 1..n |-> t.data.values[t.coords[i]]]
  OBVIOUS
<1>7. f \in [1..n -> Int]
  BY <1>4, <1>5, <1>6 DEF ToSet
<1>8. PICK vals : vals = {t.data.values[c] : c \in ToSet(t.coords)}
  OBVIOUS
<1>9. vals = {f[i] : i \in 1..n}
  BY <1>5, <1>6, <1>8 DEF ToSet
<1>10. PICK a \in 1..n, b \in 1..n : \A i \in 1..n : f[a] <= f[i] /\ f[i] <= f[b]
  BY <1>7, Extremes
<1>11. PICK lo \in Int, hi \in Int : lo = Min(vals) /\ hi = Max(vals) /\ lo <= hi
                                     /\ \A v \in vals : v \in Int /\ lo <= v /\ v <= hi
  <2>1. PICK lo \in Int, hi \in Int : lo = f[a] /\ hi = f[b]
    BY <1>7
  <2>2. lo \in vals /\ hi \in vals /\ \A v \in vals : v \in Int /\ lo <= v /\ v <= hi
    BY <1>7, <1>9, <1>10, <2>1
  <2>3. Min(vals) = lo
    <3>1. \A x \in vals : (\A y \in vals : x <= y) => x = lo
      BY <2>2
    <3>2. Min(vals) = CHOOSE x \in vals : \A y \in vals : x <= y
      BY DEF Min
    <3>. QED BY ONLY <2>2, <3>1, <3>2, lo \in Int
  <2>4. Max(vals) = hi
    <3>1. \A x \in vals : (\A y \in vals : x >= y) => x = hi
      BY <2>2
    <3>2. Max(vals) = CHOOSE x \in vals : \A y \in vals : x >= y
      BY DEF Max
    <3>. QED BY ONLY <2>2, <3>1, <3>2, hi \in Int
  <2>. QED BY <2>2, <2>3, <2>4
<1>12. PICK axis : axis = AxisRange(hi, lo)
  OBVIOUS
<1>13. AxisOf(chart) = axis
  BY <1>1, <1>8, <1>11, <1>12 DEF AxisOf
<1>14. /\ Labels(axis.low, axis.high) # {}
       /\ \A x, y \in Labels(axis.low, axis.high) :
            x < y => (y - x) * Room > (axis.high - axis.low) * Unit
  BY <1>11, <1>12, LabelsAre
<1>15. \A v \in Int : lo <= v /\ v <= hi =>
         axis.low <= v /\ v <= axis.high /\ (v # 0 => axis.low < v)
  BY <1>11, <1>12, AxisIs
<1>16. ASSUME NEW c \in ToSet(chart.coords), NEW v, v = chart.data.values[c]
       PROVE  axis.low <= v /\ v <= axis.high /\ (v # 0 => axis.low < v)
  BY <1>1, <1>8, <1>11, <1>15, <1>16
<1>. QED BY <1>13, <1>14, <1>16

LEMMA ChartInvIsSafe == ChartInv => ChartSafety
<1>. SUFFICES ASSUME ChartInv PROVE ChartSafety
  OBVIOUS
<1>1. PICK t : t = chart
  OBVIOUS
<1>2. t \in Charts /\ Sound(t) /\ Current(t)
  BY <1>1 DEF ChartInv, Sound
<1>3. ChartTypeOK
  BY <1>1, <1>2 DEF ChartTypeOK, Sound, Charts, ToSet
<1>4. ChartIsCurrent
  BY <1>1, <1>2, SortedByValue DEF ChartIsCurrent, Current
<1>5. TooltipIsOfABar
  BY <1>1, <1>2 DEF TooltipIsOfABar, Sound
<1>6. HoverFindsTheDatum
  BY SearchFinds DEF HoverFindsTheDatum
<1>7. AxisHoldsTheData
  BY AxisIsRight
<1>. QED BY <1>3, <1>4, <1>5, <1>6, <1>7 DEF ChartSafety

(* Whatever is written, resized or updated, and wherever the mouse is, the
   chart that is laid out shows each value once and in order, on an axis that
   holds it and has labels, and its tooltip is about a datum it shows; a
   search finds the bar under the mouse, and in a line the nearest of the
   points next to it within the radius or one that is not further away,
   however long the chart and high its points (LBC.js, SimpleChart.js). *)
THEOREM ChartIsRight == ChartSpec => []ChartSafety
<1>1. ChartInv /\ [ChartNext]_chart => ChartInv'
  BY ChartStep
<1>. QED BY <1>1, ChartStarts, ChartInvIsSafe, PTL DEF ChartSpec

(* A tooltip that closes, for whatever reason, takes its highlight away
   (hideHint, evHideHint). *)
THEOREM HintsAreTidied == ChartSpec => HintLeavesNoMark
<1>1. ChartInv /\ [ChartNext]_chart => ChartInv'
  BY ChartStep
<1>2. ChartInv /\ [ChartNext]_chart
      => [chart.hint # None /\ chart'.hint = None => chart.hint \notin chart'.lit]_chart
  <2>. SUFFICES ASSUME ChartInv, [ChartNext]_chart, chart.hint # None, chart'.hint = None
                PROVE  chart.hint \notin chart'.lit
    OBVIOUS
  <2>. QED BY ChartStep DEF Tidy
<1>. QED BY <1>1, <1>2, ChartStarts, PTL DEF ChartSpec, HintLeavesNoMark
==============================================================================
