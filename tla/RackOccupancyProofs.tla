------------------------- MODULE RackOccupancyProofs -------------------------
(***************************************************************************)
(* Theorems about RackOccupancy, for every set of racks, devices,          *)
(* templates and threads.                                                  *)
(***************************************************************************)
EXTENDS RackOccupancy, TLAPS, FiniteSetTheorems

(* What a thread holds is known from the step it is at. *)
LEMMA RequestShapes ==
    ASSUME NEW req, req \in Request
    PROVE  /\ req.at \in {"insertDevice", "commitNode"} => req \in CreateRequest
           /\ req.at \in {"writeName", "checkPlace"} => req \in UpdateRequest
           /\ req.at = "writePlace" => req \in MoveRequest
           /\ req.at = "insertRack" => req \in RackRequest
           /\ req.at = "resize" => req \in ResizeRequest
           /\ req.at \in {"loadRack", "deleteRack"} => req \in DestroyRackRequest
           /\ req.at \in {"loadTemplate", "deleteTemplate"} => req \in DestroyTemplateRequest
BY DEF Request, CreateRequest, UpdateRequest, MoveRequest, RackRequest, ResizeRequest,
       DestroyRackRequest, DestroyTemplateRequest

(* A thread that is at a step holds a request. *)
LEMMA AtRequest ==
    ASSUME TypeOK, NEW q \in Requests, NEW step, At(q, step)
    PROVE  requests[q] \in Request /\ requests[q].at = step
BY DEF TypeOK, At

LEMMA ContinueType ==
    ASSUME TypeOK, NEW q \in Requests, NEW req \in Request \cup {Idle}, Continue(q, req)
    PROVE  requests' \in [Requests -> Request \cup {Idle}]
BY DEF TypeOK, Continue

LEMMA FinishType ==
    ASSUME TypeOK, NEW q \in Requests, Finish(q)
    PROVE  requests' \in [Requests -> Request \cup {Idle}]
BY DEF TypeOK, Continue, Finish

LEMMA BroadcastType == \A r : Broadcast(r) \subseteq RackIds
BY DEF Broadcast, LiveRacks

LEMMA LayoutType ==
    ASSUME NEW layout \in Layout
    PROVE  /\ \A n \in Live(layout) : layout[n] \in Row
           /\ \A S : Without(layout, S) \in Layout
BY DEF Layout, Live, Without

LEMMA WrittenType ==
    ASSUME NEW current \in Row, NEW loaded \in Row, NEW to \in Position
    PROVE  /\ Written(current, loaded, to) \in Row
           /\ Written(current, loaded, to).rack = current.rack
           /\ Written(current, loaded, to).template = current.template
           /\ Written(current, loaded, to).name = current.name
BY DEF Written, Row, Position

LEMMA RackTypes ==
    ASSUME TypeOK, NEW q \in Requests, RackStep(q)
    PROVE  TypeOK'
<1> USE HeightAssumption DEF Us
<1>1. ASSUME NEW r \in RackIds, NEW h \in Us, CreateRack(q, r, h) PROVE TypeOK'
  <2>1. [at |-> "insertRack", rack |-> r, height |-> h] \in Request
    BY DEF Request, RackRequest
  <2>. QED BY <1>1, <2>1, ContinueType DEF TypeOK, CreateRack
<1>2. ASSUME NEW r \in RackIds, NEW h \in Us, ResizeRack(q, r, h) PROVE TypeOK'
  <2>1. [at |-> "resize", rack |-> r, loaded |-> height[r], height |-> h] \in Request
    BY <1>2 DEF Request, ResizeRequest, ResizeRack, TypeOK
  <2>. QED BY <1>2, <2>1, ContinueType DEF TypeOK, ResizeRack
<1>3. ASSUME NEW r \in RackIds, NEW recurse \in BOOLEAN, DestroyRack(q, r, recurse)
      PROVE TypeOK'
  <2>1. [at |-> "loadRack", rack |-> r, recurse |-> recurse, doomed |-> {}] \in Request
    BY DEF Request, DestroyRackRequest
  <2>. QED BY <1>3, <2>1, ContinueType DEF TypeOK, DestroyRack
<1>4. CASE InsertRack(q)
  <2>1. requests[q] \in RackRequest
    BY <1>4, AtRequest, RequestShapes DEF InsertRack
  <2>. QED BY <1>4, <2>1, FinishType DEF TypeOK, InsertRack, RackRequest
<1>5. CASE WriteHeight(q)
  <2>1. requests[q] \in ResizeRequest
    BY <1>5, AtRequest, RequestShapes DEF WriteHeight
  <2>. QED BY <1>5, <2>1, FinishType, BroadcastType DEF TypeOK, WriteHeight, ResizeRequest
<1>6. CASE LoadRack(q)
  <2>1. requests[q] \in DestroyRackRequest
    BY <1>6, AtRequest, RequestShapes DEF LoadRack
  <2>2. [requests[q] EXCEPT !.at = "deleteRack", !.doomed = In(node, requests[q].rack)]
          \in DestroyRackRequest
    BY <2>1 DEF DestroyRackRequest, In, Live
  <2>. QED BY <1>6, <2>2, ContinueType DEF TypeOK, LoadRack, Request
<1>7. CASE DeleteRack(q)
  <2>1. requests[q] \in DestroyRackRequest
    BY <1>7, AtRequest, RequestShapes DEF DeleteRack
  <2>. QED BY <1>7, <2>1, FinishType, BroadcastType, LayoutType
       DEF TypeOK, DeleteRack, DestroyRackRequest
<1>. QED BY <1>1, <1>2, <1>3, <1>4, <1>5, <1>6, <1>7 DEF RackStep

LEMMA TemplateTypes ==
    ASSUME TypeOK, NEW q \in Requests, TemplateStep(q)
    PROVE  TypeOK'
<1>1. ASSUME NEW t \in TemplateIds, NEW recurse \in BOOLEAN, DestroyTemplate(q, t, recurse)
      PROVE TypeOK'
  <2>1. [at |-> "loadTemplate", template |-> t, recurse |-> recurse, doomed |-> {}] \in Request
    BY DEF Request, DestroyTemplateRequest
  <2>. QED BY <1>1, <2>1, ContinueType DEF TypeOK, DestroyTemplate
<1>2. CASE LoadTemplate(q)
  <2>1. requests[q] \in DestroyTemplateRequest
    BY <1>2, AtRequest, RequestShapes DEF LoadTemplate
  <2>2. [requests[q] EXCEPT !.at = "deleteTemplate", !.doomed = From(node, requests[q].template)]
          \in DestroyTemplateRequest
    BY <2>1 DEF DestroyTemplateRequest, From, Live
  <2>. QED BY <1>2, <2>2, ContinueType DEF TypeOK, LoadTemplate, Request
<1>3. CASE DeleteTemplate(q)
  <2>1. requests[q] \in DestroyTemplateRequest
    BY <1>3, AtRequest, RequestShapes DEF DeleteTemplate
  <2>. QED BY <1>3, <2>1, FinishType, LayoutType
       DEF TypeOK, DeleteTemplate, DestroyTemplateRequest
<1>. QED BY <1>1, <1>2, <1>3 DEF TemplateStep

LEMMA DeviceTypes ==
    ASSUME TypeOK, NEW q \in Requests, DeviceStep(q)
    PROVE  TypeOK'
<1> USE HeightAssumption DEF Us
<1>1. ASSUME NEW n \in NodeIds, NEW row \in Row, CreateNode(q, n, row) PROVE TypeOK'
  <2>1. height[row.rack] \in Us
    BY <1>1 DEF CreateNode, TypeOK, Row
  <2>2. [at |-> "insertDevice", node |-> n, row |-> row, height |-> height[row.rack]] \in Request
    BY <2>1 DEF Request, CreateRequest
  <2>. QED BY <1>1, <2>2, ContinueType DEF TypeOK, CreateNode
<1>2. CASE InsertDevice(q)
  <2>1. requests[q] \in CreateRequest
    BY <1>2, AtRequest, RequestShapes DEF InsertDevice
  <2>2. [requests[q] EXCEPT !.at = "commitNode"] \in Request
    BY <2>1 DEF Request, CreateRequest
  <2>. QED BY <1>2, <2>2, ContinueType, FinishType DEF TypeOK, InsertDevice
<1>3. CASE CommitNode(q)
  <2>1. requests[q] \in CreateRequest
    BY <1>3, AtRequest, RequestShapes DEF CommitNode
  <2>. QED BY <1>3, <2>1, FinishType DEF TypeOK, CommitNode, CreateRequest, Layout, Row
<1>4. ASSUME NEW n \in NodeIds, NEW nm \in Names, NEW moves \in BOOLEAN, NEW to \in Position,
             UpdateDevice(q, n, nm, moves, to)
      PROVE TypeOK'
  <2> DEFINE step == IF NameIsFree(node, n, node[n].rack, nm) THEN "writeName" ELSE "checkPlace"
             req == [at |-> step, node |-> n, loaded |-> node[n], name |-> nm,
                     moves |-> moves, to |-> to]
  <2>1. node[n] \in Row
    BY <1>4, LayoutType DEF UpdateDevice, TypeOK
  <2>2. step \in {"writeName", "checkPlace"}
    OBVIOUS
  <2>3. req \in Request
    BY <2>1, <2>2 DEF Request, UpdateRequest
  <2>. QED BY <1>4, <2>3, ContinueType DEF TypeOK, UpdateDevice
<1>5. ASSUME NEW n \in NodeIds, NEW to \in Position, MoveChassis(q, n, to) PROVE TypeOK'
  <2>1. node[n] \in Row
    BY <1>5, LayoutType DEF MoveChassis, TypeOK
  <2>2. height[node[n].rack] \in Us
    BY <1>5, <2>1 DEF MoveChassis, LocationIsValid, Placed, EndU, TypeOK, Row, Position
  <2>3. Move(n, node[n], to) \in Request
    BY <2>1, <2>2 DEF Move, Request, MoveRequest
  <2>. QED BY <1>5, <2>3, ContinueType DEF TypeOK, MoveChassis
<1>6. CASE WriteName(q)
  <2>1. requests[q] \in UpdateRequest
    BY <1>6, AtRequest, RequestShapes DEF WriteName
  <2>2. [requests[q] EXCEPT !.at = "checkPlace"] \in Request
    BY <2>1 DEF Request, UpdateRequest
  <2>3. ASSUME node[requests[q].node] # NoNode
        PROVE  [node EXCEPT ![requests[q].node].name = requests[q].name] \in Layout
    BY <2>1, <2>3 DEF TypeOK, Layout, UpdateRequest, Row
  <2>. QED BY <1>6, <2>1, <2>2, <2>3, ContinueType, FinishType
       DEF TypeOK, WriteName, UpdateRequest, Row
<1>7. CASE CheckPlace(q)
  <2>1. requests[q] \in UpdateRequest
    BY <1>7, AtRequest, RequestShapes DEF CheckPlace
  <2> DEFINE req == requests[q]
  <2>2. ASSUME height[req.loaded.rack] # 0
        PROVE  Move(req.node, req.loaded, req.to) \in Request
    BY <2>1, <2>2 DEF Move, Request, MoveRequest, UpdateRequest, TypeOK, Row
  <2>. QED BY <1>7, <2>2, ContinueType, FinishType DEF TypeOK, CheckPlace
<1>8. CASE WritePlace(q)
  <2>1. requests[q] \in MoveRequest
    BY <1>8, AtRequest, RequestShapes DEF WritePlace
  <2> DEFINE req == requests[q]
             row == Written(node[req.node], req.loaded, req.to)
  <2>2. ASSUME node[req.node] # NoNode PROVE row \in Row
    BY <2>1, <2>2, WrittenType DEF TypeOK, Layout, MoveRequest
  <2>3. node' \in Layout
    BY <1>8, <2>1, <2>2 DEF TypeOK, WritePlace, Layout
  <2>4. announced' \subseteq RackIds
    BY <1>8, BroadcastType DEF WritePlace
  <2>. QED BY <1>8, <2>3, <2>4, FinishType DEF TypeOK, WritePlace
<1>. QED BY <1>1, <1>2, <1>3, <1>4, <1>5, <1>6, <1>7, <1>8 DEF DeviceStep

LEMMA NextTypes ==
    ASSUME TypeOK, [Next]_vars
    PROVE  TypeOK'
<1>1. ASSUME NEW q \in Requests, Abort(q) PROVE TypeOK'
  BY <1>1, FinishType DEF Abort, TypeOK
<1>2. ASSUME NEW n \in NodeIds, DestroyDevice(n) PROVE TypeOK'
  BY <1>2 DEF DestroyDevice, TypeOK, Layout, Live, Row
<1>3. ASSUME NEW t \in TemplateIds, CreateTemplate(t) PROVE TypeOK'
  BY <1>3 DEF CreateTemplate, TypeOK
<1>4. CASE UNCHANGED vars
  BY <1>4 DEF vars, TypeOK
<1>. QED BY <1>1, <1>2, <1>3, <1>4, RackTypes, TemplateTypes, DeviceTypes DEF Next

(* Every variable keeps its type: no request, however it is interleaved,   *)
(* writes a row outside the tables, and what a thread holds is always what *)
(* its next step reads.                                                    *)
THEOREM TypeCorrect == Spec => []TypeOK
<1>1. Init => TypeOK
  BY HeightAssumption DEF Init, TypeOK, Layout
<1>. QED BY <1>1, NextTypes, PTL DEF Spec

-----------------------------------------------------------------------------
(***************************************************************************)
(* References.  ReferencesHold is not inductive: a device that is about to *)
(* be committed must find its rack and template still there, which is what *)
(* the share locks of its transaction are for.                             *)
(***************************************************************************)

InsertsRefer ==
    \A q \in Requests : Inserting(q) =>
      height[requests[q].row.rack] # 0 /\ requests[q].row.template \in templates

References == TypeOK /\ ReferencesHold /\ InsertsRefer

(* A thread that inserts has a create request. *)
LEMMA InsertingShape ==
    ASSUME TypeOK, NEW q \in Requests, Inserting(q)
    PROVE  requests[q] \in CreateRequest
BY AtRequest, RequestShapes DEF Inserting

(* A step that leaves every row alone, and takes no rack and no template   *)
(* away, can only break a reference by starting an insertion.              *)
LEMMA ReferencesKept ==
    ASSUME References, TypeOK',
           UNCHANGED node, templates \subseteq templates',
           \A r \in RackIds : height[r] # 0 => height'[r] # 0,
           \A q \in Requests : Inserting(q)' =>
             \/ Inserting(q) /\ requests'[q].row = requests[q].row
             \/ /\ requests'[q].row.rack \in RackIds
                /\ height[requests'[q].row.rack] # 0
                /\ requests'[q].row.template \in templates
    PROVE  References'
<1>1. ReferencesHold'
  <2>1. \A n \in Live(node) : node[n] \in Row
    BY LayoutType DEF References, TypeOK
  <2>. QED BY <2>1 DEF References, ReferencesHold, Live, Row
<1>2. InsertsRefer'
  <2>1. \A q \in Requests : Inserting(q) => requests[q].row.rack \in RackIds
    BY InsertingShape DEF References, CreateRequest, Row
  <2>. QED BY <2>1 DEF References, InsertsRefer
<1>. QED BY <1>1, <1>2 DEF References

(* The same when the thread's own request is the only one that changes,    *)
(* and it inserts nothing.                                                 *)
LEMMA NotInserting ==
    ASSUME TypeOK, NEW q \in Requests, NEW req,
           requests' = [requests EXCEPT ![q] = req],
           req = Idle \/ req.at \notin {"insertDevice", "commitNode"}
    PROVE  \A p \in Requests : Inserting(p)' => Inserting(p) /\ requests'[p] = requests[p]
BY DEF TypeOK, Inserting, At

LEMMA RackReferences ==
    ASSUME References, TypeOK', NEW q \in Requests, RackStep(q)
    PROVE  References'
<1> USE DEF References, Continue, Finish
<1>1. ASSUME NEW r \in RackIds, NEW h \in Us, CreateRack(q, r, h) \/ ResizeRack(q, r, h)
      PROVE References'
  <2>1. \A p \in Requests : Inserting(p)' => Inserting(p) /\ requests'[p] = requests[p]
    BY <1>1, NotInserting DEF CreateRack, ResizeRack
  <2>. QED BY <1>1, <2>1, ReferencesKept DEF CreateRack, ResizeRack
<1>2. ASSUME NEW r \in RackIds, NEW recurse \in BOOLEAN, DestroyRack(q, r, recurse)
      PROVE References'
  <2>1. \A p \in Requests : Inserting(p)' => Inserting(p) /\ requests'[p] = requests[p]
    BY <1>2, NotInserting DEF DestroyRack
  <2>. QED BY <1>2, <2>1, ReferencesKept DEF DestroyRack
<1>3. CASE LoadRack(q)
  <2>1. [requests[q] EXCEPT !.at = "deleteRack", !.doomed = In(node, requests[q].rack)].at
          = "deleteRack"
    BY <1>3, AtRequest, RequestShapes DEF LoadRack, DestroyRackRequest
  <2>2. \A p \in Requests : Inserting(p)' => Inserting(p) /\ requests'[p] = requests[p]
    BY <1>3, <2>1, NotInserting DEF LoadRack
  <2>. QED BY <1>3, <2>2, ReferencesKept DEF LoadRack
<1>4. ASSUME InsertRack(q) \/ WriteHeight(q) PROVE References'
  <2>1. \A p \in Requests : Inserting(p)' => Inserting(p) /\ requests'[p] = requests[p]
    BY <1>4, NotInserting DEF InsertRack, WriteHeight
  <2>2. \A r \in RackIds : height[r] # 0 => height'[r] # 0
    BY <1>4, AtRequest, RequestShapes
       DEF InsertRack, WriteHeight, RackRequest, ResizeRequest, Us, TypeOK
  <2>3. UNCHANGED <<templates, node>>
    BY <1>4 DEF InsertRack, WriteHeight
  <2>. QED BY <2>1, <2>2, <2>3, ReferencesKept
<1>5. CASE DeleteRack(q)
  <2> DEFINE r == requests[q].rack
  <2>1. r \in RackIds
    BY <1>5, AtRequest, RequestShapes DEF DeleteRack, DestroyRackRequest
  <2>2. \A p \in Requests : Inserting(p)' => Inserting(p) /\ requests'[p] = requests[p]
    BY <1>5, NotInserting DEF DeleteRack
  <2>3. CASE UNCHANGED <<height, node>>
    BY <1>5, <2>2, <2>3, ReferencesKept DEF DeleteRack
  <2>4. CASE /\ In(node, r) \subseteq requests[q].doomed
             /\ node' = Without(node, requests[q].doomed)
             /\ height' = [height EXCEPT ![r] = 0]
    <3>1. \A n \in Live(node') : n \in Live(node) /\ node'[n] = node[n] /\ node[n].rack # r
      BY <2>4 DEF Without, Live, In
    <3>2. ReferencesHold'
      BY <1>5, <2>1, <2>4, <3>1, LayoutType DEF ReferencesHold, DeleteRack, TypeOK, Row
    <3>3. \A p \in Requests : Inserting(p) => requests[p].row.rack \in RackIds \ {r}
      BY <1>5, InsertingShape DEF DeleteRack, RackIsReferenced, CreateRequest, Row
    <3>4. InsertsRefer'
      BY <1>5, <2>1, <2>2, <2>4, <3>3 DEF InsertsRefer, DeleteRack, TypeOK
    <3>. QED BY <3>2, <3>4
  <2>. QED BY <1>5, <2>3, <2>4 DEF DeleteRack
<1>. QED BY <1>1, <1>2, <1>3, <1>4, <1>5 DEF RackStep

LEMMA TemplateReferences ==
    ASSUME References, TypeOK', NEW q \in Requests, TemplateStep(q)
    PROVE  References'
<1> USE DEF References, Continue, Finish
<1>1. ASSUME NEW t \in TemplateIds, NEW recurse \in BOOLEAN, DestroyTemplate(q, t, recurse)
      PROVE References'
  <2>1. \A p \in Requests : Inserting(p)' => Inserting(p) /\ requests'[p] = requests[p]
    BY <1>1, NotInserting DEF DestroyTemplate
  <2>. QED BY <1>1, <2>1, ReferencesKept DEF DestroyTemplate
<1>2. CASE LoadTemplate(q)
  <2>1. [requests[q] EXCEPT !.at = "deleteTemplate",
                            !.doomed = From(node, requests[q].template)].at = "deleteTemplate"
    BY <1>2, AtRequest, RequestShapes DEF LoadTemplate, DestroyTemplateRequest
  <2>2. \A p \in Requests : Inserting(p)' => Inserting(p) /\ requests'[p] = requests[p]
    BY <1>2, <2>1, NotInserting DEF LoadTemplate
  <2>. QED BY <1>2, <2>2, ReferencesKept DEF LoadTemplate
<1>3. CASE DeleteTemplate(q)
  <2> DEFINE t == requests[q].template
  <2>1. \A p \in Requests : Inserting(p)' => Inserting(p) /\ requests'[p] = requests[p]
    BY <1>3, NotInserting DEF DeleteTemplate
  <2>2. CASE UNCHANGED <<templates, node>>
    BY <1>3, <2>1, <2>2, ReferencesKept DEF DeleteTemplate
  <2>3. CASE /\ From(node, t) \subseteq requests[q].doomed
             /\ node' = Without(node, requests[q].doomed)
             /\ templates' = templates \ {t}
    <3>1. \A n \in Live(node') : n \in Live(node) /\ node'[n] = node[n] /\ node[n].template # t
      BY <2>3 DEF Without, Live, From
    <3>2. ReferencesHold'
      BY <1>3, <2>3, <3>1 DEF ReferencesHold, DeleteTemplate
    <3>3. \A p \in Requests : Inserting(p) => requests[p].row.template # t
      BY <1>3 DEF DeleteTemplate, TemplateIsReferenced
    <3>4. InsertsRefer'
      BY <1>3, <2>1, <2>3, <3>3 DEF InsertsRefer, DeleteTemplate
    <3>. QED BY <3>2, <3>4
  <2>. QED BY <1>3, <2>2, <2>3 DEF DeleteTemplate
<1>. QED BY <1>1, <1>2, <1>3 DEF TemplateStep

LEMMA DeviceReferences ==
    ASSUME References, TypeOK', NEW q \in Requests, DeviceStep(q)
    PROVE  References'
<1> USE DEF References, Continue, Finish
<1>1. ASSUME NEW n \in NodeIds, NEW row \in Row, CreateNode(q, n, row) PROVE References'
  <2> DEFINE req == [at |-> "insertDevice", node |-> n, row |-> row, height |-> height[row.rack]]
  <2>1. requests' = [requests EXCEPT ![q] = req]
    BY <1>1 DEF CreateNode
  <2>2. req.row = row
    OBVIOUS
  <2>3. requests'[q].row = row
    BY <2>1, <2>2 DEF TypeOK
  <2>4. row.rack \in RackIds /\ height[row.rack] # 0 /\ row.template \in templates
    BY <1>1 DEF CreateNode, Row
  <2>5. ASSUME NEW p \in Requests \ {q} PROVE requests'[p] = requests[p]
    BY <2>1 DEF TypeOK
  <2>6. \A p \in Requests : Inserting(p)' => p = q \/ (Inserting(p) /\ requests'[p] = requests[p])
    BY <2>5 DEF Inserting, At
  <2>. QED BY <1>1, <2>3, <2>4, <2>6, ReferencesKept DEF CreateNode
<1>2. CASE InsertDevice(q)
  <2>1. requests[q] \in CreateRequest
    BY <1>2, AtRequest, RequestShapes DEF InsertDevice
  <2>2. [requests[q] EXCEPT !.at = "commitNode"].row = requests[q].row
    BY <2>1 DEF CreateRequest
  <2>3. requests'[q] = Idle \/ requests'[q].row = requests[q].row
    BY <1>2, <2>2 DEF InsertDevice, TypeOK
  <2>4. \A p \in Requests \ {q} : requests'[p] = requests[p]
    BY <1>2 DEF InsertDevice, TypeOK
  <2>5. \A p \in Requests : Inserting(p)' => Inserting(p) /\ requests'[p].row = requests[p].row
    BY <1>2, <2>3, <2>4 DEF InsertDevice, Inserting, At
  <2>. QED BY <1>2, <2>5, ReferencesKept DEF InsertDevice
<1>3. CASE CommitNode(q)
  <2> DEFINE req == requests[q]
  <2>1. req \in CreateRequest
    BY <1>3, AtRequest, RequestShapes DEF CommitNode
  <2>2. height[req.row.rack] # 0 /\ req.row.template \in templates
    BY <1>3 DEF CommitNode, InsertsRefer, Inserting
  <2>3. ReferencesHold'
    BY <1>3, <2>1, <2>2 DEF CommitNode, ReferencesHold, Live, TypeOK, Layout, CreateRequest
  <2>4. \A p \in Requests : Inserting(p)' => Inserting(p) /\ requests'[p] = requests[p]
    BY <1>3, NotInserting DEF CommitNode
  <2>5. InsertsRefer'
    BY <1>3, <2>4 DEF InsertsRefer, CommitNode
  <2>. QED BY <2>3, <2>5
<1>4. ASSUME NEW n \in NodeIds, NEW nm \in Names, NEW moves \in BOOLEAN, NEW to \in Position,
             UpdateDevice(q, n, nm, moves, to)
      PROVE References'
  <2> DEFINE step == IF NameIsFree(node, n, node[n].rack, nm) THEN "writeName" ELSE "checkPlace"
             req == [at |-> step, node |-> n, loaded |-> node[n], name |-> nm,
                     moves |-> moves, to |-> to]
  <2>1. req.at \notin {"insertDevice", "commitNode"}
    OBVIOUS
  <2>2. requests' = [requests EXCEPT ![q] = req]
    BY <1>4 DEF UpdateDevice
  <2>3. \A p \in Requests : Inserting(p)' => Inserting(p) /\ requests'[p] = requests[p]
    BY <2>1, <2>2, NotInserting
  <2>. QED BY <1>4, <2>3, ReferencesKept DEF UpdateDevice
<1>5. ASSUME NEW n \in NodeIds, NEW to \in Position, MoveChassis(q, n, to) PROVE References'
  <2>1. \A p \in Requests : Inserting(p)' => Inserting(p) /\ requests'[p] = requests[p]
    BY <1>5, NotInserting DEF MoveChassis, Move
  <2>. QED BY <1>5, <2>1, ReferencesKept DEF MoveChassis
<1>6. CASE WriteName(q)
  <2>1. requests[q] \in UpdateRequest
    BY <1>6, AtRequest, RequestShapes DEF WriteName
  <2>2. [requests[q] EXCEPT !.at = "checkPlace"].at = "checkPlace"
    BY <2>1 DEF UpdateRequest
  <2>3. \A p \in Requests : Inserting(p)' => Inserting(p) /\ requests'[p] = requests[p]
    BY <1>6, <2>2, NotInserting DEF WriteName
  <2>4. \A n \in Live(node') :
          n \in Live(node) /\ node'[n].rack = node[n].rack /\ node'[n].template = node[n].template
    BY <1>6, <2>1, LayoutType DEF WriteName, TypeOK, Layout, Live, Row, UpdateRequest
  <2>5. ReferencesHold'
    BY <1>6, <2>4 DEF ReferencesHold, WriteName
  <2>6. InsertsRefer'
    BY <1>6, <2>3 DEF InsertsRefer, WriteName
  <2>. QED BY <2>5, <2>6
<1>7. CASE CheckPlace(q)
  <2>1. \A p \in Requests : Inserting(p)' => Inserting(p) /\ requests'[p] = requests[p]
    BY <1>7, NotInserting DEF CheckPlace, Move
  <2>. QED BY <1>7, <2>1, ReferencesKept DEF CheckPlace
<1>8. CASE WritePlace(q)
  <2>1. requests[q] \in MoveRequest
    BY <1>8, AtRequest, RequestShapes DEF WritePlace
  <2>2. \A p \in Requests : Inserting(p)' => Inserting(p) /\ requests'[p] = requests[p]
    BY <1>8, NotInserting DEF WritePlace
  <2>3. \A n \in Live(node') :
          n \in Live(node) /\ node'[n].rack = node[n].rack /\ node'[n].template = node[n].template
    <3> DEFINE n == requests[q].node
               row == Written(node[n], requests[q].loaded, requests[q].to)
    <3>1. node \in [NodeIds -> Row \cup {NoNode}] /\ n \in NodeIds
      BY <2>1 DEF TypeOK, Layout, MoveRequest
    <3>2. n \in Live(node) => row.rack = node[n].rack /\ row.template = node[n].template
      BY <2>1, LayoutType, WrittenType DEF MoveRequest, TypeOK
    <3>3. \/ node' = node
          \/ node[n] # NoNode /\ node' = [node EXCEPT ![n] = row]
      BY <1>8, ZenonT(30) DEF WritePlace
    <3>. HIDE DEF row
    <3>. QED BY <3>1, <3>2, <3>3 DEF Live
  <2>4. ReferencesHold'
    BY <1>8, <2>3 DEF ReferencesHold, WritePlace
  <2>5. InsertsRefer'
    BY <1>8, <2>2 DEF InsertsRefer, WritePlace
  <2>. QED BY <2>4, <2>5
<1>. QED BY <1>1, <1>2, <1>3, <1>4, <1>5, <1>6, <1>7, <1>8 DEF DeviceStep

LEMMA NextReferences ==
    ASSUME References, TypeOK', [Next]_vars
    PROVE  References'
<1> USE DEF References
<1>1. ASSUME NEW q \in Requests, Abort(q) PROVE References'
  <2>1. \A p \in Requests : Inserting(p)' => Inserting(p) /\ requests'[p] = requests[p]
    BY <1>1, NotInserting DEF Abort, Finish, Continue
  <2>. QED BY <1>1, <2>1, ReferencesKept DEF Abort
<1>2. ASSUME NEW n \in NodeIds, DestroyDevice(n) PROVE References'
  <2>1. \A m \in Live(node') : m \in Live(node) /\ node'[m] = node[m]
    BY <1>2 DEF DestroyDevice, Live, TypeOK, Layout
  <2>2. ReferencesHold'
    BY <1>2, <2>1 DEF DestroyDevice, ReferencesHold
  <2>3. InsertsRefer'
    BY <1>2 DEF DestroyDevice, InsertsRefer, Inserting, At
  <2>. QED BY <2>2, <2>3
<1>3. ASSUME NEW t \in TemplateIds, CreateTemplate(t) PROVE References'
  BY <1>3, ReferencesKept DEF CreateTemplate, Inserting, At
<1>4. CASE UNCHANGED vars
  BY <1>4, ReferencesKept DEF vars, Inserting, At
<1>. QED BY <1>1, <1>2, <1>3, <1>4, RackReferences, TemplateReferences, DeviceReferences DEF Next

(* However requests interleave, no device outlives its rack or its         *)
(* template: the deletions of racks and templates that load their devices  *)
(* and delete them later (dependent: :destroy) leave none behind.          *)
THEOREM ReferencesCorrect == Spec => []ReferencesHold
<1>1. Init => References
  BY HeightAssumption
     DEF Init, References, TypeOK, Layout, ReferencesHold, InsertsRefer, Inserting, At, Live
<1>2. References /\ [Next]_vars => References'
  BY NextTypes, NextReferences DEF References
<1>3. References => ReferencesHold
  BY DEF References
<1>. QED BY <1>1, <1>2, <1>3, PTL DEF Spec

-----------------------------------------------------------------------------
(***************************************************************************)
(* Announcements.  A thread broadcasts the rack it has loaded, while the   *)
(* row that it writes is the committed one: the two are of the same rack   *)
(* because an identifier is not handed out again as long as a thread holds *)
(* it, and no request takes a device to another rack.                      *)
(***************************************************************************)

Updating(q) == At(q, "writeName") \/ At(q, "checkPlace") \/ At(q, "writePlace")

(* Nobody else knows the device that a thread is about to commit. *)
NewAlone ==
    \A p \in Requests : Inserting(p) =>
      /\ node[requests[p].node] = NoNode
      /\ \A q \in Requests \ {p} :
           /\ Inserting(q) \/ Updating(q) => requests[q].node # requests[p].node
           /\ At(q, "deleteRack") => requests[p].node \notin requests[q].doomed

(* The rows a thread has loaded are still in the rack they were in. *)
HeldRacks ==
    \A q \in Requests :
      /\ Updating(q) =>
           (node[requests[q].node] # NoNode
              => node[requests[q].node].rack = requests[q].loaded.rack)
      /\ At(q, "deleteRack") =>
           \A n \in requests[q].doomed : node[n] # NoNode => node[n].rack = requests[q].rack

Announcing == References /\ NewAlone /\ HeldRacks

(* What the steps of the requests about a device, and those of the removal *)
(* of a rack, hold.                                                        *)
LEMMA HeldShapes ==
    ASSUME TypeOK, NEW q \in Requests
    PROVE  /\ Inserting(q) => requests[q] \in CreateRequest
           /\ Updating(q) => requests[q] \in UpdateRequest \cup MoveRequest
           /\ At(q, "deleteRack") => requests[q] \in DestroyRackRequest
<1>1. Inserting(q) => requests[q] \in CreateRequest
  BY InsertingShape
<1>2. Updating(q) => requests[q] \in UpdateRequest \cup MoveRequest
  BY AtRequest, RequestShapes DEF Updating
<1>3. At(q, "deleteRack") => requests[q] \in DestroyRackRequest
  BY AtRequest, RequestShapes
<1>. QED BY <1>1, <1>2, <1>3

(* An identifier that is handed out is one that no thread holds. *)
LEMMA FreshIsUnheld ==
    ASSUME TypeOK, NEW n \in NodeIds, FreshNode(n), NEW q \in Requests
    PROVE  /\ Inserting(q) \/ Updating(q) => requests[q].node # n
           /\ At(q, "deleteRack") => n \notin requests[q].doomed
<1>1. CASE Inserting(q) \/ Updating(q)
  <2>1. requests[q] \in CreateRequest \cup UpdateRequest \cup MoveRequest /\ requests[q] # Idle
    BY <1>1, HeldShapes DEF Inserting, Updating, At
  <2>2. "node" \in DOMAIN requests[q]
    BY <2>1 DEF CreateRequest, UpdateRequest, MoveRequest
  <2>3. requests[q].node # n
    BY <2>1, <2>2 DEF FreshNode
  <2>4. ~At(q, "deleteRack")
    BY <1>1 DEF Inserting, Updating, At
  <2>. QED BY <2>3, <2>4
<1>2. CASE At(q, "deleteRack")
  <2>1. requests[q] \in DestroyRackRequest /\ requests[q] # Idle
    BY <1>2, HeldShapes DEF At
  <2>2. "doomed" \in DOMAIN requests[q]
    BY <2>1 DEF DestroyRackRequest
  <2>3. n \notin requests[q].doomed
    BY <2>1, <2>2 DEF FreshNode
  <2>4. ~Inserting(q) /\ ~Updating(q)
    BY <1>2 DEF Inserting, Updating, At
  <2>. QED BY <2>3, <2>4
<1>. QED BY <1>1, <1>2

(* The requests that a thread may go on with. *)
Passive(req) ==
    req = Idle \/ req.at \notin {"insertDevice", "commitNode", "writeName", "checkPlace",
                                 "writePlace", "deleteRack"}
SameDevice(q, req) ==
    \/ Inserting(q) /\ req.at = "commitNode" /\ req.node = requests[q].node
    \/ /\ Updating(q) /\ req.at \in {"checkPlace", "writePlace"}
       /\ req.node = requests[q].node /\ req.loaded = requests[q].loaded
Loaded(req) ==
    \/ /\ req.at \in {"writeName", "checkPlace", "writePlace"}
       /\ req.node \in Live(node) /\ req.loaded = node[req.node]
    \/ req.at = "deleteRack" /\ req.doomed \subseteq In(node, req.rack)

(* A step of thread q that takes no device to another rack and adds none. *)
LEMMA HeldKept ==
    ASSUME Announcing, TypeOK', NEW q \in Requests, NEW req, Continue(q, req),
           \A n \in NodeIds : node'[n] # NoNode =>
             node[n] # NoNode /\ node'[n].rack = node[n].rack,
           \/ Passive(req)
           \/ req # Idle /\ SameDevice(q, req)
           \/ req # Idle /\ Loaded(req)
    PROVE  NewAlone' /\ HeldRacks'
<1> USE DEF Announcing, References
<1>1. /\ requests'[q] = req
      /\ \A p \in Requests \ {q} : requests'[p] = requests[p]
  BY DEF Continue, TypeOK
<1>2. \A p \in Requests \ {q} : \A s : At(p, s)' <=> At(p, s)
  BY <1>1 DEF At
<1>3. \A s : At(q, s)' <=> req # Idle /\ req.at = s
  BY <1>1 DEF At
<1>4. \A p \in Requests :
        /\ Inserting(p) \/ Updating(p) => requests[p].node \in NodeIds
        /\ At(p, "deleteRack") => requests[p].doomed \subseteq NodeIds
  BY HeldShapes DEF CreateRequest, UpdateRequest, MoveRequest, DestroyRackRequest
<1>5. NewAlone'
  <2>1. \A p \in Requests : Inserting(p)' =>
          Inserting(p) /\ requests'[p].node = requests[p].node
    BY <1>1, <1>2, <1>3 DEF Inserting, Passive, SameDevice, Loaded
  <2>2. ASSUME NEW p \in Requests, Inserting(p)', NEW o \in Requests \ {p}
        PROVE  /\ Inserting(o)' \/ Updating(o)' => requests'[o].node # requests'[p].node
               /\ At(o, "deleteRack")' => requests'[p].node \notin requests'[o].doomed
    <3>1. CASE o # q
      BY <1>1, <1>2, <2>1, <2>2, <3>1 DEF NewAlone, Inserting, Updating
    <3>2. CASE o = q /\ Passive(req)
      BY <1>3, <3>2 DEF Passive, Inserting, Updating
    <3>3. CASE o = q /\ req # Idle /\ SameDevice(q, req)
      BY <1>1, <1>3, <2>1, <2>2, <3>3 DEF NewAlone, SameDevice, Inserting, Updating
    <3>4. CASE o = q /\ req # Idle /\ Loaded(req)
      BY <1>1, <1>3, <2>1, <2>2, <3>4 DEF NewAlone, Loaded, Inserting, Updating, Live, In
    <3>. QED BY <3>1, <3>2, <3>3, <3>4
  <2>3. \A p \in Requests : Inserting(p)' => node'[requests'[p].node] = NoNode
    BY <1>4, <2>1 DEF NewAlone
  <2>. QED BY <2>2, <2>3 DEF NewAlone
<1>6. HeldRacks'
  <2>1. ASSUME NEW p \in Requests \ {q}
        PROVE  /\ Updating(p)' => (node'[requests'[p].node] # NoNode
                    => node'[requests'[p].node].rack = requests'[p].loaded.rack)
               /\ At(p, "deleteRack")' =>
                    \A n \in requests'[p].doomed :
                      node'[n] # NoNode => node'[n].rack = requests'[p].rack
    BY <1>1, <1>2, <1>4 DEF HeldRacks, Updating
  <2>2. /\ Updating(q)' => (req.node \in NodeIds /\ (node'[req.node] # NoNode
               => node'[req.node].rack = req.loaded.rack))
        /\ At(q, "deleteRack")' =>
             \A n \in req.doomed : node'[n] # NoNode => node'[n].rack = req.rack
    <3>1. CASE Passive(req)
      BY <1>3, <3>1 DEF Passive, Updating
    <3>2. CASE req # Idle /\ SameDevice(q, req)
      BY <1>3, <1>4, <3>2 DEF HeldRacks, SameDevice, Updating
    <3>3. CASE req # Idle /\ Loaded(req)
      BY <1>3, <3>3 DEF Loaded, Updating, Live, In
    <3>. QED BY <3>1, <3>2, <3>3
  <2>. QED BY <1>1, <2>1, <2>2 DEF HeldRacks
<1>. QED BY <1>5, <1>6

LEMMA RackHeld ==
    ASSUME Announcing, TypeOK', NEW q \in Requests, RackStep(q)
    PROVE  NewAlone' /\ HeldRacks'
<1> USE DEF Finish, Passive
<1>1. ASSUME NEW r \in RackIds, NEW h \in Us, CreateRack(q, r, h) \/ ResizeRack(q, r, h)
      PROVE  NewAlone' /\ HeldRacks'
  BY <1>1, HeldKept DEF CreateRack, ResizeRack
<1>2. ASSUME NEW r \in RackIds, NEW recurse \in BOOLEAN, DestroyRack(q, r, recurse)
      PROVE  NewAlone' /\ HeldRacks'
  BY <1>2, HeldKept DEF DestroyRack
<1>3. CASE InsertRack(q) \/ WriteHeight(q)
  BY <1>3, HeldKept DEF InsertRack, WriteHeight
<1>4. CASE LoadRack(q)
  <2> DEFINE req == [requests[q] EXCEPT !.at = "deleteRack",
                                        !.doomed = In(node, requests[q].rack)]
  <2>1. requests[q] \in DestroyRackRequest
    BY <1>4, AtRequest, RequestShapes DEF LoadRack, Announcing, References
  <2>2. req.at = "deleteRack" /\ req.doomed = In(node, requests[q].rack)
          /\ req.rack = requests[q].rack
    BY <2>1 DEF DestroyRackRequest
  <2>3. Loaded(req) /\ req # Idle
    <3>1. req \in Request
      BY <2>1 DEF Request, DestroyRackRequest, In, Live
    <3>. QED BY <2>2, <3>1, IdleAssumption DEF Loaded
  <2>. HIDE DEF req
  <2>. QED BY <1>4, <2>3, HeldKept DEF LoadRack, req
<1>5. CASE DeleteRack(q)
  <2>1. \A n \in NodeIds : node'[n] # NoNode => node[n] # NoNode /\ node'[n].rack = node[n].rack
    BY <1>5 DEF DeleteRack, Without
  <2>. QED BY <1>5, <2>1, HeldKept DEF DeleteRack
<1>. QED BY <1>1, <1>2, <1>3, <1>4, <1>5 DEF RackStep

LEMMA TemplateHeld ==
    ASSUME Announcing, TypeOK', NEW q \in Requests, TemplateStep(q)
    PROVE  NewAlone' /\ HeldRacks'
<1> USE DEF Finish, Passive
<1>1. ASSUME NEW t \in TemplateIds, NEW recurse \in BOOLEAN, DestroyTemplate(q, t, recurse)
      PROVE  NewAlone' /\ HeldRacks'
  BY <1>1, HeldKept DEF DestroyTemplate
<1>2. CASE LoadTemplate(q)
  <2> DEFINE req == [requests[q] EXCEPT !.at = "deleteTemplate",
                                        !.doomed = From(node, requests[q].template)]
  <2>1. req.at = "deleteTemplate"
    BY <1>2, AtRequest, RequestShapes
       DEF LoadTemplate, Announcing, References, DestroyTemplateRequest
  <2>2. Passive(req)
    BY <2>1
  <2>. HIDE DEF req
  <2>. QED BY <1>2, <2>2, HeldKept DEF LoadTemplate, req
<1>3. CASE DeleteTemplate(q)
  <2>1. \A n \in NodeIds : node'[n] # NoNode => node[n] # NoNode /\ node'[n].rack = node[n].rack
    BY <1>3 DEF DeleteTemplate, Without
  <2>. QED BY <1>3, <2>1, HeldKept DEF DeleteTemplate
<1>. QED BY <1>1, <1>2, <1>3 DEF TemplateStep

(* A step that writes at most one row, and leaves that one in its rack. *)
LEMMA DeviceHeld ==
    ASSUME Announcing, TypeOK', NEW q \in Requests, DeviceStep(q)
    PROVE  NewAlone' /\ HeldRacks'
<1> USE DEF Announcing, References, Finish
<1>1. ASSUME NEW n \in NodeIds, NEW row \in Row, CreateNode(q, n, row)
      PROVE  NewAlone' /\ HeldRacks'
  <2> DEFINE req == [at |-> "insertDevice", node |-> n, row |-> row, height |-> height[row.rack]]
  <2>1. /\ requests'[q] = req /\ requests[q] = Idle
        /\ \A p \in Requests \ {q} : requests'[p] = requests[p]
        /\ node' = node /\ node[n] = NoNode
    BY <1>1 DEF CreateNode, Continue, TypeOK, CanStart, FreshNode
  <2>2. req # Idle /\ req.at = "insertDevice" /\ req.node = n
    <3>1. height[row.rack] \in Us
      BY <1>1, HeightAssumption DEF CreateNode, TypeOK, Row, Us
    <3>. QED BY <3>1, IdleAssumption DEF Request, CreateRequest
  <2>3. /\ Inserting(q)' /\ ~Updating(q)' /\ ~At(q, "deleteRack")'
        /\ \A p \in Requests \ {q} : \A s : At(p, s)' <=> At(p, s)
    BY <2>1, <2>2 DEF Inserting, Updating, At
  <2>4. \A p \in Requests \ {q} :
          /\ Inserting(p) \/ Updating(p) => requests[p].node # n
          /\ At(p, "deleteRack") => n \notin requests[p].doomed
    BY <1>1, FreshIsUnheld DEF CreateNode
  <2>. HIDE DEF req
  <2>5. NewAlone'
    BY <2>1, <2>2, <2>3, <2>4 DEF NewAlone, Inserting, Updating
  <2>6. HeldRacks'
    BY <2>1, <2>3 DEF HeldRacks, Updating
  <2>. QED BY <2>5, <2>6
<1>2. CASE InsertDevice(q)
  <2> DEFINE req == [requests[q] EXCEPT !.at = "commitNode"]
  <2>1. requests[q] \in CreateRequest /\ Inserting(q)
    BY <1>2, AtRequest, RequestShapes DEF InsertDevice, Inserting
  <2>2. req \in Request /\ req.at = "commitNode" /\ req.node = requests[q].node
    BY <2>1 DEF Request, CreateRequest
  <2>3. SameDevice(q, req) /\ req # Idle
    BY <2>1, <2>2, IdleAssumption DEF SameDevice
  <2>. HIDE DEF req
  <2>4. CASE Continue(q, req)
    BY <1>2, <2>3, <2>4, HeldKept DEF InsertDevice
  <2>5. CASE Continue(q, Idle)
    BY <1>2, <2>5, HeldKept DEF InsertDevice, Passive
  <2>. QED BY <1>2, <2>4, <2>5 DEF InsertDevice, req
<1>3. CASE CommitNode(q)
  <2> DEFINE n == requests[q].node
  <2>1. /\ requests'[q] = Idle /\ Inserting(q)
        /\ \A p \in Requests \ {q} : requests'[p] = requests[p]
    BY <1>3 DEF CommitNode, Continue, TypeOK, Inserting
  <2>2. /\ \A s : ~At(q, s)'
        /\ \A p \in Requests \ {q} : \A s : At(p, s)' <=> At(p, s)
    BY <2>1 DEF At
  <2>3. \A m \in NodeIds \ {n} : node'[m] = node[m]
    BY <1>3 DEF CommitNode, TypeOK, Layout
  <2>4. \A p \in Requests \ {q} :
          /\ Inserting(p) \/ Updating(p) => requests[p].node \in NodeIds \ {n}
          /\ At(p, "deleteRack") => requests[p].doomed \subseteq NodeIds \ {n}
    BY <2>1, HeldShapes
       DEF NewAlone, CreateRequest, UpdateRequest, MoveRequest, DestroyRackRequest
  <2>5. NewAlone'
    BY <2>1, <2>2, <2>3, <2>4 DEF NewAlone, Inserting, Updating
  <2>6. HeldRacks'
    BY <2>1, <2>2, <2>3, <2>4 DEF HeldRacks, Updating
  <2>. QED BY <2>5, <2>6
<1>4. ASSUME NEW n \in NodeIds, NEW nm \in Names, NEW moves \in BOOLEAN, NEW to \in Position,
             UpdateDevice(q, n, nm, moves, to)
      PROVE  NewAlone' /\ HeldRacks'
  <2> DEFINE step == IF NameIsFree(node, n, node[n].rack, nm) THEN "writeName" ELSE "checkPlace"
             req == [at |-> step, node |-> n, loaded |-> node[n], name |-> nm,
                     moves |-> moves, to |-> to]
  <2>1. node[n] \in Row /\ n \in Live(node)
    BY <1>4, LayoutType DEF UpdateDevice, TypeOK
  <2>2. step \in {"writeName", "checkPlace"}
    OBVIOUS
  <2>3. req \in Request
    BY <2>1, <2>2 DEF Request, UpdateRequest
  <2>4. Loaded(req) /\ req # Idle
    BY <2>1, <2>2, <2>3, IdleAssumption DEF Loaded
  <2>5. Continue(q, req)
    BY <1>4 DEF UpdateDevice
  <2>. HIDE DEF req
  <2>. QED BY <1>4, <2>4, <2>5, HeldKept DEF UpdateDevice
<1>5. ASSUME NEW n \in NodeIds, NEW to \in Position, MoveChassis(q, n, to)
      PROVE  NewAlone' /\ HeldRacks'
  <2> DEFINE req == Move(n, node[n], to)
  <2>1. node[n] \in Row /\ n \in Live(node)
    BY <1>5, LayoutType DEF MoveChassis, TypeOK
  <2>2. height[node[n].rack] \in Us
    BY <1>5, <2>1, HeightAssumption
       DEF MoveChassis, LocationIsValid, Placed, TypeOK, Row, Position, Us
  <2>3. req \in Request
    BY <2>1, <2>2 DEF Move, Request, MoveRequest
  <2>4. Loaded(req) /\ req # Idle
    BY <2>1, <2>3, IdleAssumption DEF Loaded, Move
  <2>. HIDE DEF req
  <2>. QED BY <1>5, <2>4, HeldKept DEF MoveChassis, req
<1>6. CASE WriteName(q)
  <2> DEFINE req == [requests[q] EXCEPT !.at = "checkPlace"]
  <2>1. requests[q] \in UpdateRequest /\ Updating(q)
    BY <1>6, AtRequest, RequestShapes DEF WriteName, Updating
  <2>2. req \in Request /\ req.at = "checkPlace" /\ req.node = requests[q].node
          /\ req.loaded = requests[q].loaded
    BY <2>1 DEF Request, UpdateRequest
  <2>3. SameDevice(q, req) /\ req # Idle
    BY <2>1, <2>2, IdleAssumption DEF SameDevice
  <2>. HIDE DEF req
  <2>4. \A n \in NodeIds : node'[n] # NoNode => node[n] # NoNode /\ node'[n].rack = node[n].rack
    BY <1>6, <2>1, LayoutType DEF WriteName, TypeOK, Layout, Live, Row, UpdateRequest
  <2>5. CASE Continue(q, req)
    BY <2>3, <2>4, <2>5, HeldKept
  <2>6. CASE Continue(q, Idle)
    BY <2>4, <2>6, HeldKept DEF Passive
  <2>. QED BY <1>6, <2>5, <2>6 DEF WriteName, req
<1>7. CASE CheckPlace(q)
  <2> DEFINE req == Move(requests[q].node, requests[q].loaded, requests[q].to)
  <2>1. requests[q] \in UpdateRequest /\ Updating(q)
    BY <1>7, AtRequest, RequestShapes DEF CheckPlace, Updating
  <2>2. SameDevice(q, req)
    BY <2>1 DEF SameDevice, Move
  <2>3. CASE Continue(q, Idle)
    BY <1>7, <2>3, HeldKept DEF CheckPlace, Passive
  <2>4. CASE Continue(q, req) /\ height[requests[q].loaded.rack] # 0
    <3>1. req \in Request
      BY <2>1, <2>4 DEF Move, Request, MoveRequest, UpdateRequest, TypeOK, Row, Us
    <3>2. req # Idle
      BY <3>1, IdleAssumption
    <3>. HIDE DEF req
    <3>. QED BY <1>7, <2>2, <2>4, <3>2, HeldKept DEF CheckPlace
  <2>. QED BY <1>7, <2>3, <2>4 DEF CheckPlace
<1>8. CASE WritePlace(q)
  <2> DEFINE n == requests[q].node
             row == Written(node[n], requests[q].loaded, requests[q].to)
  <2>1. requests[q] \in MoveRequest
    BY <1>8, AtRequest, RequestShapes DEF WritePlace
  <2>2. node \in [NodeIds -> Row \cup {NoNode}] /\ n \in NodeIds
    BY <2>1 DEF TypeOK, Layout, MoveRequest
  <2>3. n \in Live(node) => row.rack = node[n].rack
    BY <2>1, LayoutType, WrittenType DEF MoveRequest, TypeOK
  <2>4. \/ node' = node
        \/ node[n] # NoNode /\ node' = [node EXCEPT ![n] = row]
    BY <1>8, ZenonT(30) DEF WritePlace
  <2>. HIDE DEF row
  <2>5. \A m \in NodeIds : node'[m] # NoNode => node[m] # NoNode /\ node'[m].rack = node[m].rack
    BY <2>2, <2>3, <2>4 DEF Live
  <2>. QED BY <1>8, <2>5, HeldKept DEF WritePlace, Passive
<1>. QED BY <1>1, <1>2, <1>3, <1>4, <1>5, <1>6, <1>7, <1>8 DEF DeviceStep

LEMMA NextAnnouncing ==
    ASSUME Announcing, [Next]_vars
    PROVE  Announcing'
<1>1. TypeOK' /\ References'
  BY NextTypes, NextReferences DEF Announcing, References
<1>2. ASSUME NEW q \in Requests, Abort(q) PROVE NewAlone' /\ HeldRacks'
  BY <1>1, <1>2, HeldKept DEF Abort, Finish, Passive, References
<1>3. ASSUME NEW n \in NodeIds, DestroyDevice(n) PROVE NewAlone' /\ HeldRacks'
  <2>1. \A m \in NodeIds : node'[m] = NoNode \/ node'[m] = node[m]
    BY <1>3 DEF DestroyDevice, Announcing, References, TypeOK, Layout
  <2>2. \A p \in Requests :
          /\ Inserting(p) \/ Updating(p) => requests[p].node \in NodeIds
          /\ At(p, "deleteRack") => requests[p].doomed \subseteq NodeIds
    BY HeldShapes DEF Announcing, References, CreateRequest, UpdateRequest, MoveRequest,
                      DestroyRackRequest
  <2>3. NewAlone'
    BY <1>3, <2>1, <2>2 DEF DestroyDevice, Announcing, NewAlone, Inserting, Updating, At
  <2>4. HeldRacks'
    BY <1>3, <2>1, <2>2 DEF DestroyDevice, Announcing, HeldRacks, Updating, At
  <2>. QED BY <2>3, <2>4
<1>4. ASSUME UNCHANGED <<node, requests>> PROVE NewAlone' /\ HeldRacks'
  BY <1>4 DEF Announcing, NewAlone, HeldRacks, Inserting, Updating, At
<1>5. (\E t \in TemplateIds : CreateTemplate(t)) \/ UNCHANGED vars => UNCHANGED <<node, requests>>
  BY DEF CreateTemplate, vars
<1>. QED BY <1>1, <1>2, <1>3, <1>4, <1>5, RackHeld, TemplateHeld, DeviceHeld
     DEF Next, Announcing, References

(* A layout that differs in the rows of one rack shows every other rack as *)
(* it was.                                                                 *)
LEMMA ShowsKept ==
    ASSUME TypeOK, NEW r \in RackIds, height'[r] = height[r],
           \A n \in NodeIds : node'[n] = node[n]
             \/ /\ node[n] # NoNode => node[n].rack # r
                /\ node'[n] # NoNode => node'[n].rack # r
    PROVE  Shows(r)' = Shows(r)
<1>1. In(node', r) = In(node, r)
  BY DEF In, Live
<1>2. \A n \in In(node, r) : node'[n] = node[n]
  BY DEF In, Live
<1>. QED BY <1>1, <1>2 DEF Shows

LEMMA RackAnnounced ==
    ASSUME Announcing, TypeOK', NEW q \in Requests, RackStep(q), NEW r \in RackIds
    PROVE  Shows(r)' = Shows(r) \/ r \in announced'
<1> USE DEF Announcing, References
<1>1. CASE UNCHANGED <<height, node>>
  BY <1>1, ShowsKept
<1>2. CASE InsertRack(q) \/ WriteHeight(q)
  <2>1. node' = node
    BY <1>2 DEF InsertRack, WriteHeight
  <2>2. requests[q].rack \in RackIds
    BY <1>2, AtRequest, RequestShapes
       DEF InsertRack, WriteHeight, RackRequest, ResizeRequest
  <2>3. height'[r] = height[r] \/ r \in announced'
    BY <1>2, <2>2 DEF InsertRack, WriteHeight, Broadcast, LiveRacks, TypeOK
  <2>. QED BY <2>1, <2>3, ShowsKept
<1>3. CASE DeleteRack(q) /\ ~UNCHANGED <<height, node>>
  <2> DEFINE gone == requests[q].rack
  <2>1. requests[q] \in DestroyRackRequest
    BY <1>3, AtRequest, RequestShapes DEF DeleteRack
  <2>2. /\ node' = Without(node, requests[q].doomed)
        /\ height' = [height EXCEPT ![gone] = 0]
        /\ announced' = Broadcast(gone)
    BY <1>3 DEF DeleteRack
  <2>3. \A n \in requests[q].doomed : node[n] # NoNode => node[n].rack = gone
    BY <1>3 DEF DeleteRack, HeldRacks
  <2>4. \A n \in NodeIds : node[n] # NoNode /\ node[n].rack = gone => height[gone] # 0
    BY DEF ReferencesHold, Live
  <2>5. \A n \in NodeIds : node'[n] = node[n] \/ (node'[n] = NoNode /\ node[n] # NoNode
                                                   /\ node[n].rack = gone)
    BY <2>2, <2>3 DEF Without
  <2>6. CASE r # gone
    BY <2>1, <2>2, <2>5, <2>6, ShowsKept DEF TypeOK
  <2>7. CASE r = gone /\ height[r] # 0
    BY <2>2, <2>7 DEF Broadcast, LiveRacks
  <2>8. CASE r = gone /\ height[r] = 0
    BY <2>2, <2>4, <2>5, <2>8, ShowsKept DEF TypeOK
  <2>. QED BY <2>6, <2>7, <2>8
<1>4. RackStep(q) => UNCHANGED <<height, node>> \/ InsertRack(q) \/ WriteHeight(q) \/ DeleteRack(q)
  BY DEF RackStep, CreateRack, ResizeRack, DestroyRack, LoadRack
<1>. QED BY <1>1, <1>2, <1>3, <1>4

LEMMA DeviceAnnounced ==
    ASSUME Announcing, TypeOK', NEW q \in Requests, DeviceStep(q), NEW r \in RackIds
    PROVE  Shows(r)' = Shows(r) \/ r \in announced'
<1> USE DEF Announcing, References
<1> DEFINE n == requests[q].node
<1>1. CASE UNCHANGED <<height, node>>
  BY <1>1, ShowsKept
<1>2. CASE CommitNode(q)
  <2>1. requests[q] \in CreateRequest /\ node[n] = NoNode
    BY <1>2, AtRequest, RequestShapes DEF CommitNode, NewAlone, Inserting
  <2>2. \A m \in NodeIds \ {n} : node'[m] = node[m]
    BY <1>2 DEF CommitNode, TypeOK, Layout
  <2>3. node'[n] = requests[q].row
    BY <1>2, <2>1 DEF CommitNode, TypeOK, Layout, CreateRequest
  <2>. QED BY <1>2, <2>1, <2>2, <2>3, ShowsKept DEF CommitNode
<1>3. CASE WriteName(q) /\ node' # node
  <2>1. requests[q] \in UpdateRequest
    BY <1>3, AtRequest, RequestShapes DEF WriteName
  <2>2. node[n] # NoNode /\ node[n] \in Row /\ node[n].rack = requests[q].loaded.rack
    BY <1>3, <2>1, LayoutType DEF WriteName, HeldRacks, Updating, UpdateRequest, Live, TypeOK
  <2>3. node' = [node EXCEPT ![n].name = requests[q].name]
          /\ announced' = {requests[q].loaded.rack}
    BY <1>3 DEF WriteName
  <2>4. \A m \in NodeIds \ {n} : node'[m] = node[m]
    BY <2>3 DEF TypeOK, Layout
  <2>5. node'[n].rack = node[n].rack
    BY <2>1, <2>2, <2>3 DEF TypeOK, Layout, UpdateRequest, Row
  <2>. QED BY <1>3, <2>2, <2>3, <2>4, <2>5, ShowsKept DEF WriteName
<1>4. CASE WritePlace(q) /\ node' # node
  <2> DEFINE row == Written(node[n], requests[q].loaded, requests[q].to)
  <2>1. requests[q] \in MoveRequest
    BY <1>4, AtRequest, RequestShapes DEF WritePlace
  <2>2. /\ node[n] # NoNode /\ node' = [node EXCEPT ![n] = row]
        /\ announced' = Broadcast(requests[q].loaded.rack)
    BY <1>4, ZenonT(30) DEF WritePlace
  <2>3. node[n] \in Row /\ node[n].rack = requests[q].loaded.rack
    BY <1>4, <2>1, <2>2, LayoutType
       DEF WritePlace, HeldRacks, Updating, MoveRequest, Live, TypeOK
  <2>4. row.rack = node[n].rack
    BY <2>1, <2>3, WrittenType DEF MoveRequest
  <2>. HIDE DEF row
  <2>5. height[node[n].rack] # 0
    BY <2>1, <2>2 DEF ReferencesHold, Live, MoveRequest
  <2>6. \A m \in NodeIds : m # n => node'[m] = node[m]
    BY <2>2 DEF TypeOK, Layout
  <2>7. node'[n] = row
    BY <2>1, <2>2 DEF TypeOK, Layout, MoveRequest
  <2>8. node[n].rack \in announced'
    BY <2>2, <2>3, <2>5 DEF Broadcast, LiveRacks, Row
  <2>. QED BY <1>4, <2>4, <2>6, <2>7, <2>8, ShowsKept DEF WritePlace
<1>5. DeviceStep(q) => UNCHANGED <<height, node>> \/ CommitNode(q)
        \/ (WriteName(q) /\ node' # node) \/ (WritePlace(q) /\ node' # node)
  BY DEF DeviceStep, CreateNode, InsertDevice, UpdateDevice, MoveChassis, WriteName, CheckPlace,
         WritePlace
<1>. QED BY <1>1, <1>2, <1>3, <1>4, <1>5

(* Whatever the threads interleave, a commit that changes the height or a  *)
(* device of a rack announces that rack (HwRack#broadcast_change, the      *)
(* hooks of LiveUpdate), and the deletion of a template is the exception.  *)
THEOREM ChangesAreAnnounced == Spec => ChangesAnnounced
<1>1. Init => Announcing
  BY HeightAssumption
     DEF Init, Announcing, References, TypeOK, Layout, ReferencesHold, InsertsRefer, Inserting,
         Updating, At, Live, NewAlone, HeldRacks
<1>2. Announcing /\ [Next]_vars => Announcing'
  BY NextAnnouncing
<1>3. ASSUME Announcing, [Next]_vars, NEW r \in RackIds
      PROVE  \/ Shows(r)' = Shows(r)
             \/ r \in announced'
             \/ \E q \in Requests : At(q, "deleteTemplate") /\ requests'[q] = Idle
  <2> USE DEF Announcing, References
  <2>1. TypeOK'
    BY <1>3, NextTypes
  <2>2. ASSUME NEW q \in Requests, TemplateStep(q)
        PROVE  UNCHANGED <<height, node>> \/ (At(q, "deleteTemplate") /\ requests'[q] = Idle)
    <3>1. DeleteTemplate(q) => At(q, "deleteTemplate") /\ requests'[q] = Idle
      BY <1>3 DEF DeleteTemplate, Finish, Continue, TypeOK
    <3>2. TemplateStep(q) => UNCHANGED <<height, node>> \/ DeleteTemplate(q)
      BY DEF TemplateStep, DestroyTemplate, LoadTemplate
    <3>. QED BY <2>2, <3>1, <3>2
  <2>3. ASSUME NEW n \in NodeIds, DestroyDevice(n)
        PROVE  Shows(r)' = Shows(r) \/ r \in announced'
    <3>1. /\ node' = [node EXCEPT ![n] = NoNode]
          /\ announced' = {node[n].rack} /\ height' = height
      BY <2>3 DEF DestroyDevice
    <3>2. /\ \A m \in NodeIds : m # n => node'[m] = node[m]
          /\ node'[n] = NoNode
      BY <1>3, <3>1 DEF TypeOK, Layout
    <3>. QED BY <1>3, <3>1, <3>2, ShowsKept
  <2>4. ASSUME \/ \E q \in Requests : Abort(q)
               \/ \E t \in TemplateIds : CreateTemplate(t)
               \/ UNCHANGED vars
        PROVE  UNCHANGED <<height, node>>
    BY <2>4 DEF Abort, CreateTemplate, vars
  <2>. QED BY <1>3, <2>1, <2>2, <2>3, <2>4, ShowsKept, RackAnnounced, DeviceAnnounced DEF Next
<1>4. Announcing /\ [Next]_vars =>
        [\A r \in RackIds :
           \/ Shows(r)' = Shows(r)
           \/ r \in announced'
           \/ \E q \in Requests : At(q, "deleteTemplate") /\ requests'[q] = Idle]_vars
  BY <1>3
<1>. QED BY <1>1, <1>2, <1>4, PTL DEF Spec, ChangesAnnounced
-------------------------------------------------------------------------------
(* The licensed numbers of racks and devices, for any number of threads.   *)
(* The threads that have passed the check and not yet written their row.   *)
RacksComing == {q \in Requests : At(q, "insertRack")}
DevicesComing == {q \in Requests : At(q, "commitNode")}

OneAtATime ==
    Serial => \A p, q \in Requests : requests[p] # Idle /\ requests[q] # Idle => p = q

(* What is live is bounded together with what is coming: a check that      *)
(* passes sees less than the limit, and as many threads are coming at most *)
(* as there are.                                                           *)
RackRoom == Cardinality(LiveRacks) + Cardinality(RacksComing) <= RackLimit + Overshoot
DeviceRoom == Cardinality(Live(node)) + Cardinality(DevicesComing) <= DeviceLimit + Overshoot
Licence == TypeOK /\ OneAtATime /\ RackRoom /\ DeviceRoom

LEMMA NoMore ==
    ASSUME NEW A, IsFiniteSet(A), NEW B, B \subseteq A
    PROVE  Cardinality(A) \in Nat /\ Cardinality(B) \in Nat /\ Cardinality(B) <= Cardinality(A)
BY FS_Subset, FS_CardinalityType

LEMMA OneMore ==
    ASSUME NEW A, IsFiniteSet(A), NEW x, NEW B, B \subseteq A \cup {x}
    PROVE  /\ Cardinality(A) \in Nat /\ Cardinality(B) \in Nat
           /\ Cardinality(B) <= Cardinality(A) + 1
<1>1. Cardinality(A) \in Nat
  BY FS_CardinalityType
<1>2. /\ IsFiniteSet(A \cup {x})
      /\ Cardinality(A \cup {x}) = IF x \in A THEN Cardinality(A) ELSE Cardinality(A) + 1
  BY FS_AddElement, Zenon
<1>. QED BY <1>1, <1>2, NoMore

LEMMA OneLess ==
    ASSUME NEW A, IsFiniteSet(A), NEW x \in A, NEW B, B \subseteq A \ {x}
    PROVE  /\ Cardinality(A) \in Nat /\ Cardinality(B) \in Nat
           /\ Cardinality(B) <= Cardinality(A) - 1
<1>1. /\ IsFiniteSet(A \ {x}) /\ Cardinality(A) \in Nat
      /\ Cardinality(A \ {x}) = Cardinality(A) - 1
  BY FS_RemoveElement, FS_CardinalityType
<1>. QED BY <1>1, NoMore

LEMMA Finite ==
    /\ IsFiniteSet(LiveRacks) /\ IsFiniteSet(RacksComing)
    /\ IsFiniteSet(Live(node)) /\ IsFiniteSet(DevicesComing)
    /\ Overshoot \in Nat
    /\ ~Serial => Cardinality(Requests) = Overshoot + 1
<1>1. LiveRacks \subseteq RackIds /\ RacksComing \subseteq Requests
        /\ Live(node) \subseteq NodeIds /\ DevicesComing \subseteq Requests
  BY DEF LiveRacks, RacksComing, Live, DevicesComing
<1>2. Cardinality(Requests) \in Nat \ {0}
  BY FiniteAssumption, FS_EmptySet, FS_CardinalityType
<1>. QED BY <1>1, <1>2, FiniteAssumption, FS_Subset DEF Overshoot

LEMMA FiniteThen ==
    /\ IsFiniteSet(LiveRacks') /\ IsFiniteSet(RacksComing')
    /\ IsFiniteSet(Live(node')) /\ IsFiniteSet(DevicesComing')
<1>1. LiveRacks' \subseteq RackIds /\ RacksComing' \subseteq Requests
        /\ Live(node') \subseteq NodeIds /\ DevicesComing' \subseteq Requests
  BY DEF LiveRacks, RacksComing, Live, DevicesComing
<1>. QED BY <1>1, FiniteAssumption, FS_Subset

-----------------------------------------------------------------------------
(* A step of thread q, by the request it goes on with. *)

LEMMA Step ==
    ASSUME TypeOK, OneAtATime, NEW q \in Requests, NEW req, Continue(q, req),
           CanStart(q) \/ requests[q] # Idle
    PROVE  /\ OneAtATime'
           /\ RacksComing' \subseteq RacksComing \cup {q}
           /\ DevicesComing' \subseteq DevicesComing \cup {q}
           /\ req = Idle \/ req.at # "insertRack" => RacksComing' \subseteq RacksComing \ {q}
           /\ req = Idle \/ req.at # "commitNode" => DevicesComing' \subseteq DevicesComing \ {q}
           /\ Serial => RacksComing' \subseteq {q} /\ DevicesComing' \subseteq {q}
<1>1. /\ requests'[q] = req
      /\ \A p \in Requests \ {q} : requests'[p] = requests[p]
  BY DEF TypeOK, Continue
<1>2. Serial => \A p \in Requests \ {q} : requests[p] = Idle
  BY DEF OneAtATime, CanStart
<1>. QED BY <1>1, <1>2 DEF OneAtATime, RacksComing, DevicesComing, At

LEMMA RacksKept ==
    ASSUME RackRoom, LiveRacks' \subseteq LiveRacks, RacksComing' \subseteq RacksComing
    PROVE  RackRoom'
<1>1. /\ Cardinality(LiveRacks) \in Nat /\ Cardinality(LiveRacks') \in Nat
      /\ Cardinality(LiveRacks') <= Cardinality(LiveRacks)
  BY NoMore, Finite
<1>2. /\ Cardinality(RacksComing) \in Nat /\ Cardinality(RacksComing') \in Nat
      /\ Cardinality(RacksComing') <= Cardinality(RacksComing)
  BY NoMore, Finite
<1>. QED BY <1>1, <1>2, Finite, LimitAssumption DEF RackRoom, Overshoot

LEMMA DevicesKept ==
    ASSUME DeviceRoom, Live(node') \subseteq Live(node), DevicesComing' \subseteq DevicesComing
    PROVE  DeviceRoom'
<1>1. /\ Cardinality(Live(node)) \in Nat /\ Cardinality(Live(node')) \in Nat
      /\ Cardinality(Live(node')) <= Cardinality(Live(node))
  BY NoMore, Finite
<1>2. /\ Cardinality(DevicesComing) \in Nat /\ Cardinality(DevicesComing') \in Nat
      /\ Cardinality(DevicesComing') <= Cardinality(DevicesComing)
  BY NoMore, Finite
<1>. QED BY <1>1, <1>2, Finite, LimitAssumption DEF DeviceRoom, Overshoot

(* As many threads can be coming as there are, or one if they are serial. *)
LEMMA Coming ==
    ASSUME NEW S, S \subseteq Requests, NEW q, Serial => S \subseteq {q}
    PROVE  Cardinality(S) \in Nat /\ Cardinality(S) <= Overshoot + 1
<1>1. CASE Serial
  <2>1. S \subseteq {} \cup {q}
    BY <1>1
  <2>2. IsFiniteSet({}) /\ Cardinality({}) = 0
    BY FS_EmptySet
  <2>. QED BY <2>1, <2>2, OneMore, <1>1 DEF Overshoot
<1>2. CASE ~Serial
  BY <1>2, NoMore, FiniteAssumption, Finite
<1>. QED BY <1>1, <1>2

(* A step that brings nothing closer. *)
LEMMA OtherStep ==
    ASSUME Licence, NEW q \in Requests, NEW req, Continue(q, req),
           CanStart(q) \/ requests[q] # Idle,
           req = Idle \/ req.at \notin {"insertRack", "commitNode"},
           LiveRacks' \subseteq LiveRacks, Live(node') \subseteq Live(node)
    PROVE  OneAtATime' /\ RackRoom' /\ DeviceRoom'
<1>1. /\ OneAtATime' /\ RacksComing' \subseteq RacksComing
      /\ DevicesComing' \subseteq DevicesComing
  BY Step DEF Licence
<1>. QED BY <1>1, RacksKept, DevicesKept DEF Licence

-----------------------------------------------------------------------------
(* The steps. *)

LEMMA RackLicence ==
    ASSUME Licence, NEW q \in Requests, RackStep(q)
    PROVE  OneAtATime' /\ RackRoom' /\ DeviceRoom'
<1> USE DEF Licence
<1>1. ASSUME NEW r \in RackIds, NEW h \in Us, CreateRack(q, r, h)
      PROVE  OneAtATime' /\ RackRoom' /\ DeviceRoom'
  <2> DEFINE req == [at |-> "insertRack", rack |-> r, height |-> h]
  <2>1. Continue(q, req) /\ CanStart(q) /\ req \in Request
    BY <1>1 DEF CreateRack, Request, RackRequest
  <2>2. req # Idle /\ req.at # "commitNode"
    BY <2>1, IdleAssumption
  <2> HIDE DEF req
  <2>3. /\ OneAtATime' /\ DevicesComing' \subseteq DevicesComing
        /\ Serial => RacksComing' \subseteq {q}
    BY <2>1, <2>2, Step
  <2>4. Cardinality(RacksComing') \in Nat /\ Cardinality(RacksComing') <= Overshoot + 1
    BY <2>3, Coming DEF RacksComing
  <2>5. LiveRacks' = LiveRacks /\ Cardinality(LiveRacks) \in Nat /\ Cardinality(LiveRacks) < RackLimit
    BY <1>1, Finite, FS_CardinalityType DEF CreateRack, LiveRacks, LicenceAllowsRack
  <2>6. RackRoom'
    BY <2>4, <2>5, Finite, LimitAssumption DEF RackRoom, Overshoot
  <2>7. Live(node') \subseteq Live(node)
    BY <1>1 DEF CreateRack
  <2>. QED BY <2>3, <2>6, <2>7, DevicesKept
<1>2. CASE InsertRack(q)
  <2>1. Continue(q, Idle) /\ requests[q] # Idle /\ q \in RacksComing
    BY <1>2 DEF InsertRack, Finish, At, RacksComing
  <2>2. OneAtATime' /\ DevicesComing' \subseteq DevicesComing /\ RacksComing' \subseteq RacksComing \ {q}
    BY <2>1, Step
  <2>3. LiveRacks' \subseteq LiveRacks \cup {requests[q].rack}
    BY <1>2 DEF InsertRack, LiveRacks, TypeOK
  <2>4. /\ Cardinality(LiveRacks) \in Nat /\ Cardinality(LiveRacks') \in Nat
        /\ Cardinality(LiveRacks') <= Cardinality(LiveRacks) + 1
    BY <2>3, Finite, OneMore
  <2>5. /\ Cardinality(RacksComing) \in Nat /\ Cardinality(RacksComing') \in Nat
        /\ Cardinality(RacksComing') <= Cardinality(RacksComing) - 1
    BY <2>1, <2>2, Finite, OneLess
  <2>6. RackRoom'
    BY <2>4, <2>5, Finite, LimitAssumption DEF RackRoom, Overshoot
  <2>7. Live(node') \subseteq Live(node)
    BY <1>2 DEF InsertRack
  <2>. QED BY <2>2, <2>6, <2>7, DevicesKept
<1>3. ASSUME NEW r \in RackIds, NEW h \in Us, ResizeRack(q, r, h)
      PROVE  OneAtATime' /\ RackRoom' /\ DeviceRoom'
  <2>1. LiveRacks' \subseteq LiveRacks /\ Live(node') \subseteq Live(node)
    BY <1>3 DEF ResizeRack, LiveRacks
  <2>. QED BY <1>3, <2>1, OtherStep DEF ResizeRack
<1>4. ASSUME NEW r \in RackIds, NEW recurse \in BOOLEAN, DestroyRack(q, r, recurse)
      PROVE  OneAtATime' /\ RackRoom' /\ DeviceRoom'
  <2>1. LiveRacks' \subseteq LiveRacks /\ Live(node') \subseteq Live(node)
    BY <1>4 DEF DestroyRack, LiveRacks
  <2>. QED BY <1>4, <2>1, OtherStep DEF DestroyRack
<1>5. CASE WriteHeight(q)
  <2>1. LiveRacks' \subseteq LiveRacks /\ Live(node') \subseteq Live(node)
    BY <1>5 DEF WriteHeight, LiveRacks, TypeOK
  <2>. QED BY <1>5, <2>1, OtherStep DEF WriteHeight, Finish, At
<1>6. CASE LoadRack(q)
  <2>1. LiveRacks' \subseteq LiveRacks /\ Live(node') \subseteq Live(node)
    BY <1>6 DEF LoadRack, LiveRacks
  <2>2. requests[q] \in DestroyRackRequest
    BY <1>6, AtRequest, RequestShapes DEF LoadRack
  <2>. QED BY <1>6, <2>1, <2>2, OtherStep DEF LoadRack, At, DestroyRackRequest
<1>7. CASE DeleteRack(q)
  <2>1. LiveRacks' \subseteq LiveRacks /\ Live(node') \subseteq Live(node)
    BY <1>7 DEF DeleteRack, LiveRacks, TypeOK, Live, Without, Layout
  <2>. QED BY <1>7, <2>1, OtherStep DEF DeleteRack, Finish, At
<1>. QED BY <1>1, <1>2, <1>3, <1>4, <1>5, <1>6, <1>7 DEF RackStep

LEMMA TemplateLicence ==
    ASSUME Licence, NEW q \in Requests, TemplateStep(q)
    PROVE  OneAtATime' /\ RackRoom' /\ DeviceRoom'
<1> USE DEF Licence
<1>1. ASSUME NEW t \in TemplateIds, NEW recurse \in BOOLEAN, DestroyTemplate(q, t, recurse)
      PROVE  OneAtATime' /\ RackRoom' /\ DeviceRoom'
  <2>1. LiveRacks' \subseteq LiveRacks /\ Live(node') \subseteq Live(node)
    BY <1>1 DEF DestroyTemplate, LiveRacks
  <2>. QED BY <1>1, <2>1, OtherStep DEF DestroyTemplate
<1>2. CASE LoadTemplate(q)
  <2>1. LiveRacks' \subseteq LiveRacks /\ Live(node') \subseteq Live(node)
    BY <1>2 DEF LoadTemplate, LiveRacks
  <2>2. requests[q] \in DestroyTemplateRequest
    BY <1>2, AtRequest, RequestShapes DEF LoadTemplate
  <2>. QED BY <1>2, <2>1, <2>2, OtherStep DEF LoadTemplate, At, DestroyTemplateRequest
<1>3. CASE DeleteTemplate(q)
  <2>1. LiveRacks' \subseteq LiveRacks /\ Live(node') \subseteq Live(node)
    BY <1>3 DEF DeleteTemplate, LiveRacks, TypeOK, Live, Without, Layout
  <2>. QED BY <1>3, <2>1, OtherStep DEF DeleteTemplate, Finish, At
<1>. QED BY <1>1, <1>2, <1>3 DEF TemplateStep

LEMMA DeviceLicence ==
    ASSUME Licence, NEW q \in Requests, DeviceStep(q)
    PROVE  OneAtATime' /\ RackRoom' /\ DeviceRoom'
<1> USE DEF Licence
<1>1. ASSUME NEW n \in NodeIds, NEW row \in Row, CreateNode(q, n, row)
      PROVE  OneAtATime' /\ RackRoom' /\ DeviceRoom'
  <2>1. LiveRacks' \subseteq LiveRacks /\ Live(node') \subseteq Live(node)
    BY <1>1 DEF CreateNode, LiveRacks
  <2>. QED BY <1>1, <2>1, OtherStep DEF CreateNode
<1>2. CASE InsertDevice(q)
  <2>1. LiveRacks' \subseteq LiveRacks /\ Live(node') \subseteq Live(node)
    BY <1>2 DEF InsertDevice, LiveRacks
  <2>2. requests[q] \in CreateRequest /\ requests[q] # Idle
    BY <1>2, AtRequest, RequestShapes DEF InsertDevice, At
  <2>3. CASE Finish(q)
    BY <2>1, <2>2, <2>3, OtherStep DEF Finish
  <2>4. CASE LicenceAllowsDevice /\ Continue(q, [requests[q] EXCEPT !.at = "commitNode"])
    <3>1. [requests[q] EXCEPT !.at = "commitNode"].at # "insertRack"
      BY <2>2 DEF CreateRequest
    <3>2. /\ OneAtATime' /\ RacksComing' \subseteq RacksComing
          /\ Serial => DevicesComing' \subseteq {q}
      BY <2>2, <2>4, <3>1, Step
    <3>3. Cardinality(DevicesComing') \in Nat /\ Cardinality(DevicesComing') <= Overshoot + 1
      BY <3>2, Coming DEF DevicesComing
    <3>4. Cardinality(Live(node)) \in Nat /\ Cardinality(Live(node)) < DeviceLimit
      BY <2>4, Finite, FS_CardinalityType DEF LicenceAllowsDevice
    <3>5. Live(node') = Live(node)
      BY <1>2 DEF InsertDevice
    <3>6. DeviceRoom'
      BY <3>3, <3>4, <3>5, Finite, LimitAssumption DEF DeviceRoom, Overshoot
    <3>. QED BY <2>1, <3>2, <3>6, RacksKept
  <2>. QED BY <1>2, <2>3, <2>4 DEF InsertDevice
<1>3. CASE CommitNode(q)
  <2>1. Continue(q, Idle) /\ requests[q] # Idle /\ q \in DevicesComing
    BY <1>3 DEF CommitNode, Finish, At, DevicesComing
  <2>2. OneAtATime' /\ RacksComing' \subseteq RacksComing /\ DevicesComing' \subseteq DevicesComing \ {q}
    BY <2>1, Step
  <2>3. Live(node') \subseteq Live(node) \cup {requests[q].node}
    BY <1>3 DEF CommitNode, Live, TypeOK, Layout
  <2>4. /\ Cardinality(Live(node)) \in Nat /\ Cardinality(Live(node')) \in Nat
        /\ Cardinality(Live(node')) <= Cardinality(Live(node)) + 1
    BY <2>3, Finite, OneMore
  <2>5. /\ Cardinality(DevicesComing) \in Nat /\ Cardinality(DevicesComing') \in Nat
        /\ Cardinality(DevicesComing') <= Cardinality(DevicesComing) - 1
    BY <2>1, <2>2, Finite, OneLess
  <2>6. DeviceRoom'
    BY <2>4, <2>5, Finite, LimitAssumption DEF DeviceRoom, Overshoot
  <2>7. LiveRacks' \subseteq LiveRacks
    BY <1>3 DEF CommitNode, LiveRacks
  <2>. QED BY <2>2, <2>6, <2>7, RacksKept
<1>4. ASSUME NEW n \in NodeIds, NEW nm \in Names, NEW moves \in BOOLEAN, NEW to \in Position,
             UpdateDevice(q, n, nm, moves, to)
      PROVE  OneAtATime' /\ RackRoom' /\ DeviceRoom'
  <2>1. LiveRacks' \subseteq LiveRacks /\ Live(node') \subseteq Live(node)
    BY <1>4 DEF UpdateDevice, LiveRacks
  <2>. QED BY <1>4, <2>1, OtherStep DEF UpdateDevice
<1>5. ASSUME NEW n \in NodeIds, NEW to \in Position, MoveChassis(q, n, to)
      PROVE  OneAtATime' /\ RackRoom' /\ DeviceRoom'
  <2>1. LiveRacks' \subseteq LiveRacks /\ Live(node') \subseteq Live(node)
    BY <1>5 DEF MoveChassis, LiveRacks
  <2>. QED BY <1>5, <2>1, OtherStep DEF MoveChassis, Move
<1>6. CASE WriteName(q)
  <2>1. LiveRacks' \subseteq LiveRacks /\ Live(node') \subseteq Live(node)
    BY <1>6 DEF WriteName, LiveRacks, TypeOK, Live, Layout
  <2>2. requests[q] \in UpdateRequest
    BY <1>6, AtRequest, RequestShapes DEF WriteName
  <2>3. [requests[q] EXCEPT !.at = "checkPlace"].at = "checkPlace"
    BY <2>2 DEF UpdateRequest
  <2>. QED BY <1>6, <2>1, <2>3, OtherStep DEF WriteName, Finish, At
<1>7. CASE CheckPlace(q)
  <2>1. LiveRacks' \subseteq LiveRacks /\ Live(node') \subseteq Live(node)
    BY <1>7 DEF CheckPlace, LiveRacks
  <2>. QED BY <1>7, <2>1, OtherStep DEF CheckPlace, Finish, At, Move
<1>8. CASE WritePlace(q)
  <2>1. LiveRacks' \subseteq LiveRacks /\ Live(node') \subseteq Live(node)
    BY <1>8 DEF WritePlace, LiveRacks, TypeOK, Live, Layout
  <2>. QED BY <1>8, <2>1, OtherStep DEF WritePlace, Finish, At
<1>. QED BY <1>1, <1>2, <1>3, <1>4, <1>5, <1>6, <1>7, <1>8 DEF DeviceStep

LEMMA NextLicence == Licence /\ [Next]_vars => Licence'
<1> SUFFICES ASSUME Licence, [Next]_vars PROVE OneAtATime' /\ RackRoom' /\ DeviceRoom'
  BY NextTypes DEF Licence
<1> USE DEF Licence
<1>1. ASSUME NEW q \in Requests, Abort(q) PROVE OneAtATime' /\ RackRoom' /\ DeviceRoom'
  <2>1. LiveRacks' \subseteq LiveRacks /\ Live(node') \subseteq Live(node)
    BY <1>1 DEF Abort, LiveRacks
  <2>. QED BY <1>1, <2>1, OtherStep DEF Abort, Finish
<1>2. ASSUME requests' = requests, LiveRacks' \subseteq LiveRacks, Live(node') \subseteq Live(node)
      PROVE  OneAtATime' /\ RackRoom' /\ DeviceRoom'
  <2>1. OneAtATime' /\ RacksComing' = RacksComing /\ DevicesComing' = DevicesComing
    BY <1>2 DEF OneAtATime, RacksComing, DevicesComing, At
  <2>. QED BY <1>2, <2>1, RacksKept, DevicesKept
<1>3. ASSUME NEW n \in NodeIds, DestroyDevice(n) PROVE OneAtATime' /\ RackRoom' /\ DeviceRoom'
  <2>1. LiveRacks' \subseteq LiveRacks /\ Live(node') \subseteq Live(node)
    BY <1>3 DEF DestroyDevice, LiveRacks, Live, TypeOK, Layout
  <2>. QED BY <1>2, <1>3, <2>1 DEF DestroyDevice
<1>4. ASSUME NEW t \in TemplateIds, CreateTemplate(t) PROVE OneAtATime' /\ RackRoom' /\ DeviceRoom'
  BY <1>2, <1>4 DEF CreateTemplate, LiveRacks
<1>5. CASE UNCHANGED vars
  BY <1>2, <1>5 DEF vars, LiveRacks
<1>. QED BY <1>1, <1>3, <1>4, <1>5, RackLicence, TemplateLicence, DeviceLicence DEF Next

LEMMA InitLicence == Init => Licence
<1> SUFFICES ASSUME Init PROVE Licence
  OBVIOUS
<1>1. LiveRacks = {} /\ Live(node) = {} /\ RacksComing = {} /\ DevicesComing = {}
  BY DEF Init, LiveRacks, Live, RacksComing, DevicesComing, At
<1>2. TypeOK
  BY HeightAssumption DEF Init, TypeOK, Layout
<1>. QED BY <1>1, <1>2, FS_EmptySet, Finite, LimitAssumption
     DEF Licence, OneAtATime, RackRoom, DeviceRoom, Init

(* Whatever number of threads serves requests, each can exceed a licensed  *)
(* limit at most once, and one request at a time never does                *)
(* (HwRack#rack_limit, Device#device_limit).                               *)
THEOREM LicenceKept == Spec => []LicenceRespected
<1>1. Licence => LicenceRespected
  <2> SUFFICES ASSUME Licence PROVE LicenceRespected
    OBVIOUS
  <2>1. /\ Cardinality(LiveRacks) \in Nat /\ Cardinality(RacksComing) \in Nat
        /\ Cardinality(Live(node)) \in Nat /\ Cardinality(DevicesComing) \in Nat
    BY Finite, FS_CardinalityType
  <2>. QED BY <2>1, Finite, LimitAssumption DEF Licence, RackRoom, DeviceRoom, LicenceRespected, Overshoot
<1>. QED BY <1>1, InitLicence, NextLicence, PTL DEF Spec
-------------------------------------------------------------------------------
(* What holds when the requests come one at a time: every check is still   *)
(* true when the write it allows is made, so the layout stays sound and    *)
(* the program implements RackRegistry.                                    *)
(* Two rows that take the same place in the same rack. *)
SamePlace(a, b) ==
    a.rack = b.rack /\ a.template = b.template /\ a.start = b.start /\ a.facing = b.facing

Within(layout, heights) == \A n \in Live(layout) : EndU(layout[n]) <= heights[layout[n].rack]
Apart(layout) ==
    \A n, m \in Live(layout) : Rivals(layout, n, m) => layout[n].start # layout[m].start
Distinct(layout) ==
    \A n, m \in Live(layout) :
      n # m /\ layout[n].rack = layout[m].rack => layout[n].name # layout[m].name
Sound(layout, heights) == Within(layout, heights) /\ Apart(layout) /\ Distinct(layout)

OneRequest == \A p, q \in Requests : requests[p] # Idle /\ requests[q] # Idle => p = q

(* What the thread at each step has checked, and what is true still. *)
InsertChecked(req) ==
    /\ node[req.node] = NoNode
    /\ req.height = height[req.row.rack]
    /\ LocationIsValid(node, req.node, req.row, req.height)
    /\ req.at = "commitNode" => NameIsFree(node, req.node, req.row.rack, req.row.name)
ResizeChecked(req) ==
    /\ req.loaded = height[req.rack]
    /\ Accommodates(node, req.rack, req.height)
RenameChecked(req) ==
    /\ node[req.node] # NoNode
    /\ SamePlace(node[req.node], req.loaded)
    /\ req.at = "writeName" =>
         node[req.node] = req.loaded /\ NameIsFree(node, req.node, req.loaded.rack, req.name)
MoveChecked(req) ==
    /\ node[req.node] # NoNode
    /\ SamePlace(node[req.node], req.loaded)
    /\ req.height = height[req.loaded.rack]
    /\ LocationIsValid(node, req.node, Placed(req.loaded, req.to), req.height)

Checked(q) ==
    /\ Inserting(q) => InsertChecked(requests[q])
    /\ At(q, "insertRack") => height[requests[q].rack] = 0
    /\ At(q, "resize") => ResizeChecked(requests[q])
    /\ At(q, "writeName") \/ At(q, "checkPlace") => RenameChecked(requests[q])
    /\ At(q, "writePlace") => MoveChecked(requests[q])
    /\ At(q, "deleteRack") => requests[q].doomed = In(node, requests[q].rack)
    /\ At(q, "deleteTemplate") => requests[q].doomed = From(node, requests[q].template)

SerialInv ==
    /\ References
    /\ OneRequest
    /\ Sound(node, height)
    /\ \A q \in Requests : Checked(q)

-----------------------------------------------------------------------------
(* Layouts. *)

LEMMA EndUIsAbove ==
    ASSUME NEW row \in Row
    PROVE  EndU(row) \in Nat /\ row.start <= EndU(row)
<1>1. TemplateHeight[row.template] \in Nat /\ TemplateHeight[row.template] >= 1
  BY TemplateAssumption DEF Row
<1>2. row.start \in Nat /\ row.start >= 1
  BY HeightAssumption DEF Row, Us
<1>. QED BY <1>1, <1>2 DEF EndU

(* Rows in one place are of one geometry. *)
LEMMA SameGeometry ==
    ASSUME NEW a, NEW b, SamePlace(a, b)
    PROVE  EndU(a) = EndU(b) /\ FacingsOf(a) = FacingsOf(b) /\ a.start = b.start /\ a.rack = b.rack
BY DEF SamePlace, EndU, FacingsOf, FullDepth

(* A row that shares a facing with another one is found by occupy_u? when  *)
(* its first U is asked for.                                               *)
LEMMA StartIsOccupied ==
    ASSUME NEW a \in Row, NEW b \in Row,
           FacingsOf(a) \cap FacingsOf(b) # {}, a.start = b.start
    PROVE  OccupiesU(a, b.start, FacingsOf(b))
<1>1. FullDepth(a) \/ a.facing \in FacingsOf(b)
  BY DEF FacingsOf
<1>2. a.start <= a.start
  BY HeightAssumption DEF Row, Us
<1>. QED BY <1>1, <1>2, EndUIsAbove DEF OccupiesU

(* Taking devices away, or changing the height of racks they are not in. *)
LEMMA FewerSound ==
    ASSUME NEW old, NEW new, NEW heights, NEW heights2, Sound(old, heights),
           \A n \in Live(new) :
             n \in Live(old) /\ new[n] = old[n] /\ heights2[old[n].rack] = heights[old[n].rack]
    PROVE  Sound(new, heights2)
<1>1. Within(new, heights2)
  BY DEF Sound, Within
<1>2. Apart(new)
  BY DEF Sound, Apart, Rivals
<1>3. Distinct(new)
  BY DEF Sound, Distinct
<1>. QED BY <1>1, <1>2, <1>3 DEF Sound

(* Putting one device where location.valid? allows it keeps the others'    *)
(* starts apart from its own.                                              *)
LEMMA PlacedApart ==
    ASSUME NEW layout \in Layout, NEW n \in NodeIds, NEW row \in Row, NEW placed \in Row,
           NEW h, SamePlace(row, placed), LocationIsValid(layout, n, placed, h), Apart(layout)
    PROVE  Apart([layout EXCEPT ![n] = row])
<1> DEFINE new == [layout EXCEPT ![n] = row]
<1>1. row # NoNode
  BY NoNodeAssumption
<1>2. \A k \in Live(new) : k = n \/ (k \in Live(layout) /\ new[k] = layout[k])
  BY DEF Live, Layout
<1>3. new[n] = row
  BY DEF Layout
<1>4. ASSUME NEW m \in Live(layout) \ {n},
             FacingsOf(layout[m]) \cap FacingsOf(row) # {}, layout[m].rack = row.rack
      PROVE  layout[m].start # row.start
  <2>1. layout[m] \in Row
    BY LayoutType
  <2>2. m \in In(layout, placed.rack) \ {n}
    BY <1>4 DEF In, SamePlace
  <2>3. ~OccupiesU(layout[m], placed.start, FacingsOf(placed))
    BY <2>2 DEF LocationIsValid, UIsEmpty
  <2>. QED BY <1>4, <2>1, <2>3, SameGeometry, StartIsOccupied
<1>5. ASSUME NEW a \in Live(new), NEW b \in Live(new), Rivals(new, a, b)
      PROVE  new[a].start # new[b].start
  <2>1. /\ a # b /\ new[a].rack = new[b].rack
        /\ FacingsOf(new[a]) \cap FacingsOf(new[b]) # {}
        /\ FacingsOf(new[b]) \cap FacingsOf(new[a]) # {}
    BY <1>5 DEF Rivals
  <2>2. CASE a = n
    BY <1>2, <1>3, <1>4, <2>1, <2>2
  <2>3. CASE b = n
    BY <1>2, <1>3, <1>4, <2>1, <2>3
  <2>4. CASE a # n /\ b # n
    BY <1>2, <1>5, <2>4 DEF Apart, Rivals
  <2>. QED BY <2>2, <2>3, <2>4
<1>. QED BY <1>5 DEF Apart

LEMMA PlacedSound ==
    ASSUME NEW layout \in Layout, NEW heights, NEW n \in NodeIds,
           NEW row \in Row, NEW placed \in Row,
           SamePlace(row, placed), LocationIsValid(layout, n, placed, heights[row.rack]),
           Sound(layout, heights),
           \/ layout[n] # NoNode /\ layout[n].rack = row.rack /\ layout[n].name = row.name
           \/ NameIsFree(layout, n, row.rack, row.name)
    PROVE  Sound([layout EXCEPT ![n] = row], heights)
<1> DEFINE new == [layout EXCEPT ![n] = row]
<1>1. row # NoNode
  BY NoNodeAssumption
<1>2. \A k \in Live(new) : k = n \/ (k \in Live(layout) /\ new[k] = layout[k])
  BY DEF Live, Layout
<1>3. new[n] = row
  BY DEF Layout
<1>4. Within(new, heights)
  <2>1. EndU(row) <= heights[row.rack]
    BY SameGeometry DEF LocationIsValid
  <2>. HIDE DEF new
  <2>. QED BY <2>1, <1>2, <1>3 DEF Sound, Within
<1>5. Apart(new)
  BY PlacedApart DEF Sound
<1>6. Distinct(new)
  <2>1. ASSUME NEW m \in Live(layout) \ {n}, layout[m].rack = row.rack
        PROVE  layout[m].name # row.name
    <3>1. CASE layout[n] # NoNode /\ layout[n].rack = row.rack /\ layout[n].name = row.name
      BY <2>1, <3>1 DEF Sound, Distinct, Live
    <3>2. CASE NameIsFree(layout, n, row.rack, row.name)
      BY <2>1, <3>2 DEF NameIsFree, In
    <3>. QED BY <3>1, <3>2
  <2>. HIDE DEF new
  <2>. QED BY <2>1, <1>2, <1>3 DEF Sound, Distinct
<1>. QED BY <1>4, <1>5, <1>6 DEF Sound

(* A rename leaves every device where it was. *)
LEMMA RenamedSound ==
    ASSUME NEW layout \in Layout, NEW heights, NEW n \in Live(layout), NEW row \in Row,
           SamePlace(row, layout[n]), NameIsFree(layout, n, row.rack, row.name),
           Sound(layout, heights)
    PROVE  Sound([layout EXCEPT ![n] = row], heights)
<1> DEFINE new == [layout EXCEPT ![n] = row]
<1>1. row # NoNode /\ n \in NodeIds
  BY NoNodeAssumption DEF Live
<1>2. \A k \in Live(new) : k \in Live(layout) /\ SamePlace(new[k], layout[k])
  BY <1>1 DEF Live, Layout, SamePlace
<1>3. \A k \in Live(new) : IF k = n THEN new[k] = row ELSE new[k] = layout[k]
  BY <1>1 DEF Live, Layout
<1>. HIDE DEF new
<1>4. Within(new, heights)
  BY <1>2, SameGeometry DEF Sound, Within
<1>5. Apart(new)
  BY <1>2, SameGeometry DEF Sound, Apart, Rivals
<1>6. Distinct(new)
  <2>1. ASSUME NEW m \in Live(layout) \ {n}, layout[m].rack = row.rack
        PROVE  layout[m].name # row.name
    BY <2>1 DEF NameIsFree, In
  <2>. QED BY <2>1, <1>2, <1>3 DEF Sound, Distinct
<1>. QED BY <1>4, <1>5, <1>6 DEF Sound, new

-----------------------------------------------------------------------------
(* Steps. *)

(* While a thread takes a step, the others are idle. *)
LEMMA OthersIdle ==
    ASSUME Serial, SerialInv, NEW q \in Requests, NEW req,
           CanStart(q) \/ requests[q] # Idle,
           requests' = [requests EXCEPT ![q] = req]
    PROVE  /\ requests'[q] = req
           /\ OneRequest'
           /\ \A p \in Requests \ {q} : requests'[p] = Idle
<1>1. requests \in [Requests -> Request \cup {Idle}]
  BY DEF SerialInv, References, TypeOK
<1>2. \A p \in Requests \ {q} : requests[p] = Idle
  BY DEF SerialInv, OneRequest, CanStart
<1>3. requests'[q] = req /\ \A p \in Requests \ {q} : requests'[p] = Idle
  BY <1>1, <1>2
<1>. QED BY <1>3 DEF OneRequest

LEMMA IdleIsChecked ==
    ASSUME NEW q \in Requests, requests'[q] = Idle
    PROVE  Checked(q)'
BY DEF Checked, Inserting, At

(* The invariant follows from what the step's own thread has checked. *)
LEMMA OneStep ==
    ASSUME Serial, SerialInv, TypeOK', [Next]_vars, NEW q \in Requests, NEW req,
           CanStart(q) \/ requests[q] # Idle,
           requests' = [requests EXCEPT ![q] = req],
           Sound(node, height)',
           requests'[q] = req => Checked(q)'
    PROVE  SerialInv'
<1>1. References'
  BY NextReferences DEF SerialInv
<1>2. OneRequest' /\ requests'[q] = req
  BY OthersIdle
<1>3. \A p \in Requests \ {q} : requests'[p] = Idle
  BY OthersIdle
<1>4. \A p \in Requests : Checked(p)'
  BY <1>2, <1>3, IdleIsChecked
<1>. QED BY <1>1, <1>2, <1>4 DEF SerialInv

LEMMA FinishStep ==
    ASSUME Serial, SerialInv, TypeOK', [Next]_vars, NEW q \in Requests,
           CanStart(q) \/ requests[q] # Idle,
           Finish(q), Sound(node, height)'
    PROVE  SerialInv'
BY OneStep, IdleIsChecked DEF Finish, Continue

LEMMA HeightWritten ==
    ASSUME TypeOK, NEW q \in Requests, WriteHeight(q)
    PROVE  \/ height' = height
           \/ height' = [height EXCEPT ![requests[q].rack] = requests[q].height]
<1> DEFINE req == requests[q]
           same == height[req.rack] = 0 \/ req.height = req.loaded
<1>1. height' = [height EXCEPT ![req.rack] = IF same THEN height[req.rack] ELSE req.height]
  BY DEF WriteHeight
<1>2. CASE same
  BY <1>1, <1>2 DEF TypeOK
<1>3. CASE ~same
  BY <1>1, <1>3
<1>. QED BY <1>2, <1>3

LEMMA RackSerial ==
    ASSUME Serial, SerialInv, TypeOK', [Next]_vars, NEW q \in Requests, RackStep(q)
    PROVE  SerialInv'
<1> USE DEF Continue
<1>. TypeOK /\ Sound(node, height)
  BY DEF SerialInv, References
<1>1. ASSUME NEW r \in RackIds, NEW h \in Us, CreateRack(q, r, h) PROVE SerialInv'
  <2> DEFINE req == [at |-> "insertRack", rack |-> r, height |-> h]
  <2>1. requests' = [requests EXCEPT ![q] = req] /\ CanStart(q) /\ UNCHANGED <<node, height>>
    BY <1>1 DEF CreateRack
  <2>2. ASSUME requests'[q] = req PROVE Checked(q)'
    BY <1>1, <2>1, <2>2 DEF Checked, Inserting, At, CreateRack, FreshRack
  <2>. QED BY <2>1, <2>2, OneStep
<1>2. ASSUME NEW r \in RackIds, NEW h \in Us, ResizeRack(q, r, h) PROVE SerialInv'
  <2> DEFINE req == [at |-> "resize", rack |-> r, loaded |-> height[r], height |-> h]
  <2>1. requests' = [requests EXCEPT ![q] = req] /\ CanStart(q) /\ UNCHANGED <<node, height>>
    BY <1>2 DEF ResizeRack
  <2>2. ASSUME requests'[q] = req PROVE Checked(q)'
    BY <1>2, <2>1, <2>2 DEF Checked, Inserting, At, ResizeRack, ResizeChecked
  <2>. QED BY <2>1, <2>2, OneStep
<1>3. ASSUME NEW r \in RackIds, NEW recurse \in BOOLEAN, DestroyRack(q, r, recurse)
      PROVE SerialInv'
  <2> DEFINE req == [at |-> "loadRack", rack |-> r, recurse |-> recurse, doomed |-> {}]
  <2>1. requests' = [requests EXCEPT ![q] = req] /\ CanStart(q) /\ UNCHANGED <<node, height>>
    BY <1>3 DEF DestroyRack
  <2>2. ASSUME requests'[q] = req PROVE Checked(q)'
    BY <2>2 DEF Checked, Inserting, At
  <2>. QED BY <2>1, <2>2, OneStep
<1>4. CASE InsertRack(q)
  <2> DEFINE r == requests[q].rack
  <2>1. r \in RackIds /\ height[r] = 0
    BY <1>4, AtRequest, RequestShapes DEF InsertRack, RackRequest, SerialInv, Checked
  <2>2. \A n \in Live(node) : node[n].rack # r
    BY <2>1 DEF SerialInv, References, ReferencesHold
  <2>3. \A n \in Live(node) : node[n].rack \in RackIds
    BY LayoutType DEF TypeOK, Row
  <2>4. Sound(node, height)'
    <3>1. \A n \in Live(node) : height'[node[n].rack] = height[node[n].rack]
      BY <1>4, <2>2, <2>3 DEF InsertRack, TypeOK
    <3>2. node' = node
      BY <1>4 DEF InsertRack
    <3>3. Sound(node, height')
      BY <3>1, FewerSound
    <3>. QED BY <3>2, <3>3
  <2>. QED BY <1>4, <2>4, FinishStep DEF InsertRack, At
<1>5. CASE WriteHeight(q)
  <2> DEFINE r == requests[q].rack
             h == requests[q].height
  <2>1. r \in RackIds
    BY <1>5, AtRequest, RequestShapes DEF WriteHeight, ResizeRequest
  <2>2. ResizeChecked(requests[q])
    BY <1>5 DEF WriteHeight, SerialInv, Checked
  <2>3. height' = height \/ height' = [height EXCEPT ![r] = h]
    BY <1>5, HeightWritten
  <2>4. \A n \in Live(node) : node[n].rack \in RackIds
    BY LayoutType DEF TypeOK, Row
  <2>5. node' = node
    BY <1>5 DEF WriteHeight
  <2>6. Within(node, height)'
    BY <2>1, <2>2, <2>3, <2>4, <2>5
       DEF Within, Sound, ResizeChecked, Accommodates, In, TypeOK
  <2>7. Sound(node, height)'
    BY <2>5, <2>6 DEF Sound
  <2>. QED BY <1>5, <2>7, FinishStep DEF WriteHeight, At
<1>6. CASE LoadRack(q)
  <2> DEFINE req == [requests[q] EXCEPT !.at = "deleteRack",
                                        !.doomed = In(node, requests[q].rack)]
  <2>1. requests' = [requests EXCEPT ![q] = req] /\ requests[q] # Idle
          /\ UNCHANGED <<node, height>>
    BY <1>6 DEF LoadRack, At
  <2>2. requests[q] \in DestroyRackRequest
    BY <1>6, AtRequest, RequestShapes DEF LoadRack
  <2>3. req.at = "deleteRack" /\ req.rack = requests[q].rack
          /\ req.doomed = In(node, requests[q].rack)
    BY <2>2 DEF DestroyRackRequest
  <2>4. ASSUME requests'[q] = req PROVE Checked(q)'
    <3>1. In(node, requests[q].rack)' = In(node', requests'[q].rack)
      OBVIOUS
    <3>. HIDE DEF req
    <3>. QED BY <2>1, <2>3, <2>4 DEF Checked, Inserting, At
  <2>. QED BY <2>1, <2>4, OneStep
<1>7. CASE DeleteRack(q)
  <2> DEFINE req == requests[q]
  <2>1. req.rack \in RackIds
    BY <1>7, AtRequest, RequestShapes DEF DeleteRack, DestroyRackRequest
  <2>2. CASE UNCHANGED <<height, node>>
    BY <1>7, <2>2, FinishStep DEF DeleteRack, At
  <2>3. CASE /\ In(node, req.rack) \subseteq req.doomed
             /\ node' = Without(node, req.doomed)
             /\ height' = [height EXCEPT ![req.rack] = 0]
    <3>1. \A n \in Live(node') : n \in Live(node) /\ node'[n] = node[n] /\ node[n].rack # req.rack
      BY <2>3 DEF Without, Live, In
    <3>2. \A n \in Live(node) : node[n].rack \in RackIds
      BY LayoutType DEF TypeOK, Row
    <3>3. \A n \in Live(node') : height'[node[n].rack] = height[node[n].rack]
      BY <2>1, <2>3, <3>1, <3>2 DEF TypeOK
    <3>4. Sound(node', height')
      BY <3>1, <3>3, FewerSound
    <3>. QED BY <1>7, <3>4, FinishStep DEF DeleteRack, At
  <2>. QED BY <1>7, <2>2, <2>3 DEF DeleteRack
<1>. QED BY <1>1, <1>2, <1>3, <1>4, <1>5, <1>6, <1>7 DEF RackStep

LEMMA TemplateSerial ==
    ASSUME Serial, SerialInv, TypeOK', [Next]_vars, NEW q \in Requests, TemplateStep(q)
    PROVE  SerialInv'
<1> USE DEF Continue
<1>. TypeOK /\ Sound(node, height)
  BY DEF SerialInv, References
<1>1. ASSUME NEW t \in TemplateIds, NEW recurse \in BOOLEAN, DestroyTemplate(q, t, recurse)
      PROVE SerialInv'
  <2> DEFINE req == [at |-> "loadTemplate", template |-> t, recurse |-> recurse, doomed |-> {}]
  <2>1. requests' = [requests EXCEPT ![q] = req] /\ CanStart(q) /\ UNCHANGED <<node, height>>
    BY <1>1 DEF DestroyTemplate
  <2>2. ASSUME requests'[q] = req PROVE Checked(q)'
    BY <2>2 DEF Checked, Inserting, At
  <2>. QED BY <2>1, <2>2, OneStep
<1>2. CASE LoadTemplate(q)
  <2> DEFINE req == [requests[q] EXCEPT !.at = "deleteTemplate",
                                        !.doomed = From(node, requests[q].template)]
  <2>1. requests' = [requests EXCEPT ![q] = req] /\ requests[q] # Idle
          /\ UNCHANGED <<node, height>>
    BY <1>2 DEF LoadTemplate, At
  <2>2. requests[q] \in DestroyTemplateRequest
    BY <1>2, AtRequest, RequestShapes DEF LoadTemplate
  <2>3. req.at = "deleteTemplate" /\ req.template = requests[q].template
          /\ req.doomed = From(node, requests[q].template)
    BY <2>2 DEF DestroyTemplateRequest
  <2>4. ASSUME requests'[q] = req PROVE Checked(q)'
    <3>. HIDE DEF req
    <3>. QED BY <2>1, <2>3, <2>4 DEF Checked, Inserting, At
  <2>. QED BY <2>1, <2>4, OneStep
<1>3. CASE DeleteTemplate(q)
  <2> DEFINE req == requests[q]
  <2>1. \A n \in Live(node') : n \in Live(node) /\ node'[n] = node[n]
    BY <1>3 DEF DeleteTemplate, Without, Live
  <2>2. height' = height
    BY <1>3 DEF DeleteTemplate
  <2>3. Sound(node', height')
    BY <2>1, <2>2, FewerSound
  <2>. QED BY <1>3, <2>3, FinishStep DEF DeleteTemplate, At
<1>. QED BY <1>1, <1>2, <1>3 DEF TemplateStep

LEMMA DeviceSerial ==
    ASSUME Serial, SerialInv, TypeOK', [Next]_vars, NEW q \in Requests, DeviceStep(q)
    PROVE  SerialInv'
<1> USE DEF Continue
<1>. TypeOK /\ Sound(node, height) /\ node \in Layout
  BY DEF SerialInv, References, TypeOK
<1>1. ASSUME NEW n \in NodeIds, NEW row \in Row, CreateNode(q, n, row) PROVE SerialInv'
  <2> DEFINE req == [at |-> "insertDevice", node |-> n, row |-> row, height |-> height[row.rack]]
  <2>1. requests' = [requests EXCEPT ![q] = req] /\ CanStart(q) /\ UNCHANGED <<node, height>>
    BY <1>1 DEF CreateNode
  <2>2. ASSUME requests'[q] = req PROVE Checked(q)'
    BY <1>1, <2>1, <2>2 DEF Checked, Inserting, At, CreateNode, FreshNode, InsertChecked
  <2>. QED BY <2>1, <2>2, OneStep
<1>2. CASE InsertDevice(q)
  <2> DEFINE req == [requests[q] EXCEPT !.at = "commitNode"]
  <2>1. requests[q] # Idle /\ Inserting(q) /\ UNCHANGED <<node, height>>
    BY <1>2 DEF InsertDevice, At, Inserting
  <2>2. CASE Finish(q)
    BY <2>1, <2>2, FinishStep
  <2>3. CASE /\ NameIsFree(node, requests[q].node, requests[q].row.rack, requests[q].row.name)
             /\ requests' = [requests EXCEPT ![q] = req]
    <3>1. requests[q] \in CreateRequest /\ InsertChecked(requests[q])
      BY <2>1, InsertingShape DEF SerialInv, Checked
    <3>2. /\ req.at = "commitNode" /\ req.node = requests[q].node
          /\ req.row = requests[q].row /\ req.height = requests[q].height
      BY <3>1 DEF CreateRequest
    <3>3. ASSUME requests'[q] = req PROVE Checked(q)'
      <4>. HIDE DEF req
      <4>. QED BY <2>1, <2>3, <3>1, <3>2, <3>3 DEF Checked, Inserting, At, InsertChecked
    <3>. QED BY <2>1, <2>3, <3>3, OneStep
  <2>. QED BY <1>2, <2>2, <2>3 DEF InsertDevice
<1>3. CASE CommitNode(q)
  <2> DEFINE req == requests[q]
  <2>1. req \in CreateRequest /\ req.node \in NodeIds /\ req.row \in Row
    BY <1>3, AtRequest, RequestShapes DEF CommitNode, CreateRequest
  <2>2. InsertChecked(req) /\ req.at = "commitNode"
    BY <1>3 DEF CommitNode, At, Inserting, SerialInv, Checked
  <2>3. Sound([node EXCEPT ![req.node] = req.row], height)
    BY <2>1, <2>2, PlacedSound DEF InsertChecked, SamePlace
  <2>. QED BY <1>3, <2>3, FinishStep DEF CommitNode, At
<1>4. ASSUME NEW n \in NodeIds, NEW nm \in Names, NEW moves \in BOOLEAN, NEW to \in Position,
             UpdateDevice(q, n, nm, moves, to)
      PROVE SerialInv'
  <2> DEFINE free == NameIsFree(node, n, node[n].rack, nm)
             req == [at |-> IF free THEN "writeName" ELSE "checkPlace", node |-> n,
                     loaded |-> node[n], name |-> nm, moves |-> moves, to |-> to]
  <2>1. requests' = [requests EXCEPT ![q] = req] /\ CanStart(q) /\ UNCHANGED <<node, height>>
    BY <1>4 DEF UpdateDevice
  <2>2. node[n] # NoNode
    BY <1>4 DEF UpdateDevice, Live
  <2>3. /\ req.at \in {"writeName", "checkPlace"} /\ (req.at = "writeName" => free)
        /\ req.node = n /\ req.loaded = node[n] /\ req.name = nm
    OBVIOUS
  <2>4. ASSUME requests'[q] = req PROVE Checked(q)'
    <3>. HIDE DEF req
    <3>. QED BY <2>1, <2>2, <2>3, <2>4 DEF Checked, Inserting, At, RenameChecked, SamePlace
  <2>. QED BY <2>1, <2>4, OneStep
<1>5. ASSUME NEW n \in NodeIds, NEW to \in Position, MoveChassis(q, n, to) PROVE SerialInv'
  <2> DEFINE req == Move(n, node[n], to)
  <2>1. requests' = [requests EXCEPT ![q] = req] /\ CanStart(q) /\ UNCHANGED <<node, height>>
    BY <1>5 DEF MoveChassis
  <2>2. ASSUME requests'[q] = req PROVE Checked(q)'
    BY <1>5, <2>1, <2>2
       DEF Checked, Inserting, At, MoveChassis, MoveChecked, Move, SamePlace, Live
  <2>. QED BY <2>1, <2>2, OneStep
<1>6. CASE WriteName(q)
  <2> DEFINE req == requests[q]
             next == [req EXCEPT !.at = "checkPlace"]
             row == [req.loaded EXCEPT !.name = req.name]
  <2>1. req \in UpdateRequest /\ req.node \in NodeIds /\ req.loaded \in Row
    BY <1>6, AtRequest, RequestShapes DEF WriteName, UpdateRequest
  <2>2. RenameChecked(req) /\ req # Idle /\ height' = height /\ req.at = "writeName"
    BY <1>6 DEF WriteName, At, SerialInv, Checked
  <2>3. row \in Row /\ SamePlace(row, req.loaded) /\ row.name = req.name
    BY <2>1 DEF UpdateRequest, Row, SamePlace
  <2>4. [node EXCEPT ![req.node].name = req.name] = [node EXCEPT ![req.node] = row]
    BY <2>2 DEF RenameChecked
  <2>5. node' = node \/ node' = [node EXCEPT ![req.node] = row]
    BY <1>6, <2>4 DEF WriteName
  <2>6. Sound(node', height')
    <3>1. SamePlace(row, node[req.node]) /\ NameIsFree(node, req.node, row.rack, row.name)
            /\ req.node \in Live(node)
      BY <2>1, <2>2, <2>3 DEF RenameChecked, SamePlace, Live
    <3>. QED BY <2>2, <2>3, <2>5, <3>1, RenamedSound
  <2>7. CASE Finish(q)
    BY <2>2, <2>6, <2>7, FinishStep
  <2>8. CASE requests' = [requests EXCEPT ![q] = next]
    <3>1. next.at = "checkPlace" /\ next.node = req.node /\ next.loaded = req.loaded
      BY <2>1 DEF UpdateRequest
    <3>2. node'[req.node] # NoNode /\ SamePlace(node'[req.node], req.loaded)
      BY <2>1, <2>2, <2>3, <2>5, NoNodeAssumption DEF RenameChecked, Layout
    <3>3. ASSUME requests'[q] = next PROVE Checked(q)'
      <4>. HIDE DEF next
      <4>. QED BY <3>1, <3>2, <3>3 DEF Checked, Inserting, At, RenameChecked
    <3>. QED BY <2>2, <2>6, <2>8, <3>3, OneStep
  <2>. QED BY <1>6, <2>7, <2>8 DEF WriteName
<1>7. CASE CheckPlace(q)
  <2> DEFINE req == requests[q]
             next == Move(req.node, req.loaded, req.to)
  <2>1. RenameChecked(req) /\ req # Idle /\ UNCHANGED <<node, height>>
    BY <1>7 DEF CheckPlace, At, SerialInv, Checked
  <2>2. CASE Finish(q)
    BY <2>1, <2>2, FinishStep
  <2>3. CASE /\ requests' = [requests EXCEPT ![q] = next]
             /\ LocationIsValid(node, req.node, Placed(req.loaded, req.to),
                                height[req.loaded.rack])
    <3>1. /\ next.at = "writePlace" /\ next.node = req.node /\ next.loaded = req.loaded
          /\ next.to = req.to /\ next.height = height[req.loaded.rack]
      BY DEF Move
    <3>2. ASSUME requests'[q] = next PROVE Checked(q)'
      <4>. HIDE DEF next
      <4>. QED BY <2>1, <2>3, <3>1, <3>2
           DEF Checked, Inserting, At, MoveChecked, RenameChecked
    <3>. QED BY <2>1, <2>3, <3>2, OneStep
  <2>. QED BY <1>7, <2>2, <2>3 DEF CheckPlace
<1>8. CASE WritePlace(q)
  <2> DEFINE req == requests[q]
             row == Written(node[req.node], req.loaded, req.to)
  <2>1. req \in MoveRequest /\ req.node \in NodeIds /\ req.loaded \in Row /\ req.to \in Position
    BY <1>8, AtRequest, RequestShapes DEF WritePlace, MoveRequest
  <2>2. MoveChecked(req) /\ req # Idle /\ height' = height
    BY <1>8 DEF WritePlace, At, SerialInv, Checked
  <2>3. node[req.node] \in Row
    BY <2>1, <2>2, LayoutType DEF MoveChecked, Live
  <2>4. row \in Row /\ Placed(req.loaded, req.to) \in Row
          /\ SamePlace(row, Placed(req.loaded, req.to))
    BY <2>1, <2>2, <2>3 DEF MoveChecked, SamePlace, Written, Placed, Row, Position
  <2>5. row.rack = node[req.node].rack /\ row.name = node[req.node].name
    BY <2>1, <2>3, WrittenType
  <2>6. node' = node \/ node' = [node EXCEPT ![req.node] = row]
    BY <1>8 DEF WritePlace
  <2>7. Sound([node EXCEPT ![req.node] = row], height)
    <3>1. LocationIsValid(node, req.node, Placed(req.loaded, req.to), height[row.rack])
      BY <2>2, <2>5 DEF MoveChecked, SamePlace
    <3>2. node[req.node] # NoNode
      BY <2>2 DEF MoveChecked
    <3>. HIDE DEF row, req
    <3>. QED BY <2>1, <2>4, <2>5, <3>1, <3>2, PlacedSound
  <2>. QED BY <1>8, <2>2, <2>6, <2>7, FinishStep DEF WritePlace
<1>. QED BY <1>1, <1>2, <1>3, <1>4, <1>5, <1>6, <1>7, <1>8 DEF DeviceStep

LEMMA NextSerial ==
    ASSUME Serial, SerialInv, [Next]_vars
    PROVE  SerialInv'
<1>. TypeOK /\ TypeOK' /\ References'
  BY NextTypes, NextReferences DEF SerialInv, References
<1>1. ASSUME NEW q \in Requests, Abort(q) PROVE SerialInv'
  BY <1>1, FinishStep DEF Abort, SerialInv
<1>2. ASSUME NEW n \in NodeIds, DestroyDevice(n) PROVE SerialInv'
  <2>1. \A m \in Live(node') : m \in Live(node) /\ node'[m] = node[m]
    BY <1>2 DEF DestroyDevice, Live, TypeOK, Layout
  <2>2. Sound(node', height')
    BY <1>2, <2>1, FewerSound DEF DestroyDevice, SerialInv
  <2>3. \A q \in Requests : requests'[q] = Idle
    BY <1>2 DEF DestroyDevice
  <2>. QED BY <2>2, <2>3, IdleIsChecked DEF SerialInv, OneRequest
<1>3. ASSUME UNCHANGED <<height, node, requests>> PROVE SerialInv'
  <2>1. \A q \in Requests : Checked(q)'
    BY <1>3 DEF SerialInv, Checked, Inserting, At, InsertChecked, ResizeChecked, RenameChecked,
                MoveChecked
  <2>. QED BY <1>3, <2>1 DEF SerialInv, OneRequest
<1>. QED BY <1>1, <1>2, <1>3, RackSerial, TemplateSerial, DeviceSerial
     DEF Next, vars, CreateTemplate

LEMMA InitSerial == ASSUME Init PROVE SerialInv
<1>1. References
  BY HeightAssumption
     DEF Init, References, TypeOK, Layout, ReferencesHold, InsertsRefer, Inserting, At, Live
<1>2. Sound(node, height)
  BY DEF Init, Sound, Within, Apart, Distinct, Live
<1>3. OneRequest /\ \A q \in Requests : Checked(q)
  BY DEF Init, OneRequest, Checked, Inserting, At
<1>. QED BY <1>1, <1>2, <1>3 DEF SerialInv

(* When the requests come one at a time, every device stays within its     *)
(* rack, no two devices that share a facing start at the same U, and names *)
(* are unique in a rack: the validations of Location, HwRack and Device    *)
(* are enough, whatever the order of the requests.                         *)
THEOREM SerialSafety ==
    ASSUME Serial PROVE Spec => [](FitsRack /\ NoSharedStart /\ NamesUnique)
<1>1. Init => SerialInv
  BY InitSerial
<1>2. SerialInv /\ [Next]_vars => SerialInv'
  BY NextSerial
<1>3. SerialInv => FitsRack /\ NoSharedStart /\ NamesUnique
  BY DEF SerialInv, Sound, Within, Apart, Distinct, FitsRack, NoSharedStart, NamesUnique
<1>. QED BY <1>1, <1>2, <1>3, PTL DEF Spec

-----------------------------------------------------------------------------
(* The registry. *)

(* The instance's copies of RackLayout's operators are RackLayout's. *)
LEMMA SameOperators ==
    /\ Registry!Us = Us /\ Registry!Row = Row
    /\ \A layout, r : Registry!In(layout, r) = In(layout, r)
    /\ \A layout : Registry!Live(layout) = Live(layout)
    /\ \A layout, S : Registry!Without(layout, S) = Without(layout, S)
    /\ \A layout, r, h : Registry!Accommodates(layout, r, h) <=> Accommodates(layout, r, h)
    /\ \A layout, n, r, nm : Registry!NameIsFree(layout, n, r, nm) <=> NameIsFree(layout, n, r, nm)
    /\ \A layout, n, row, h : Registry!LocationIsValid(layout, n, row, h)
                                <=> LocationIsValid(layout, n, row, h)
<1>1. Registry!Us = Us /\ Registry!Row = Row
  BY DEF Registry!Us, Us, Registry!Row, Row, Registry!Facings, Facings
<1>2. \A layout : Registry!Live(layout) = Live(layout)
  BY DEF Registry!Live, Live
<1>3. \A layout, r : Registry!In(layout, r) = In(layout, r)
  BY <1>2 DEF Registry!In, In
<1>4. \A layout, S : Registry!Without(layout, S) = Without(layout, S)
  BY DEF Registry!Without, Without
<1>5. \A row : Registry!EndU(row) = EndU(row) /\ Registry!FacingsOf(row) = FacingsOf(row)
  BY DEF Registry!EndU, EndU, Registry!FacingsOf, FacingsOf, Registry!FullDepth, FullDepth,
         Registry!Facings, Facings, Registry!RackDepth, RackDepth
<1>6. \A row, u, facings : Registry!OccupiesU(row, u, facings) <=> OccupiesU(row, u, facings)
  BY <1>5 DEF Registry!OccupiesU, OccupiesU, Registry!FullDepth, FullDepth,
              Registry!RackDepth, RackDepth
<1>7. \A layout, r, u, facings, exclude :
        Registry!UIsEmpty(layout, r, u, facings, exclude) <=> UIsEmpty(layout, r, u, facings, exclude)
  BY <1>3, <1>6 DEF Registry!UIsEmpty, UIsEmpty
<1>8. \A layout, n, row, h :
        Registry!LocationIsValid(layout, n, row, h) <=> LocationIsValid(layout, n, row, h)
  BY <1>5, <1>7 DEF Registry!LocationIsValid, LocationIsValid
<1>9. \A layout, r, h : Registry!Accommodates(layout, r, h) <=> Accommodates(layout, r, h)
  BY <1>3, <1>5 DEF Registry!Accommodates, Accommodates
<1>10. \A layout, n, r, nm :
         Registry!NameIsFree(layout, n, r, nm) <=> NameIsFree(layout, n, r, nm)
  BY <1>3 DEF Registry!NameIsFree, NameIsFree
<1>. QED BY <1>1, <1>2, <1>3, <1>4, <1>8, <1>9, <1>10

LEMMA RackImplements ==
    ASSUME Serial, SerialInv, NEW q \in Requests, RackStep(q)
    PROVE  [Registry!Next]_Registry!registryVars
<1> USE DEF Registry!Next, Registry!registryVars
<1>1. ASSUME UNCHANGED <<height, node>> PROVE [Registry!Next]_Registry!registryVars
  BY <1>1
<1>2. CASE InsertRack(q)
  <2> DEFINE req == requests[q]
  <2>1. req \in RackRequest /\ height[req.rack] = 0
    BY <1>2, AtRequest, RequestShapes DEF InsertRack, SerialInv, References, Checked
  <2>2. req.rack \in RackIds /\ req.height \in Us
    BY <2>1 DEF RackRequest
  <2>3. Accommodates(node, req.rack, req.height)
    BY <2>1 DEF SerialInv, References, ReferencesHold, Accommodates, In
  <2>4. Registry!SetHeight(req.rack, req.height)
    BY <1>2, <2>3, SameOperators DEF InsertRack, Registry!SetHeight
  <2>. QED BY <2>2, <2>4, SameOperators
<1>3. CASE WriteHeight(q)
  <2> DEFINE req == requests[q]
  <2>1. req \in ResizeRequest
    BY <1>3, AtRequest, RequestShapes DEF WriteHeight, SerialInv, References
  <2>2. req.rack \in RackIds /\ req.height \in Us
    BY <2>1 DEF ResizeRequest
  <2>3. ResizeChecked(req) /\ node' = node
    BY <1>3 DEF WriteHeight, SerialInv, Checked
  <2>4. height' = height \/ height' = [height EXCEPT ![req.rack] = req.height]
    BY <1>3, HeightWritten DEF SerialInv, References
  <2>5. height' = height \/ Registry!SetHeight(req.rack, req.height)
    BY <2>3, <2>4, SameOperators DEF Registry!SetHeight, ResizeChecked
  <2>. QED BY <2>2, <2>3, <2>5, SameOperators
<1>4. CASE DeleteRack(q)
  <2> DEFINE req == requests[q]
  <2>1. req.rack \in RackIds
    BY <1>4, AtRequest, RequestShapes
       DEF DeleteRack, DestroyRackRequest, SerialInv, References
  <2>2. req.doomed = In(node, req.rack)
    BY <1>4 DEF DeleteRack, SerialInv, Checked
  <2>3. Registry!Demolish(req.rack)
    BY <1>4, <2>2, SameOperators DEF DeleteRack, Registry!Demolish
  <2>. QED BY <2>1, <2>3
<1>. QED BY <1>1, <1>2, <1>3, <1>4
     DEF RackStep, CreateRack, ResizeRack, DestroyRack, LoadRack

LEMMA TemplateImplements ==
    ASSUME Serial, SerialInv, NEW q \in Requests, TemplateStep(q)
    PROVE  [Registry!Next]_Registry!registryVars
<1> USE DEF Registry!Next, Registry!registryVars
<1>1. CASE DeleteTemplate(q)
  <2> DEFINE req == requests[q]
  <2>1. req.doomed = From(node, req.template) /\ height' = height
    BY <1>1 DEF DeleteTemplate, SerialInv, Checked
  <2>2. req.doomed \in SUBSET NodeIds /\ req.doomed \subseteq Live(node)
    BY <2>1 DEF From, Live
  <2>3. node' = node \/ Registry!Unmount(req.doomed)
    BY <1>1, <2>1, <2>2, SameOperators DEF DeleteTemplate, Registry!Unmount
  <2>. QED BY <2>1, <2>2, <2>3
<1>2. ASSUME UNCHANGED <<height, node>> PROVE [Registry!Next]_Registry!registryVars
  BY <1>2
<1>. QED BY <1>1, <1>2 DEF TemplateStep, DestroyTemplate, LoadTemplate

LEMMA DeviceImplements ==
    ASSUME Serial, SerialInv, NEW q \in Requests, DeviceStep(q)
    PROVE  [Registry!Next]_Registry!registryVars
<1> USE DEF Registry!Next, Registry!registryVars
<1>. TypeOK /\ node \in Layout
  BY DEF SerialInv, References, TypeOK
<1>1. ASSUME UNCHANGED <<height, node>> PROVE [Registry!Next]_Registry!registryVars
  BY <1>1
<1>2. CASE CommitNode(q)
  <2> DEFINE req == requests[q]
  <2>1. req \in CreateRequest /\ req.node \in NodeIds /\ req.row \in Row /\ req.height \in Us
    BY <1>2, AtRequest, RequestShapes DEF CommitNode, CreateRequest
  <2>2. InsertChecked(req) /\ req.at = "commitNode"
    BY <1>2 DEF CommitNode, At, Inserting, SerialInv, Checked
  <2>3. height[req.row.rack] # 0
    BY <2>1, <2>2, HeightAssumption DEF InsertChecked, Us
  <2>4. Registry!Mount(req.node, req.row)
    BY <1>2, <2>2, <2>3, SameOperators DEF CommitNode, InsertChecked, Registry!Mount
  <2>. QED BY <2>1, <2>4, SameOperators
<1>3. CASE WriteName(q)
  <2> DEFINE req == requests[q]
             n == req.node
             row == [node[n] EXCEPT !.name = req.name]
  <2>1. req \in UpdateRequest /\ n \in NodeIds
    BY <1>3, AtRequest, RequestShapes DEF WriteName, UpdateRequest
  <2>2. node[n] # NoNode /\ NameIsFree(node, n, req.loaded.rack, req.name)
          /\ node[n] = req.loaded /\ height' = height
    BY <1>3 DEF WriteName, At, SerialInv, Checked, RenameChecked
  <2>3. node' = node \/ node' = [node EXCEPT ![n] = row]
    BY <1>3 DEF WriteName
  <2>4. node[n] \in Row
    BY <2>1, <2>2, LayoutType DEF Live
  <2>5. /\ row \in Row /\ row.rack = node[n].rack /\ row.template = node[n].template
        /\ row.name = req.name /\ [row EXCEPT !.name = node[n].name] = node[n]
    BY <2>1, <2>4 DEF UpdateRequest, Row
  <2>6. node' = node \/ Registry!Shift(n, row)
    <3>. HIDE DEF row
    <3>. QED BY <2>2, <2>3, <2>5, SameOperators DEF Registry!Shift
  <2>. HIDE DEF row
  <2>. QED BY <2>1, <2>2, <2>5, <2>6, SameOperators
<1>4. CASE WritePlace(q)
  <2> DEFINE req == requests[q]
             n == req.node
             row == Written(node[n], req.loaded, req.to)
             placed == Placed(req.loaded, req.to)
  <2>1. req \in MoveRequest /\ n \in NodeIds /\ req.loaded \in Row /\ req.to \in Position
    BY <1>4, AtRequest, RequestShapes DEF WritePlace, MoveRequest
  <2>2. MoveChecked(req) /\ height' = height
    BY <1>4 DEF WritePlace, SerialInv, Checked
  <2>3. node[n] \in Row
    BY <2>1, <2>2, LayoutType DEF MoveChecked, Live
  <2>4. SamePlace(row, placed)
    BY <2>1, <2>2, <2>3 DEF MoveChecked, SamePlace, Written, Placed, Row, Position
  <2>5. row \in Row /\ row.rack = node[n].rack /\ row.template = node[n].template
          /\ row.name = node[n].name
    BY <2>1, <2>3, WrittenType
  <2>6. node' = node \/ node' = [node EXCEPT ![n] = row]
    BY <1>4 DEF WritePlace
  <2>7. LocationIsValid(node, n, row, height[row.rack])
    <3>1. placed.rack = req.loaded.rack
      BY <2>1 DEF Placed, Row
    <3>2. LocationIsValid(node, n, placed, height[placed.rack])
      BY <2>2, <3>1 DEF MoveChecked
    <3>. HIDE DEF row, placed
    <3>. QED BY <2>4, <3>2, SameGeometry DEF LocationIsValid
  <2>8. node' = node \/ Registry!Shift(n, row)
    <3>. HIDE DEF row
    <3>. QED BY <2>2, <2>5, <2>6, <2>7, SameOperators DEF Registry!Shift, MoveChecked
  <2>. HIDE DEF row
  <2>. QED BY <2>1, <2>2, <2>5, <2>8, SameOperators
<1>. QED BY <1>1, <1>2, <1>3, <1>4
     DEF DeviceStep, CreateNode, InsertDevice, UpdateDevice, MoveChassis, CheckPlace

(* When the requests come one at a time, the transactions, callbacks and   *)
(* controllers together behave as the atomic registry: each request is one *)
(* of its steps, or none.                                                  *)
THEOREM SerialImplements == ASSUME Serial PROVE Spec => ImplementsRegistry
<1>1. Init => SerialInv /\ Registry!Init
  BY InitSerial DEF Init, Registry!Init
<1>2. SerialInv /\ [Next]_vars => SerialInv'
  BY NextSerial
<1>3. ASSUME SerialInv, [Next]_vars PROVE [Registry!Next]_Registry!registryVars
  <2>1. ASSUME NEW n \in NodeIds, DestroyDevice(n) PROVE Registry!Next
    <3>1. {n} \in SUBSET NodeIds /\ {n} \subseteq Live(node)
      BY <2>1 DEF DestroyDevice
    <3>2. node' = Without(node, {n}) /\ height' = height
      <4>1. node \in [NodeIds -> Row \cup {NoNode}]
        BY <1>3 DEF SerialInv, References, TypeOK, Layout
      <4>2. node' = [node EXCEPT ![n] = NoNode] /\ height' = height
        BY <2>1 DEF DestroyDevice
      <4>3. Without(node, {n}) = [m \in NodeIds |-> IF m = n THEN NoNode ELSE node[m]]
        BY DEF Without
      <4>. QED BY <4>1, <4>2, <4>3
    <3>3. Registry!Unmount({n})
      BY <3>1, <3>2, SameOperators DEF Registry!Unmount
    <3>. QED BY <3>1, <3>3 DEF Registry!Next
  <2>2. ASSUME UNCHANGED <<height, node>> PROVE [Registry!Next]_Registry!registryVars
    BY <2>2 DEF Registry!registryVars
  <2>. QED BY <1>3, <2>1, <2>2, RackImplements, TemplateImplements, DeviceImplements
       DEF Next, vars, Abort, CreateTemplate
<1>. QED BY <1>1, <1>2, <1>3, PTL DEF Spec, ImplementsRegistry, Registry!Spec

-----------------------------------------------------------------------------
(* With one request at a time no two devices of a rack start at the same U *)
(* on a facing both use: the lookup of Location#target_u_is_empty.         *)
COROLLARY StartsStayApart == ASSUME Serial PROVE Spec => []NoSharedStart
BY SerialSafety, PTL

(* With one request at a time the names of the devices in a rack differ:   *)
(* the lookup of Device#name_validator.                                    *)
COROLLARY NamesStayUnique == ASSUME Serial PROVE Spec => []NamesUnique
BY SerialSafety, PTL

(* A lookup of start_u alone is enough for devices of one U; only a taller *)
(* template can break NoOverlap.                                            *)
THEOREM OneUnitDevicesDoNotOverlap ==
    ASSUME Serial, \A t \in TemplateIds : TemplateHeight[t] = 1
    PROVE  Spec => []NoOverlap
<1>1. Init => SerialInv
  BY InitSerial
<1>2. SerialInv /\ [Next]_vars => SerialInv'
  BY NextSerial
<1>3. ASSUME SerialInv PROVE NoOverlap
  <2>1. ASSUME NEW n \in Live(node), NEW m \in Live(node), Rivals(node, n, m),
               NEW u \in node[n].start .. EndU(node[n])
        PROVE  ~OccupiesU(node[m], u, FacingsOf(node[n]))
    <3>1. node[n] \in Row /\ node[m] \in Row
      BY <1>3, LayoutType DEF SerialInv, References, TypeOK
    <3>2. /\ node[n].start \in Nat /\ EndU(node[n]) = node[n].start
          /\ node[m].start \in Nat /\ EndU(node[m]) = node[m].start
      BY <3>1, HeightAssumption DEF EndU, Row, Us
    <3>3. node[n].start # node[m].start
      BY <1>3, <2>1 DEF SerialInv, Sound, Apart
    <3>. QED BY <3>2, <3>3 DEF OccupiesU
  <2>. QED BY <2>1 DEF NoOverlap
<1>. QED BY <1>1, <1>2, <1>3, PTL DEF Spec
===============================================================================
