---------------------------- MODULE RackOccupancy ----------------------------
(***************************************************************************)
(* Which device sits where: racks, device templates and devices, and the   *)
(* HTTP requests that create, move, resize and destroy them.               *)
(*                                                                         *)
(* The web server runs requests on several threads, each on its own        *)
(* PostgreSQL transaction (READ COMMITTED, no row is locked by the code).  *)
(* Every validation is therefore a read of what is committed NOW, and the  *)
(* write it allows is a later step.  requests[q] is what thread q holds    *)
(* between the two.  The foreign keys of db/schema.rb are the only         *)
(* constraints that the database itself enforces.                          *)
(***************************************************************************)
EXTENDS RackLayout

CONSTANTS
    Requests,      \* threads of the web server
    RackLimit,     \* rack_limit of the licence file
    DeviceLimit,   \* device_limit + nrad_limit of the licence file
    Serial,        \* TRUE: one request at a time; FALSE: all threads at once
    Idle           \* requests[q] = Idle: thread q serves no request

(* What a thread holds between two of its steps, by the step it is at. *)
CreateRequest == [at : {"insertDevice", "commitNode"}, node : NodeIds, row : Row, height : Us]
UpdateRequest == [at : {"writeName", "checkPlace"}, node : NodeIds, loaded : Row,
                  name : Names, moves : BOOLEAN, to : Position]
MoveRequest == [at : {"writePlace"}, node : NodeIds, loaded : Row, to : Position, height : Us]
RackRequest == [at : {"insertRack"}, rack : RackIds, height : Us]
ResizeRequest == [at : {"resize"}, rack : RackIds, loaded : Us, height : Us]
DestroyRackRequest == [at : {"loadRack", "deleteRack"}, rack : RackIds, recurse : BOOLEAN,
                       doomed : SUBSET NodeIds]
DestroyTemplateRequest == [at : {"loadTemplate", "deleteTemplate"}, template : TemplateIds,
                           recurse : BOOLEAN, doomed : SUBSET NodeIds]

Request == CreateRequest \cup UpdateRequest \cup MoveRequest \cup RackRequest
             \cup ResizeRequest \cup DestroyRackRequest \cup DestroyTemplateRequest

ASSUME LimitAssumption == RackLimit \in Nat \ {0} /\ DeviceLimit \in Nat \ {0}
ASSUME SerialAssumption == Serial \in BOOLEAN
ASSUME IdleAssumption == Idle \notin Request
ASSUME FiniteAssumption ==
    IsFiniteSet(RackIds) /\ IsFiniteSet(NodeIds) /\ IsFiniteSet(Requests) /\ Requests # {}

VARIABLES
    height,      \* height[r]: the committed u_height of rack r, 0 when r does not exist
    templates,   \* the templates that exist
    node,        \* node[n]: the committed row of device n, or NoNode
    requests,    \* requests[q]: what thread q holds, or Idle
    announced    \* the racks that the last step's after_commit hooks broadcast

vars == <<height, templates, node, requests, announced>>

TypeOK ==
    /\ height \in [RackIds -> 0..MaxHeight]
    /\ templates \subseteq TemplateIds
    /\ node \in Layout
    /\ requests \in [Requests -> Request \cup {Idle}]
    /\ announced \subseteq RackIds

Init ==
    /\ height = [r \in RackIds |-> 0]
    /\ templates = TemplateIds
    /\ node = [n \in NodeIds |-> NoNode]
    /\ requests = [q \in Requests |-> Idle]
    /\ announced = {}

-----------------------------------------------------------------------------
LiveRacks == {r \in RackIds : height[r] # 0}

(* A thread takes a request, and ends it. *)

CanStart(q) ==
    /\ requests[q] = Idle
    /\ Serial => \A p \in Requests : requests[p] = Idle

At(q, step) == requests[q] # Idle /\ requests[q].at = step

Continue(q, request) == requests' = [requests EXCEPT ![q] = request]
Finish(q) == Continue(q, Idle)

(* Record identifiers are UUIDs: one that a thread still holds is not handed out again. *)
FreshNode(n) ==
    /\ node[n] = NoNode
    /\ \A q \in Requests : requests[q] # Idle =>
         /\ "node" \in DOMAIN requests[q] => requests[q].node # n
         /\ "doomed" \in DOMAIN requests[q] => n \notin requests[q].doomed

FreshRack(r) ==
    /\ height[r] = 0
    /\ \A q \in Requests : requests[q] # Idle /\ "rack" \in DOMAIN requests[q] => requests[q].rack # r

(* The rows an open transaction has inserted hold a share lock on what they refer to. *)
Inserting(q) == At(q, "insertDevice") \/ At(q, "commitNode")
RackIsReferencedAtLast(r) == \E q \in Requests : At(q, "commitNode") /\ requests[q].row.rack = r
RackIsReferenced(r) == \E q \in Requests : Inserting(q) /\ requests[q].row.rack = r
TemplateIsReferenced(t) == \E q \in Requests : Inserting(q) /\ requests[q].row.template = t

(* HwRack#rack_limit and Device#device_limit, and an off-by-one of the latter. *)
LicenceAllowsRack == Cardinality(LiveRacks) < RackLimit
LicenceAllowsDeviceTooMany == Cardinality(Live(node)) <= DeviceLimit
LicenceAllowsDevice == Cardinality(Live(node)) < DeviceLimit

(* HwRack#broadcast_change, after the commit of a row that is there to be   *)
(* saved, and that hook forgotten.                                          *)
NoBroadcast(r) == {}
Broadcast(r) == {r} \cap LiveRacks

-----------------------------------------------------------------------------
(* POST /racks.  HwRack#rack_limit is checked before the INSERT. *)

CreateRack(q, r, h) ==
    /\ CanStart(q)
    /\ FreshRack(r)
    /\ LicenceAllowsRack
    /\ Continue(q, [at |-> "insertRack", rack |-> r, height |-> h])
    /\ announced' = {}
    /\ UNCHANGED <<height, templates, node>>

InsertRack(q) ==
    /\ At(q, "insertRack")
    /\ height' = [height EXCEPT ![requests[q].rack] = requests[q].height]
    /\ announced' = {requests[q].rack}
    /\ Finish(q)
    /\ UNCHANGED <<templates, node>>

(* PUT /racks/:id.  The attributes that differ from those loaded are written. *)

ResizeRack(q, r, h) ==
    /\ CanStart(q)
    /\ height[r] # 0
    /\ Accommodates(node, r, h)
    /\ Continue(q, [at |-> "resize", rack |-> r, loaded |-> height[r], height |-> h])
    /\ announced' = {}
    /\ UNCHANGED <<height, templates, node>>

WriteHeight(q) ==
    LET req == requests[q] IN
    /\ At(q, "resize")
    /\ height' = [height EXCEPT
         ![req.rack] = IF @ = 0 \/ req.height = req.loaded THEN @ ELSE req.height]
    /\ announced' = Broadcast(req.rack)
    /\ Finish(q)
    /\ UNCHANGED <<templates, node>>

(* DELETE /racks/:id.  Api::V1::RacksController#destroy asks whether the   *)
(* rack is empty; HwRack's dependent: :destroy then loads the locations it *)
(* finds and deletes them; the DELETE of the rack comes last.              *)

DestroyRack(q, r, recurse) ==
    /\ CanStart(q)
    /\ height[r] # 0
    /\ recurse \/ In(node, r) = {}
    /\ Continue(q, [at |-> "loadRack", rack |-> r, recurse |-> recurse, doomed |-> {}])
    /\ announced' = {}
    /\ UNCHANGED <<height, templates, node>>

LoadRack(q) ==
    /\ At(q, "loadRack")
    /\ Continue(q, [requests[q] EXCEPT !.at = "deleteRack", !.doomed = In(node, requests[q].rack)])
    /\ announced' = {}
    /\ UNCHANGED <<height, templates, node>>

(* A location that the transaction did not delete still refers to the rack:*)
(* the foreign key refuses the DELETE and the transaction rolls back.      *)
DeleteRack(q) ==
    LET req == requests[q] IN
    /\ At(q, "deleteRack")
    /\ ~RackIsReferenced(req.rack)
    /\ IF In(node, req.rack) \subseteq req.doomed
       THEN /\ node' = Without(node, req.doomed)
            /\ height' = [height EXCEPT ![req.rack] = 0]
            /\ announced' = Broadcast(req.rack)
       ELSE announced' = {} /\ UNCHANGED <<height, node>>
    /\ Finish(q)
    /\ UNCHANGED templates

(* DELETE /templates/:id, and its dependent: :destroy of the chassis.  No  *)
(* rack is saved, so none is announced: the chassis is destroyed by its    *)
(* template's association and LiveUpdate::Chassis skips its hook.          *)

DestroyTemplate(q, t, recurse) ==
    /\ CanStart(q)
    /\ t \in templates
    /\ recurse \/ From(node, t) = {}
    /\ Continue(q, [at |-> "loadTemplate", template |-> t, recurse |-> recurse, doomed |-> {}])
    /\ announced' = {}
    /\ UNCHANGED <<height, templates, node>>

LoadTemplate(q) ==
    /\ At(q, "loadTemplate")
    /\ Continue(q, [requests[q] EXCEPT
         !.at = "deleteTemplate", !.doomed = From(node, requests[q].template)])
    /\ announced' = {}
    /\ UNCHANGED <<height, templates, node>>

DeleteTemplate(q) ==
    LET req == requests[q] IN
    /\ At(q, "deleteTemplate")
    /\ ~TemplateIsReferenced(req.template)
    /\ IF From(node, req.template) \subseteq req.doomed
       THEN /\ node' = Without(node, req.doomed)
            /\ templates' = templates \ {req.template}
       ELSE UNCHANGED <<templates, node>>
    /\ announced' = {}
    /\ Finish(q)
    /\ UNCHANGED height

(* POST /templates *)
CreateTemplate(t) ==
    /\ t \notin templates
    /\ \A q \in Requests :
         At(q, "loadTemplate") \/ At(q, "deleteTemplate") => requests[q].template # t
    /\ templates' = templates \cup {t}
    /\ announced' = {}
    /\ UNCHANGED <<height, node, requests>>

-----------------------------------------------------------------------------
(* POST /nodes: NodeServices::Create, one transaction of three inserts.    *)
(* Location.create! validates against the committed rows.                  *)

CreateNode(q, n, row) ==
    /\ CanStart(q)
    /\ FreshNode(n)
    /\ row.template \in templates
    /\ height[row.rack] # 0
    /\ LocationIsValid(node, n, row, height[row.rack])
    /\ Continue(q, [at |-> "insertDevice", node |-> n, row |-> row, height |-> height[row.rack]])
    /\ announced' = {}
    /\ UNCHANGED <<height, templates, node>>

(* create_device! validates the name and the licence's limit; the device's *)
(* after_save saves the rack record the transaction has loaded, and so     *)
(* validates that rack as well.  A failure rolls everything back.          *)
InsertDevice(q) ==
    LET req == requests[q] IN
    /\ At(q, "insertDevice")
    /\ IF /\ NameIsFree(node, req.node, req.row.rack, req.row.name)
          /\ LicenceAllowsDevice
          /\ Accommodates(node, req.row.rack, req.height)
       THEN Continue(q, [req EXCEPT !.at = "commitNode"])
       ELSE Finish(q)
    /\ announced' = {}
    /\ UNCHANGED <<height, templates, node>>

CommitNode(q) ==
    LET req == requests[q] IN
    /\ At(q, "commitNode")
    /\ node' = [node EXCEPT ![req.node] = req.row]
    /\ announced' = {req.row.rack}
    /\ Finish(q)
    /\ UNCHANGED <<height, templates>>

(* DELETE /devices/:id: DeviceServices::Destroy destroys the chassis of a  *)
(* simple device.  Chassis' after_destroy saves the rack while the         *)
(* location is still there: a rack too low for its devices refuses it.     *)
DestroyDevice(n) ==
    /\ Serial => \A q \in Requests : requests[q] = Idle
    /\ n \in Live(node)
    /\ Accommodates(node, node[n].rack, height[node[n].rack])
    /\ node' = [node EXCEPT ![n] = NoNode]
    /\ announced' = {node[n].rack}
    /\ UNCHANGED <<height, templates, requests>>

-----------------------------------------------------------------------------
(* PUT /devices/:id: DeviceServices::Update saves the device, and then, in *)
(* a transaction of its own, its location.  A refused name does not stop   *)
(* the move.                                                               *)

UpdateDevice(q, n, nm, moves, to) ==
    /\ CanStart(q)
    /\ n \in Live(node)
    /\ LET free == NameIsFree(node, n, node[n].rack, nm) IN
       /\ free \/ moves
       /\ Continue(q, [at |-> IF free THEN "writeName" ELSE "checkPlace", node |-> n,
                       loaded |-> node[n], name |-> nm, moves |-> moves, to |-> to])
    /\ announced' = {}
    /\ UNCHANGED <<height, templates, node>>

(* The device's after_save hooks save its rack, which must still hold its  *)
(* devices, and its data source map, which refers to the device: when one  *)
(* raises, the name is rolled back and the request ends there.             *)
WriteName(q) ==
    LET req == requests[q]
        r == req.loaded.rack
    IN
    /\ At(q, "writeName")
    /\ IF node[req.node] # NoNode /\ Accommodates(node, r, height[r])
       THEN /\ node' = IF req.name = req.loaded.name
                       THEN node
                       ELSE [node EXCEPT ![req.node].name = req.name]
            /\ announced' = {r}
            /\ IF req.moves THEN Continue(q, [req EXCEPT !.at = "checkPlace"]) ELSE Finish(q)
       ELSE Finish(q) /\ announced' = {} /\ UNCHANGED node
    /\ UNCHANGED <<height, templates>>

(* Location#update_position, then the validations of location.save, on the *)
(* record as it was loaded.                                                *)
PlacedStartOnly(row, to) == [row EXCEPT !.start = to.start]
Placed(row, to) == [row EXCEPT !.start = to.start, !.facing = to.facing]

Move(n, loaded, to) ==
    [at |-> "writePlace", node |-> n, loaded |-> loaded, to |-> to, height |-> height[loaded.rack]]

CheckPlace(q) ==
    LET req == requests[q]
        r == req.loaded.rack
    IN
    /\ At(q, "checkPlace")
    /\ IF height[r] # 0 /\ LocationIsValid(node, req.node, Placed(req.loaded, req.to), height[r])
       THEN Continue(q, Move(req.node, req.loaded, req.to))
       ELSE Finish(q)
    /\ announced' = {}
    /\ UNCHANGED <<height, templates, node>>

(* POST /irv/chassis/:id/update_position: a drag and drop in the browser. *)
MoveChassis(q, n, to) ==
    /\ CanStart(q)
    /\ n \in Live(node)
    /\ LocationIsValid(node, n, Placed(node[n], to), height[node[n].rack])
    /\ Continue(q, Move(n, node[n], to))
    /\ announced' = {}
    /\ UNCHANGED <<height, templates, node>>

(* UPDATE locations SET only the attributes that differ from those loaded; *)
(* the after_update saves the rack, which must still hold its devices.     *)
WrittenZeroBased(current, loaded, to) ==
    [current EXCEPT !.start = IF to.start = loaded.start THEN @ ELSE to.start - 1,
                    !.facing = IF to.facing = loaded.facing THEN @ ELSE to.facing]
Written(current, loaded, to) ==
    [current EXCEPT !.start = IF to.start = loaded.start THEN @ ELSE to.start,
                    !.facing = IF to.facing = loaded.facing THEN @ ELSE to.facing]

WritePlace(q) ==
    LET req == requests[q]
        r == req.loaded.rack
        row == Written(node[req.node], req.loaded, req.to)
        fits == /\ node[req.node] # NoNode => EndU(row) <= req.height
                /\ \A m \in In(node, r) \ {req.node} : EndU(node[m]) <= req.height
    IN
    /\ At(q, "writePlace")
    /\ IF fits
       THEN /\ node' = IF node[req.node] = NoNode THEN node ELSE [node EXCEPT ![req.node] = row]
            /\ announced' = Broadcast(r)
       ELSE announced' = {} /\ UNCHANGED node
    /\ Finish(q)
    /\ UNCHANGED <<height, templates>>

(* An exception, a refused authorisation or a crash rolls back the open    *)
(* transaction; what an earlier transaction of the request did remains.    *)
Abort(q) ==
    /\ requests[q] # Idle
    /\ Finish(q)
    /\ announced' = {}
    /\ UNCHANGED <<height, templates, node>>

-----------------------------------------------------------------------------

RackStep(q) ==
    \/ \E r \in RackIds, h \in Us : CreateRack(q, r, h) \/ ResizeRack(q, r, h)
    \/ \E r \in RackIds, recurse \in BOOLEAN : DestroyRack(q, r, recurse)
    \/ InsertRack(q) \/ WriteHeight(q) \/ LoadRack(q) \/ DeleteRack(q)

TemplateStep(q) ==
    \/ \E t \in TemplateIds, recurse \in BOOLEAN : DestroyTemplate(q, t, recurse)
    \/ LoadTemplate(q) \/ DeleteTemplate(q)

DeviceStep(q) ==
    \/ \E n \in NodeIds, row \in Row : CreateNode(q, n, row)
    \/ InsertDevice(q) \/ CommitNode(q)
    \/ \E n \in NodeIds, nm \in Names, moves \in BOOLEAN, to \in Position :
         UpdateDevice(q, n, nm, moves, to)
    \/ \E n \in NodeIds, to \in Position : MoveChassis(q, n, to)
    \/ WriteName(q) \/ CheckPlace(q) \/ WritePlace(q)

Next ==
    \/ \E q \in Requests : RackStep(q) \/ TemplateStep(q) \/ DeviceStep(q) \/ Abort(q)
    \/ \E n \in NodeIds : DestroyDevice(n)
    \/ \E t \in TemplateIds : CreateTemplate(t)

Spec == Init /\ [][Next]_vars
-----------------------------------------------------------------------------
(* Correctness. *)

(* Every device lies within its rack: no sequence of creations, moves and  *)
(* resizes leaves one above the top, although a creation checks the rack   *)
(* it loaded and a resize checks the devices it found (HwRack#u_height_... *)
(* and Location#start_u_is_valid).                                         *)
FitsRack == \A n \in Live(node) : EndU(node[n]) <= height[node[n].rack]

(* What Location#target_u_is_empty does guarantee: no two devices that     *)
(* need a common facing start at the same U.                               *)
NoSharedStart ==
    \A n, m \in Live(node) : Rivals(node, n, m) => node[n].start # node[m].start

(* No two devices occupy the same U of the same facing.                    *)
NoOverlap ==
    \A n, m \in Live(node) : Rivals(node, n, m) =>
      \A u \in node[n].start .. EndU(node[n]) :
        ~OccupiesU(node[m], u, FacingsOf(node[n]))

(* Device#name_validator: names are unique in a rack, through creations    *)
(* and renames.                                                            *)
NamesUnique ==
    \A n, m \in Live(node) :
      n # m /\ node[n].rack = node[m].rack => node[n].name # node[m].name

(* Each thread can exceed a licensed limit once: the limit is checked      *)
(* before the insert, so what is live stays below the limit plus the       *)
(* other threads (HwRack#rack_limit, Device#device_limit).                 *)
Overshoot == IF Serial THEN 0 ELSE Cardinality(Requests) - 1
LicenceRespected ==
    /\ Cardinality(Live(node)) <= DeviceLimit + Overshoot
    /\ Cardinality(LiveRacks) <= RackLimit + Overshoot

(* Whatever the threads interleave, a device never outlives its rack or    *)
(* its template (the foreign keys of locations and base_chassis).          *)
ReferencesHold ==
    \A n \in Live(node) : height[node[n].rack] # 0 /\ node[n].template \in templates

(* A commit that changes what a rack shows broadcasts that rack, except    *)
(* the devices that the deletion of their template takes with it           *)
(* (the hooks of LiveUpdate and HwRack).                                   *)
Shows(r) == <<height[r], [n \in In(node, r) |-> node[n]]>>
ChangesAnnounced ==
    [][\A r \in RackIds :
         \/ Shows(r)' = Shows(r)
         \/ r \in announced'
         \/ \E q \in Requests : At(q, "deleteTemplate") /\ requests'[q] = Idle]_vars

(* One request at a time, the program keeps the promises of the registry.  *)
Registry == INSTANCE RackRegistry
ImplementsRegistry == Registry!Spec
=============================================================================
