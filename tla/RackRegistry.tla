----------------------------- MODULE RackRegistry -----------------------------
(***************************************************************************)
(* What the racks promise their users, with every operation atomic: a      *)
(* device is mounted or shifted only where the rack and the other devices  *)
(* leave its start_u free, a rack is never made too low for its devices,   *)
(* and a rack takes its devices with it when it goes.                      *)
(***************************************************************************)
EXTENDS RackLayout

VARIABLES
    height,   \* height[r]: the height of rack r, 0 when it does not exist
    node      \* node[n]: the row of device n, or NoNode

registryVars == <<height, node>>

Init ==
    /\ height = [r \in RackIds |-> 0]
    /\ node = [n \in NodeIds |-> NoNode]

Mount(n, row) ==
    /\ node[n] = NoNode
    /\ height[row.rack] # 0
    /\ LocationIsValid(node, n, row, height[row.rack])
    /\ NameIsFree(node, n, row.rack, row.name)
    /\ node' = [node EXCEPT ![n] = row]
    /\ UNCHANGED height

(* A device keeps its rack and its template for life. *)
Shift(n, row) ==
    /\ node[n] # NoNode
    /\ row.rack = node[n].rack /\ row.template = node[n].template
    /\ row.name # node[n].name => NameIsFree(node, n, row.rack, row.name)
    /\ [row EXCEPT !.name = node[n].name] # node[n] =>
         LocationIsValid(node, n, row, height[row.rack])
    /\ node' = [node EXCEPT ![n] = row]
    /\ UNCHANGED height

Unmount(S) ==
    /\ S \subseteq Live(node)
    /\ node' = Without(node, S)
    /\ UNCHANGED height

SetHeight(r, h) ==
    /\ Accommodates(node, r, h)
    /\ height' = [height EXCEPT ![r] = h]
    /\ UNCHANGED node

Demolish(r) ==
    /\ height' = [height EXCEPT ![r] = 0]
    /\ node' = Without(node, In(node, r))

Next ==
    \/ \E n \in NodeIds, row \in Row : Mount(n, row) \/ Shift(n, row)
    \/ \E S \in SUBSET NodeIds : Unmount(S)
    \/ \E r \in RackIds : Demolish(r) \/ \E h \in Us : SetHeight(r, h)

Spec == Init /\ [][Next]_registryVars
=============================================================================
