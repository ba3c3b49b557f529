---------------------------- MODULE RackDrawingMC ----------------------------
(* The two faces of a rack with one device that goes through, or with two. *)
EXTENDS RackDrawing

CONSTANTS a1, a2, r1, r2, a

MCDeviceOf == (a1 :> a @@ a2 :> a)
MCRackOf == (a1 :> r1 @@ a2 :> r2)
Room(bars, spaces, marks) == [l \in Layers |-> CASE l = "info" -> bars [] l = "rackInfo" -> spaces [] OTHER -> marks]
MCRooms ==
    {Room(1, 2, 0), Room(2, 1, 0), Room(0, 4, 0), Room(0, 0, 4), Room(1, 0, 1)}
MCZoomed == MCRooms \ {Room(2, 1, 0)}
==============================================================================
