--------------------------- MODULE RackSelectionMC ---------------------------
(* A rack with a chassis of several slots and a rack with a single device whose
   image covers its chassis. *)
EXTENDS RackSelection, TLC

CONSTANTS r1, r2, c1, c2, d1, d2

MCParent == (c1 :> r1 @@ d1 :> c1 @@ c2 :> r2 @@ d2 :> c2)
MCEnclosed == [o \in Objects |-> IF o = d2 THEN {c2, d2} ELSE Family[o]]
==============================================================================
