---------------------------- MODULE RackMouseMC ----------------------------
(* Two racks of three U, a device of one U and half depth, and one of two  *)
(* U that is of full depth (big) or of half depth (slim).                  *)
EXTENDS RackMouse, TLC

MCTemplateHeight == [small |-> 1, big |-> 2, slim |-> 2]
MCTemplateDepth == [small |-> 1, big |-> 2, slim |-> 1]
DeviceIn(rack, start, template, facing) ==
  [rack |-> rack, start |-> start, template |-> template, facing |-> facing, name |-> "x"]
MCLayouts ==
  {(1 :> DeviceIn("r1", 1, "small", "f") @@ 2 :> DeviceIn("r1", 2, "big", "f")),
   (1 :> DeviceIn("r1", 1, "small", "f") @@ 2 :> DeviceIn("r1", 2, "big", "b")),
   (1 :> DeviceIn("r1", 1, "small", "f") @@ 2 :> DeviceIn("r1", 1, "slim", "b")),
   (1 :> DeviceIn("r1", 1, "small", "f") @@ 2 :> DeviceIn("r2", 2, "big", "f"))}
=============================================================================
