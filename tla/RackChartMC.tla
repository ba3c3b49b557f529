----------------------------- MODULE RackChartMC -----------------------------
(* A chassis (1) and two devices; the last one is not always in the racks. *)
EXTENDS RackChart

CONSTANTS cpu, net

MCLevelOf == <<"chassis", "devices", "devices">>
MCLevels == {{"devices"}, {"chassis", "devices"}}
MCPicks == {None, {1, 3}}
MCPlaces == {(1 :> 3 @@ 2 :> 1 @@ 3 :> 2), (1 :> 1 @@ 2 :> 2)}
MCAnswers == {(1 :> 20 @@ 2 :> 0 @@ 3 :> -5)}
==============================================================================
