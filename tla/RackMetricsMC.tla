--------------------------- MODULE RackMetricsMC ---------------------------
(* Two metrics and one the templates lack, two devices, one stored preset. *)
EXTENDS RackPresets

CONSTANTS cpu, net, gone, d1, d2

MCAnswers == {(d1 :> 0 @@ d2 :> 2)}
MCStored == <<[name |-> "p", rate |-> 1, metric |-> cpu, filter |-> [min |-> 1, max |-> Off],
               map |-> [low |-> 0, high |-> 2, olow |-> 1, ohigh |-> 2], shared |-> FALSE]>>
=============================================================================
