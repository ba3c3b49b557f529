------------------------------ MODULE ComboBoxMC ------------------------------
(***************************************************************************)
(* Two metrics, one of which begins with the name of the other.            *)
(***************************************************************************)
EXTENDS ComboBox

MCCatalogue == <<"load", "loadavg">>
MCTyped == {"", "lo", "avg", "x"}
MCStarts == [t \in Texts |-> CASE t \in {"", "lo", "load"} -> Metrics
                               [] t = "loadavg" -> {"loadavg"}
                               [] OTHER -> {}]
MCWithin == [t \in Texts |-> IF t = "avg" THEN {"loadavg"} ELSE MCStarts[t]]
MCOffers == {{}, {"loadavg"}, Metrics}
==============================================================================
