--------------------------- MODULE RackOccupancyMC ---------------------------
(* Instances of RackOccupancy for TLC: "blade" is a half-depth 1U template, *)
(* "server" a full-depth 2U one.                                            *)
EXTENDS RackOccupancy, TLC

MCTemplateHeight == [t \in TemplateIds |-> IF t = "blade" THEN 1 ELSE 2]
MCTemplateDepth == [t \in TemplateIds |-> IF t = "blade" THEN 1 ELSE 2]

Symmetry == Permutations(NodeIds) \cup Permutations(RackIds) \cup Permutations(Names)
              \cup Permutations(Requests)
=============================================================================
