---------------------------- MODULE LiveUpdatesMC -----------------------------
(* LiveUpdates with two racks and two images, for TLC. *)
EXTENDS LiveUpdates

CONSTANTS rack1, rack2, image1, image2

(* The second rack has a template without an image, and a version with one. *)
TwoRacks == {rack1, rack2}
TwoImages == {image1, image2}
SomeImages == [r \in TwoRacks |->
    [v \in 1..2 |-> CASE r = rack1 -> IF v = 1 THEN {image1} ELSE {image1, image2}
                      [] r = rack2 -> IF v = 1 THEN {} ELSE {image2}]]

(* Processes are interchangeable. *)
ProcessSymmetry == Permutations(Processes)
===============================================================================
