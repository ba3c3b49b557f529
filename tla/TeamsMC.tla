------------------------------- MODULE TeamsMC -------------------------------
(* One team, one user with two roles, two projects, and room for two       *)
(* deletions and two requests about roles at a time.                       *)
EXTENDS Teams, TLC

MCRoom == [create |-> 1, grant |-> 1, delete |-> 2, role |-> 2]
=============================================================================
