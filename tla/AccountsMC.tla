------------------------------ MODULE AccountsMC ------------------------------
(* Accounts with room for one job of each kind, for TLC. *)
EXTENDS Accounts

OneOfEach == [kind \in Kinds |-> 1]
=============================================================================
