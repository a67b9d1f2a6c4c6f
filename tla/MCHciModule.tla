----------------------------- MODULE MCHciModule -----------------------------
(* Instances of HciModule for TLC. *)
EXTENDS HciModule

NoCommands == {}
OneCommand == {"c1"}
TwoCommands == {"c1", "c2"}
ThreeCommands == {"c1", "c2", "c3"}
==============================================================================
