------------------------------ MODULE MCL2cLink ------------------------------
(* Instances of L2cLink for TLC. *)
EXTENDS L2cLink

BrEdr == {"BR_EDR"}
BothTransports == {"BR_EDR", "LE"}
=============================================================================
