------------------------------ MODULE MCReactor -------------------------------
(* Instances of Reactor for TLC. *)
EXTENDS Reactor

CONSTANTS o1, o2, u1, u2

TwoObjects == {o1, o2}
TwoUsers == {u1, u2}
=============================================================================
