---------------------------- MODULE MCHciCommand ----------------------------
(* Instances of HciCommand for TLC. Times are in units of one second. *)
EXTENDS HciCommand, TLC

CONSTANTS c1, c2, c3

ThreeCommands == {c1, c2, c3}

\* c1 and c2 carry the same opcode, c3 is vendor-specific.
Opcodes == c1 :> "inquiry" @@ c2 :> "inquiry" @@ c3 :> "vendor"
=============================================================================
