----------------------------- MODULE MCOsiThread ------------------------------
(* Instances of OsiThread for TLC. *)
EXTENDS OsiThread

CONSTANTS p1, p2

TwoPosters == {p1, p2}
AllFailures == {"prctl", "pthread_create"}
=============================================================================
