--------------------------- MODULE MCInstanceLock ---------------------------
(* Two restart loops on one machine, for TLC. *)
EXTENDS InstanceLock

CONSTANTS loop1, loop2

TwoLoops == {loop1, loop2}
=============================================================================
