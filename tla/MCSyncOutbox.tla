---------------------------- MODULE MCSyncOutbox ----------------------------
(* Small instances of the synchronization engine for TLC. *)
EXTENDS SyncOutbox

CONSTANTS u1, u2, a1, a2

OwnerOnly == {u1}
TwoUsers == {u1, u2}
TwoAdapters == {a1, a2}
=============================================================================
