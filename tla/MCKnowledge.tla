---------------------------- MODULE MCKnowledge ----------------------------
(* A small instance of the knowledge tables for TLC. *)
EXTENDS Knowledge, TLC

FewRows == [entity |-> 1, note |-> 2, media |-> 1]
OneCase == [n \in Names |-> n]
AnySpace == Permutations(Spaces)
=============================================================================
