------------------------------ MODULE MCTopics ------------------------------
(* Small instances of workspaces and their topics for TLC. *)
EXTENDS Topics

CONSTANTS n1, n2, c1, c2

OneName == {n1}
TwoNames == {n1, n2}
OneChat == {c1}
TwoChats == {c1, c2}
OneSeed == <<n1>>
=============================================================================
