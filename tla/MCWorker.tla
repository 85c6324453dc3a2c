------------------------------ MODULE MCWorker ------------------------------
(* Small instances of the worker for TLC. *)
EXTENDS Worker

\* "Itto" is spelt with a pronoun
TwoNames == {"Itto", "Diona"}
OnePronounish == {"Itto"}
Spelling == [n \in TwoNames |-> IF n = "Itto" THEN {"it"} ELSE {}]
OneSpace == {"w1"}
TwoEntities == [k \in Kinds |-> IF k = "entity" THEN 2 ELSE 1]
=============================================================================
