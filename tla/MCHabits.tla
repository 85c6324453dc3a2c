------------------------------ MODULE MCHabits ------------------------------
(* Users for the habits. *)
EXTENDS Habits

CONSTANTS ann, bob

TwoUsers == {ann, bob}
=============================================================================
