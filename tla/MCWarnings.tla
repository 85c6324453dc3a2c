---------------------------- MODULE MCWarnings -----------------------------
(* Small instances of the jobs that look ahead. *)
EXTENDS Warnings

CONSTANTS t1

OneTask == {t1}
BothJobs == Jobs
SomeMessages == Tasks \X Marks \X (1 .. MaxTime)

\* three of the five stages, at their distances from each other in small
ThreeStages == {"1d", "6h", "1h"}
Close1 == [s \in Stages |-> CASE s = "1d" -> 4 [] s = "6h" -> 2 [] OTHER -> 1]
Second == {2}
Third == {3}
=============================================================================
