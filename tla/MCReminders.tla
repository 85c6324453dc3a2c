---------------------------- MODULE MCReminders ----------------------------
(* Small instances of the reminder engine for TLC. *)
EXTENDS Reminders

CONSTANTS t1, t2, u1

OneTask == {t1}
TwoTasks == {t1, t2}
SameOwner == [t \in Tasks |-> u1]

OneTimeOnly == {<<"", 0>>}
EveryKind == {<<"", 0>>, <<"daily", 0>>, <<"weekly", 1>>, <<"monthly", 2>>}

SomeDates == {0, 1}
FirstDay == {0}
InTwo == {2}
EveryTime == {None} \cup 0 .. (DayLen - 1)
SomeTimes == {None, 1, 3}
TwoActs == [t \in Tasks |-> 2]
ThreeActs == [t \in Tasks |-> 3]
TwoAndOne == [t \in Tasks |-> IF t = t1 THEN 2 ELSE 1]
OneMinute == {1}
Midnight == {0}
=============================================================================
