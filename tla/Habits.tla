------------------------------- MODULE Habits -------------------------------
(***************************************************************************)
(* Habits, their daily log and their streaks (database.py, core/actions,   *)
(* the habit commands and buttons of main.py).                             *)
(*                                                                         *)
(* A habit is a row of the tasks table; its log is a table of its own that *)
(* only names the row's id.  The streak columns are derived from the log,  *)
(* and only when a day is logged: nothing else keeps the two together.     *)
(* Ids come from a counter that some resets start again.  How often a      *)
(* habit recurs, its time and whether it is paused change nothing here: a  *)
(* paused habit completes, and a weekly one counts days too.               *)
(***************************************************************************)
EXTENDS Integers

CONSTANTS
    Users,
    Admin,     \* of whom the resets are, and the worker with its tools
    MaxId,     \* bound: rows ever numbered between two restarts of the counter
    MaxDay     \* bound: days

ASSUME HabitSizes == Admin \in Users /\ MaxId \in Nat /\ MaxDay \in Nat \ {0}

VARIABLES
    today,
    rows,       \* the tasks table: id -> row
    log,        \* habit_log: <<habit_id, user_id, log_date>>
    seq,        \* sqlite_sequence of the tasks table
    stray       \* history: habits whose log may part from them (deleted alone, logged by another)

habitVars == <<today, rows, log, seq, stray>>

Ids == 1 .. MaxId
Days == 1 .. MaxDay

\* no time, title or recurrence: what the streak functions read and write
TaskRows == [owner : Users, habit : BOOLEAN, current : 0 .. MaxDay, longest : 0 .. MaxDay,
             last : 0 .. MaxDay]    \* last_completed, 0 for none

NewRow(u, habit) == [owner |-> u, habit |-> habit, current |-> 0, longest |-> 0, last |-> 0]

\* get_task_by_id and is_habit
Owned(u, h) == h \in DOMAIN rows /\ rows[h].owner = u
HabitOf(u, h) == Owned(u, h) /\ rows[h].habit

LoggedDays(l, h) == {d \in Days : \E u \in Users : <<h, u, d>> \in l}

\* n is what counting back from day d gives: the days up to d without a gap
Streak(D, d, n) == (\A i \in 0 .. (n - 1) : d - i \in D) /\ d - n \notin D

-----------------------------------------------------------------------------

HabitInit ==
    /\ today = 1
    /\ rows = [h \in {} |-> 0]
    /\ log = {} /\ seq = 0 /\ stray = {}

Insert(row) ==
    /\ seq < MaxId
    /\ seq' = seq + 1
    /\ rows' = [h \in DOMAIN rows \cup {seq + 1} |-> IF h = seq + 1 THEN row ELSE rows[h]]
    /\ UNCHANGED <<today, log, stray>>

AddTask(u) == Insert(NewRow(u, FALSE))    \* add_task, add_subtask
AddHabit(u) == Insert(NewRow(u, TRUE))    \* no search for one of the same name

\* mutant: the count starts from the day before
LogHabitCompletion_DayBefore(u, h) ==
    IF today \in LoggedDays(log, h) THEN UNCHANGED <<rows, log>>
    ELSE /\ log' = log \cup {<<h, u, today>>}
         /\ \E n \in 0 .. MaxDay :
               /\ Streak(LoggedDays(log', h), today - 1, n)
               /\ rows' = [rows EXCEPT ![h].current = n, ![h].last = today,
                                       ![h].longest = IF n > @ THEN n ELSE @]

\* The unique index on habit and day refuses a second completion; else the log row
\* and the three columns are written in one transaction.
LogHabitCompletion(u, h) ==
    IF today \in LoggedDays(log, h) THEN UNCHANGED <<rows, log>>
    ELSE /\ log' = log \cup {<<h, u, today>>}
         /\ \E n \in 0 .. MaxDay :
               /\ Streak(LoggedDays(log', h), today, n)
               /\ rows' = [rows EXCEPT ![h].current = n, ![h].last = today,
                                       ![h].longest = IF n > @ THEN n ELSE @]

\* /done, the Done and "finished" buttons, the offline action and the worker's tool;
\* a button may be older than the row
Complete(u, h) == HabitOf(u, h) /\ LogHabitCompletion(u, h) /\ UNCHANGED <<today, seq, stray>>

\* the worker's complete_habit asks whether the row is a habit, not whose it is
CompleteAnothers(h) ==
    /\ h \in DOMAIN rows /\ rows[h].habit /\ rows[h].owner # Admin
    /\ LogHabitCompletion(Admin, h)
    /\ stray' = stray \cup {h}
    /\ UNCHANGED <<today, seq>>

\* reset_streak: the log stays
Skip(u, h) ==
    /\ HabitOf(u, h)
    /\ rows' = [rows EXCEPT ![h].current = 0]
    /\ UNCHANGED <<today, log, seq, stray>>

Kept(S) == [h \in DOMAIN rows \ S |-> rows[h]]
OfUser(u) == {h \in DOMAIN rows : rows[h].owner = u}
HabitsOf(u) == {h \in OfUser(u) : rows[h].habit}
OthersLog(u) == {l \in log : l[2] # u}

\* delete_task: the row and nothing else
DeleteTask(u, h) ==
    /\ Owned(u, h)
    /\ rows' = Kept({h})
    /\ stray' = IF rows[h].habit /\ LoggedDays(log, h) # {} THEN stray \cup {h} ELSE stray
    /\ UNCHANGED <<today, log, seq>>

\* mutant: the counter starts again whatever is left
Restarted_Always(table) == 0

\* the counter starts again only when no row of anyone is left
Restarted(table) == IF DOMAIN table = {} THEN 0 ELSE seq

ResetAllTasks ==
    /\ rows' = Kept(OfUser(Admin) \ HabitsOf(Admin))
    /\ seq' = Restarted(rows')
    /\ UNCHANGED <<today, log, stray>>

ResetAllHabits ==
    /\ rows' = Kept(HabitsOf(Admin))
    /\ log' = OthersLog(Admin)
    /\ UNCHANGED <<today, seq, stray>>

\* mutant: finding E1 of the audit, the log is not among the tables
ResetEverything_KeepsLog ==
    /\ rows' = Kept(OfUser(Admin))
    /\ seq' = Restarted(rows')
    /\ UNCHANGED <<today, log, stray>>

ResetEverything ==
    /\ rows' = Kept(OfUser(Admin))
    /\ log' = OthersLog(Admin)
    /\ seq' = Restarted(rows')
    /\ UNCHANGED <<today, stray>>

NewDay == today < MaxDay /\ today' = today + 1 /\ UNCHANGED <<rows, log, seq, stray>>

HabitNext ==
    \/ NewDay \/ ResetAllTasks \/ ResetAllHabits \/ ResetEverything
    \/ \E h \in Ids : CompleteAnothers(h)
    \/ \E u \in Users :
          \/ AddTask(u) \/ AddHabit(u)
          \/ \E h \in Ids : Complete(u, h) \/ Skip(u, h) \/ DeleteTask(u, h)

HabitSpec == HabitInit /\ [][HabitNext]_habitVars

-----------------------------------------------------------------------------
(* Properties *)

\* Rows are numbered up to the counter, so that no new row meets an old one, and no
\* day after today is logged.
TypeOK ==
    /\ today \in Days
    /\ seq \in 0 .. MaxId
    /\ DOMAIN rows \subseteq 1 .. seq
    /\ \A h \in DOMAIN rows : rows[h] \in TaskRows
    /\ log \subseteq Ids \X Users \X (1 .. today)
    /\ stray \subseteq Ids

\* The audit's E1, that a new habit may inherit another's history: a log row always
\* belongs to a habit of its user, through completions, resets and restarts of the
\* ids; only deleting a habit by itself leaves log rows without one, and only the
\* worker's tool adds them under another user's name.
LogsHaveOwners ==
    \A l \in log : l[1] \in stray \/ HabitOf(l[2], l[1])

\* What the cards show is what was done: the best streak is the longest run of logged
\* days, the current one is the run that ends at the last day done or was reset, for
\* every habit whose id never belonged to one deleted by itself or logged by another.
StreakMatchesLog ==
    \A h \in DOMAIN rows :
        rows[h].habit /\ h \notin stray =>
            LET D == LoggedDays(log, h)
                row == rows[h]
            IN /\ \A d \in D : d <= row.last
               /\ row.last # 0 => row.last \in D
               /\ row.current # 0 => Streak(D, row.last, row.current)
               /\ \A d \in D, n \in 0 .. MaxDay : Streak(D, d, n) => n <= row.longest
               /\ row.longest # 0 => \E d \in D : Streak(D, d, row.longest)
=============================================================================
