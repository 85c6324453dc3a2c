----------------------------- MODULE Reminders -----------------------------
(***************************************************************************)
(* The reminder engine: the queries of scheduler.py and database.py, the   *)
(* three JobQueue jobs of main.py that send what they return               *)
(* (check_reminders, check_followups, check_did_you_finish), the daily     *)
(* carry-forward, and the callbacks and commands by which the user answers.*)
(*                                                                         *)
(* A job is a coroutine.  It reads the due rows once, then awaits one      *)
(* send_message after the other: handlers and the other jobs run between   *)
(* two of its steps, so what it sends may be older than the database.  One *)
(* tick of the clock is a minute, the resolution of every stored stamp.    *)
(***************************************************************************)
EXTENDS Integers, FiniteSets

CONSTANTS
    Tasks,            \* ids of the tasks table (AUTOINCREMENT: never reused)
    Owner,            \* Owner[t]: the user_id of the row
    DayLen,           \* minutes of a day
    LastDay,          \* bound: the clock stops at the end of this day
    Lookback,         \* LOOKBACK_MINUTES
    RecurGap,         \* the 20 hours between two pings of a recurring task
    AskLag,           \* the 15 minutes before "did you finish?"
    CarryAt,          \* minute of the day of daily_carry_forward
    MaxAway,          \* longest time between two runs of check_reminders
    MaxReminders,     \* max_reminders_per_task
    BaseInterval,     \* reminder_interval
    Floor,            \* the 10-minute floor of get_escalated_interval
    BatchShown,       \* tasks listed (and counted) in a batched follow-up
    QuietStart, QuietEnd,
    Dates, Times, Recurrences, SnoozeMins,  \* what users may type
    MaxActs,          \* bound: MaxActs[t] user actions on task t
    MaxFaults         \* bound: crashes and failed sends

None == -1            \* SQL NULL
Jobs == {"reminders", "followups", "finish"}

ASSUME SizesAssumption ==
    /\ DayLen \in Nat \ {0} /\ LastDay \in Nat
    /\ {Lookback, RecurGap, AskLag, CarryAt, BaseInterval, Floor} \subseteq Nat
    /\ {MaxAway, MaxReminders, MaxFaults, QuietStart, QuietEnd} \subseteq Nat
    /\ BatchShown \in Nat \ {0}
    /\ MaxActs \in [Tasks -> Nat]
ASSUME InputsAssumption ==
    /\ Dates \subseteq Nat \cup {None} /\ Times \subseteq 0 .. (DayLen - 1) \cup {None}
    /\ Recurrences \subseteq {"", "daily", "weekly", "monthly"} \X Nat
    /\ SnoozeMins \subseteq Nat
    /\ IsFiniteSet(Tasks)

\* A task is not due again before it has left the lookback window.
ASSUME WindowAssumption == Lookback < DayLen /\ Lookback <= RecurGap

VARIABLES
    now,      \* minutes since the first midnight
    db,       \* the rows of the tasks table
    job,      \* the local state of each job's coroutine
    lastRun,  \* when check_reminders last read the database
    faults,   \* crashes and failed sends so far
    acts,     \* user actions on each task so far
    \* history, read by the properties only
    late,     \* pings of each job since the user's last act that found the task silent
    sent,     \* pings of what check_reminders has read today
    chased,   \* follow-ups that reached the user
    armed,    \* the task came due and nothing has picked it up yet
    owed      \* an expired snooze was consumed and its ping is still to come

history == <<late, sent, chased, armed, owed>>
vars == <<now, db, job, lastRun, faults, acts, late, sent, chased, armed, owed>>

Row == [live : BOOLEAN, date : Nat \cup {None}, time : Nat \cup {None},
        recur : {"", "daily", "weekly", "monthly"}, rday : Nat,
        done : BOOLEAN, paused : BOOLEAN, snooze : Nat \cup {None},
        lastRem : Nat \cup {None}, count : Nat, asked : Nat \cup {None}]

Absent == [live |-> FALSE, date |-> None, time |-> None, recur |-> "", rday |-> 0,
           done |-> FALSE, paused |-> FALSE, snooze |-> None, lastRem |-> None,
           count |-> 0, asked |-> None]

-----------------------------------------------------------------------------
(* Clock and queries *)

Day(m) == m \div DayLen
Today == Day(now)
Minute == now % DayLen

\* is_quiet_hours: a pair of equal ends disables it, a reversed one wraps midnight.
Quiet ==
    CASE QuietStart = QuietEnd -> FALSE
      [] QuietStart > QuietEnd -> Minute >= QuietStart \/ Minute < QuietEnd
      [] OTHER -> QuietStart <= Minute /\ Minute < QuietEnd

\* due_time BETWEEN the HH:MM of (now - lookback) AND the HH:MM of now: two
\* times of day, without their dates.
InLookback_ExactMinute(time) == time = Minute  \* mutant: no lookback

InLookback(time) ==
    /\ time # None
    /\ (now - Lookback) % DayLen <= time
    /\ time <= Minute

Active_PausedToo(r) == r.live /\ ~r.done  \* mutant: paused=0 forgotten

Active(r) == r.live /\ ~r.done /\ ~r.paused
Snoozed(r) == r.snooze # None /\ r.snooze > now
OneTime(r) == r.recur = ""

OccursToday(r) ==
    \/ r.recur = "daily"
    \/ r.recur = "weekly" /\ Today % 7 = r.rday
    \/ r.recur = "monthly" /\ Today + 1 = r.rday

\* mutant: no last_reminded guard
OneTimeDue_EveryMinute(r) ==
    Active(r) /\ OneTime(r) /\ ~Snoozed(r) /\ r.date = Today /\ InLookback(r.time)

OneTimeDue(r) ==
    /\ Active(r) /\ OneTime(r) /\ ~Snoozed(r)
    /\ r.date = Today /\ InLookback(r.time)
    /\ r.lastRem = None \/ Day(r.lastRem) < Today

RecurringDue(r) ==
    /\ Active(r) /\ OccursToday(r) /\ ~Snoozed(r)
    /\ InLookback(r.time)
    /\ r.lastRem = None \/ r.lastRem < now - RecurGap

SnoozeExpired(r) == Active(r) /\ r.snooze # None /\ r.snooze <= now

\* mutant: the v2.0 query, which had no snooze case
DueTasks_NoSnooze == {t \in Tasks : OneTimeDue(db[t]) \/ RecurringDue(db[t])}

DueTasks ==
    {t \in Tasks : OneTimeDue(db[t]) \/ RecurringDue(db[t]) \/ SnoozeExpired(db[t])}

Overdue(r) ==
    /\ r.date # None
    /\ r.date < Today \/ (r.date = Today /\ r.time # None /\ r.time < Minute)

\* get_escalated_interval for a row whose deadline is behind it, the only kind
\* get_tasks_needing_followup passes.
EscalatedInterval(r) ==
    CASE r.time # None -> IF BaseInterval < Floor THEN BaseInterval ELSE Floor
      [] r.time = None /\ r.count <= 2 -> BaseInterval
      [] r.time = None /\ r.count \in {3, 4} ->
            IF BaseInterval \div 2 > Floor THEN BaseInterval \div 2 ELSE Floor
      [] OTHER -> Floor

ShouldRemindAgain(r) == r.lastRem = None \/ now - r.lastRem >= EscalatedInterval(r)

\* mutant: off by one at the cap
Chaseable_OneTooMany(r) ==
    /\ Active(r) /\ OneTime(r) /\ ~Snoozed(r) /\ Overdue(r)
    /\ r.count <= MaxReminders
    /\ ShouldRemindAgain(r)

Chaseable(r) ==
    /\ Active(r) /\ OneTime(r) /\ ~Snoozed(r) /\ Overdue(r)
    /\ r.count < MaxReminders
    /\ ShouldRemindAgain(r)

FollowupTasks == {t \in Tasks : Chaseable(db[t]) /\ ~Quiet}

\* get_tasks_for_followup: the cutoff is again a time of day without its date.
Askable(r) ==
    /\ Active(r) /\ OneTime(r) /\ r.date # None /\ r.time # None
    /\ r.date < Today \/ (r.date = Today /\ r.time <= (now - AskLag) % DayLen)
    /\ r.asked = None \/ Day(r.asked) < Today

AskTasks == {t \in Tasks : Askable(db[t])}

-----------------------------------------------------------------------------
(* Jobs.  "loop": between two sends; "sent": the message has reached the    *)
(* user but the await has not returned; "batch": a batched follow-up is     *)
(* counted and on its way.  An idle job is one in "loop" with nothing left. *)

Idle == [phase |-> "loop", snap |-> {}, cur |-> {}]

Init ==
    /\ now = 0 /\ lastRun = 0 /\ faults = 0
    /\ db = [t \in Tasks |-> Absent]
    /\ job = [j \in Jobs |-> Idle]
    /\ acts = [t \in Tasks |-> 0]
    /\ late = [t \in Tasks |-> [j \in Jobs |-> 0]]
    /\ sent = [t \in Tasks |-> 0] /\ chased = [t \in Tasks |-> 0]
    /\ armed = [t \in Tasks |-> FALSE] /\ owed = [t \in Tasks |-> FALSE]

\* A task the user asked not to hear about.  "Did you finish?" reads no snooze.
Silent(j, r) == ~r.live \/ r.done \/ r.paused \/ (j # "finish" /\ Snoozed(r))

\* The message of job j about the tasks of S reaches the user.
Ping(j, S) ==
    /\ late' = [t \in Tasks |-> IF t \in S /\ Silent(j, db[t])
                                THEN [late[t] EXCEPT ![j] = @ + 1] ELSE late[t]]
    /\ sent' = [t \in Tasks |-> IF j = "reminders" /\ t \in S /\ Day(lastRun) = Today
                                THEN sent[t] + 1 ELSE sent[t]]
    /\ chased' = [t \in Tasks |-> IF j = "followups" /\ t \in S THEN chased[t] + 1 ELSE chased[t]]
    /\ owed' = [t \in Tasks |-> owed[t] /\ ~(j = "reminders" /\ t \in S)]

Fault == faults < MaxFaults /\ faults' = faults + 1

\* check_reminders, its query: expired snoozes are cleared and committed here,
\* before anything is sent.
FetchReminders ==
    /\ job["reminders"] = Idle /\ lastRun < now
    /\ job' = [job EXCEPT !["reminders"].snap = DueTasks]
    /\ db' = [t \in Tasks |-> IF SnoozeExpired(db[t]) THEN [db[t] EXCEPT !.snooze = None] ELSE db[t]]
    /\ lastRun' = now
    /\ owed' = [t \in Tasks |-> owed[t] \/ SnoozeExpired(db[t])]
    /\ armed' = [t \in Tasks |-> armed[t] /\ t \notin DueTasks]
    /\ UNCHANGED <<now, faults, acts, late, sent, chased>>

\* A run that finds nothing changes nothing, so only the others are steps.
FetchFollowups ==
    /\ job["followups"] = Idle /\ FollowupTasks # {}
    /\ job' = [job EXCEPT !["followups"].snap = FollowupTasks]
    /\ UNCHANGED <<now, db, lastRun, faults, acts, history>>

FetchAsks ==
    /\ job["finish"] = Idle /\ AskTasks # {}
    /\ job' = [job EXCEPT !["finish"].snap = AskTasks]
    /\ UNCHANGED <<now, db, lastRun, faults, acts, history>>

\* What a job writes once its send has returned (nothing if the row is gone).
Marked(j, r) ==
    CASE ~r.live -> r
      [] r.live /\ j = "reminders" -> [r EXCEPT !.lastRem = now]
      [] r.live /\ j = "followups" -> [r EXCEPT !.lastRem = now, !.count = @ + 1]
      [] r.live /\ j = "finish" -> [r EXCEPT !.asked = now]

Mark(j, S) == db' = [t \in Tasks |-> IF t \in S THEN Marked(j, db[t]) ELSE db[t]]

Group(t) == {s \in job["followups"].snap : Owner[s] = Owner[t]}

\* A send arrives: one message per task, a user's only follow-up, or a question
\* outside quiet hours, which check_did_you_finish reads before each send.
Arrive(j, t) ==
    /\ job[j].phase = "loop" /\ t \in job[j].snap
    /\ j = "followups" => Group(t) = {t}
    /\ j = "finish" => ~Quiet
    /\ job' = [job EXCEPT ![j] = [phase |-> "sent", snap |-> @.snap \ {t}, cur |-> {t}]]
    /\ Ping(j, {t})
    /\ UNCHANGED <<now, db, lastRun, faults, acts, armed>>

Returned(j) ==
    /\ job[j].phase = "sent"
    /\ Mark(j, job[j].cur)
    /\ job' = [job EXCEPT ![j] = [@ EXCEPT !.phase = "loop", !.cur = {}]]
    /\ armed' = [t \in Tasks |-> armed[t] /\ (j = "finish" \/ t \notin job[j].cur)]
    /\ UNCHANGED <<now, lastRun, faults, acts, late, sent, chased, owed>>

\* The send raises, before the message left or after it was delivered.  The two
\* other jobs catch it per task; check_followups catches it around its whole
\* loop, and the users it had not reached yet are dropped.
SendFails(j, t) ==
    /\ \/ job[j].phase = "loop" /\ t \in job[j].snap /\ (j = "followups" => Group(t) = {t})
       \/ job[j].phase = "sent" /\ t \in job[j].cur
    /\ job' = [job EXCEPT ![j] = [phase |-> "loop", cur |-> {},
                                  snap |-> IF j = "followups" THEN {} ELSE @.snap \ {t}]]
    /\ Fault
    /\ UNCHANGED <<now, db, lastRun, acts, history>>

SkipInQuietHours(t) ==
    /\ Quiet /\ job["finish"].phase = "loop" /\ t \in job["finish"].snap
    /\ job' = [job EXCEPT !["finish"].snap = @ \ {t}]
    /\ UNCHANGED <<now, db, lastRun, faults, acts, history>>

\* Several overdue tasks of one user: the listed ones are counted and marked
\* first, then one message is sent, and its failure is ignored.
StartBatch(t, shown) ==
    /\ job["followups"].phase = "loop" /\ t \in job["followups"].snap
    /\ Group(t) # {t}
    /\ shown \subseteq Group(t)
    /\ Cardinality(shown) = IF Cardinality(Group(t)) < BatchShown
                            THEN Cardinality(Group(t)) ELSE BatchShown
    /\ Mark("followups", shown)
    /\ job' = [job EXCEPT !["followups"] =
                 [phase |-> "batch", snap |-> @.snap \ Group(t), cur |-> shown]]
    /\ armed' = [s \in Tasks |-> armed[s] /\ s \notin shown]
    /\ UNCHANGED <<now, lastRun, faults, acts, late, sent, chased, owed>>

BatchDone == job' = [job EXCEPT !["followups"] = [@ EXCEPT !.phase = "loop", !.cur = {}]]

BatchArrives ==
    /\ job["followups"].phase = "batch"
    /\ Ping("followups", job["followups"].cur)
    /\ BatchDone
    /\ UNCHANGED <<now, db, lastRun, faults, acts, armed>>

BatchFails ==
    /\ job["followups"].phase = "batch"
    /\ BatchDone /\ Fault
    /\ UNCHANGED <<now, db, lastRun, acts, history>>

\* daily_carry_forward, at 00:05 if the bot is up then.
CarryForward ==
    /\ Minute = CarryAt
    /\ LET moved == {t \in Tasks : /\ Active(db[t]) /\ OneTime(db[t])
                                   /\ db[t].date # None /\ db[t].date < Today}
       IN /\ moved # {}
          /\ db' = [t \in Tasks |-> IF t \in moved THEN [db[t] EXCEPT !.date = Today] ELSE db[t]]
          /\ armed' = [t \in Tasks |-> armed[t] /\ t \notin moved]
    /\ UNCHANGED <<now, job, lastRun, faults, acts, late, sent, chased, owed>>

\* The process dies and run.sh starts it again: coroutines are lost, rows are not.
Crash ==
    /\ \E j \in Jobs : job[j] # Idle
    /\ job' = [j \in Jobs |-> Idle]
    /\ Fault
    /\ UNCHANGED <<now, db, lastRun, acts, history>>

-----------------------------------------------------------------------------
(* The user *)

Write(t, r) ==
    /\ acts[t] < MaxActs[t]
    /\ db' = [db EXCEPT ![t] = r]
    /\ acts' = [acts EXCEPT ![t] = @ + 1]
    /\ late' = [late EXCEPT ![t] = [j \in Jobs |-> 0]]
    /\ armed' = [armed EXCEPT ![t] = FALSE]
    /\ owed' = [owed EXCEPT ![t] = FALSE]
    /\ UNCHANGED <<now, job, lastRun, faults, sent, chased>>

Update(t, r) == db[t].live /\ r # db[t] /\ Write(t, r)

\* add_task; an id that was deleted never comes back.
AddTask(t) ==
    /\ ~db[t].live /\ acts[t] = 0
    /\ \E d \in Dates, m \in Times, rec \in Recurrences :
          Write(t, [Absent EXCEPT !.live = TRUE, !.date = d, !.time = m,
                                  !.recur = rec[1], !.rday = rec[2]])

MarkDone(t) == Update(t, [db[t] EXCEPT !.done = TRUE])
DeleteTask(t) == Update(t, [db[t] EXCEPT !.live = FALSE])
\* mutant: minutes subtracted
SnoozeTask_Backwards(t) == \E k \in SnoozeMins : Update(t, [db[t] EXCEPT !.snooze = now - k - 1])
SnoozeTask(t) == \E k \in SnoozeMins : Update(t, [db[t] EXCEPT !.snooze = now + k])
PostponeTask(t) == Update(t, [db[t] EXCEPT !.date = Today + 1, !.snooze = None])
PauseTask(t) == Update(t, [db[t] EXCEPT !.paused = TRUE])
ResumeTask(t) == Update(t, [db[t] EXCEPT !.paused = FALSE])
StopReminders(t) == Update(t, [db[t] EXCEPT !.time = None, !.snooze = None])

\* update_task skips the fields it is given no value for.
EditTask(t) ==
    \E d \in Dates, m \in Times :
        Update(t, [db[t] EXCEPT !.date = IF d = None THEN @ ELSE d,
                                !.time = IF m = None THEN @ ELSE m])

-----------------------------------------------------------------------------

DueAt(r) == r.date * DayLen + r.time

Tick ==
    /\ now < (LastDay + 1) * DayLen - 1
    /\ now - lastRun < MaxAway
    /\ now' = now + 1
    /\ armed' = [t \in Tasks |->
          \/ armed[t]
          \/ /\ Active(db[t]) /\ OneTime(db[t]) /\ db[t].snooze = None
             /\ db[t].date # None /\ db[t].time # None /\ DueAt(db[t]) = now + 1
             /\ db[t].lastRem = None \/ Day(db[t].lastRem) < Day(now + 1)]
    /\ sent' = IF Day(now + 1) = Today THEN sent ELSE [t \in Tasks |-> 0]
    /\ UNCHANGED <<db, job, lastRun, faults, acts, late, chased, owed>>

UserStep ==
    \E t \in Tasks :
        \/ AddTask(t) \/ MarkDone(t) \/ DeleteTask(t) \/ SnoozeTask(t) \/ PostponeTask(t)
        \/ PauseTask(t) \/ ResumeTask(t) \/ StopReminders(t) \/ EditTask(t)

JobStep ==
    \/ FetchReminders \/ FetchFollowups \/ FetchAsks
    \/ \E j \in Jobs : Returned(j)
    \/ \E j \in Jobs, t \in Tasks : Arrive(j, t) \/ SendFails(j, t)
    \/ \E t \in Tasks : SkipInQuietHours(t)
    \/ \E t \in Tasks, shown \in SUBSET Tasks : StartBatch(t, shown)
    \/ BatchArrives \/ BatchFails
    \/ CarryForward

Next == UserStep \/ JobStep \/ Crash \/ Tick

Spec == Init /\ [][Next]_vars

-----------------------------------------------------------------------------
(* Properties *)

\* The clock, the rows, the coroutines and the history keep their types.
TypeOK ==
    /\ now \in Nat /\ lastRun \in Nat /\ faults \in Nat
    /\ db \in [Tasks -> Row]
    /\ job \in [Jobs -> [phase : {"loop", "sent", "batch"}, snap : SUBSET Tasks, cur : SUBSET Tasks]]
    /\ acts \in [Tasks -> Nat]
    /\ late \in [Tasks -> [Jobs -> Nat]]
    /\ sent \in [Tasks -> Nat] /\ chased \in [Tasks -> Nat]
    /\ armed \in [Tasks -> BOOLEAN] /\ owed \in [Tasks -> BOOLEAN]

\* Once the user's last act on a task has left it done, paused, deleted or
\* snoozed, each job sends at most one more ping about it: the one its
\* snapshot already held (main.py check_reminders, check_followups and
\* check_did_you_finish send from a list read before the first await).
SilenceAfterOnePing == \A t \in Tasks, j \in Jobs : late[t][j] <= 1

\* max_reminders_per_task bounds what the user hears from check_followups over
\* the life of a task, whatever is postponed, carried forward, snoozed or
\* resumed meanwhile; only a crash or a failed send between the message and
\* increment_reminder_count costs one message more.
FollowupBudget == \A t \in Tasks : chased[t] <= MaxReminders + faults

\* Of what check_reminders reads in a day it pings a task at most once for each
\* thing the user did with it (adding it, snoozing it, moving it), crashes and
\* failures apart, although two jobs write last_reminded and the stamp follows
\* the send.  A reading that is sent after midnight belongs to the day before.
OnePingPerAct == \A t \in Tasks : sent[t] <= acts[t] + faults

\* A one-time reminder is never missed: when the bot is away for no longer than
\* the lookback window, the row is picked up (or the user hears of it from a
\* message that was under way) before it leaves the window.  The window compares
\* times of day, so this is said of times whose window does not cross midnight.
NoReminderMissed ==
    \A t \in Tasks :
        /\ armed[t]
        /\ db[t].time >= Lookback /\ db[t].time + MaxAway <= DayLen
        => now - DueAt(db[t]) <= Lookback

\* Without crashes and failed sends an expired snooze that get_due_tasks has
\* cleared still has its ping to come: "the reminder re-fires once that time
\* passes" (docs/reminders.md).
SnoozeRefires ==
    faults = 0 => \A t \in Tasks : owed[t] => t \in job["reminders"].snap
=============================================================================
