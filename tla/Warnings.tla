------------------------------ MODULE Warnings ------------------------------
(***************************************************************************)
(* The jobs that look ahead (main.py): deadline_buffer_check warns of a    *)
(* deadline 7 days, 3 days, 1 day, 6 hours and 1 hour before it, each once *)
(* (buffer_sent), and priority_nudge announces a task of high priority in  *)
(* the last three hours, once (followup_count, which the did-you-finish    *)
(* job raises too).                                                        *)
(*                                                                         *)
(* A job reads its rows when it starts and then sends one message after    *)
(* the other through TelegramSender; while it waits, the owner completes,  *)
(* mutes, moves and flags tasks.  A message is marked after it was sent.   *)
(* The unit of time is the interval of both jobs, half an hour; a run      *)
(* takes its turn before time goes on, unless its sends take longer.       *)
(***************************************************************************)
EXTENDS Delivery, FiniteSets

CONSTANTS
    Tasks,
    Stages,       \* BUFFER_STAGES
    Threshold,    \* the time before the deadline from which a stage is due
    NudgeSpan,    \* the three hours
    Evening,      \* times from which the three hours end after midnight
    Quiet,        \* times in the owner's quiet hours
    MaxTime,      \* bound
    MaxActs       \* bound: acts of the owner

Jobs == {"warn", "nudge"}
Nudge == "nudge"
Marks == Stages \cup {Nudge}

ASSUME WarningSizes ==
    /\ Senders = Jobs /\ Messages = Tasks \X Marks \X (1 .. MaxTime) /\ Nudge \notin Stages
    /\ Threshold \in [Stages -> Nat \ {0}]
    /\ \A s, t \in Stages : s # t => Threshold[s] # Threshold[t]
    /\ Stages # {} /\ NudgeSpan \in Nat /\ MaxTime \in Nat \ {0} /\ MaxActs \in Nat
    /\ Evening \subseteq Nat /\ Quiet \subseteq Nat

VARIABLES
    now,
    up,         \* the process runs
    task,       \* the rows: open (neither done, paused nor deleted), flagged, due, marks
    run,        \* per job, the rows it has read and not yet handled
    turn,       \* jobs that the scheduler starts next
    acts,
    got,        \* history: how often each warning has come
    spare,      \* history: those that had to come again, unmarked or twice
    late,       \* history: tasks' warnings since they were silenced
    told,       \* history: warnings come, with the deadline they were for
    calm,       \* history: deadlines that a whole run met undisturbed in the last stage
    moved       \* history: tasks whose deadline was changed

history == <<got, spare, late, told, calm, moved>>
vars == <<now, up, task, run, turn, acts, history, post, faults>>

NoTime == 0    \* due_time is NULL

\* open also stands for "exists": a row that is deleted is never read again
TaskRows == [open : BOOLEAN, flagged : BOOLEAN, due : 0 .. MaxTime, marks : SUBSET Marks]
NoRun == [at |-> 0, rows |-> {}, ends |-> {}]

Left(t, at) == task[t].due - at

Init ==
    /\ DeliveryInit
    /\ now = 0 /\ up = TRUE /\ turn = Jobs /\ acts = 0
    /\ task \in [Tasks -> {r \in TaskRows : r.flagged /\ r.due # NoTime /\ r.marks = {}}]
    /\ run = [j \in Jobs |-> NoRun]
    /\ got = [t \in Tasks |-> [m \in Marks |-> 0]] /\ spare = got
    /\ late = [t \in Tasks |-> 0]
    /\ told = {} /\ calm = {} /\ moved = {}

-----------------------------------------------------------------------------
(* Time and the scheduler *)

Running(j) == run[j].rows # {} \/ ~Free(j)

\* A job that is still running when it should start is left out.
Tick ==
    /\ now < MaxTime
    /\ up => turn = {}
    /\ now' = now + 1
    /\ turn' = {j \in Jobs : up /\ ~Running(j)}
    /\ UNCHANGED <<up, task, run, acts, history, post, faults>>

\* mutant: the deadline flag is not looked at
PendingDeadlines_AllTasks == {t \in Tasks : task[t].open /\ task[t].due # NoTime /\ Left(t, now) > 0}

\* get_pending_deadlines: one-time tasks with a time ahead
PendingDeadlines == {t \in Tasks : task[t].open /\ task[t].flagged /\ task[t].due # NoTime /\ Left(t, now) > 0}

\* get_high_priority_soon compares times of day: none after midnight
HighPrioritySoon ==
    {t \in Tasks : /\ task[t].open /\ task[t].due # NoTime /\ now \notin Evening
                   /\ Left(t, now) > 0 /\ Left(t, now) <= NudgeSpan}

Reads(j) == IF j = "warn" THEN PendingDeadlines ELSE HighPrioritySoon

\* the rows as they are now; ends: those that nothing has disturbed since
Start(j) ==
    /\ up /\ j \in turn
    /\ turn' = turn \ {j}
    /\ run' = [run EXCEPT ![j] = [at |-> now, ends |-> Reads(j),
                                  rows |-> {<<t, task[t].due, task[t].marks>> : t \in Reads(j)}]]
    /\ UNCHANGED <<now, up, task, acts, history, post, faults>>

\* the stages a row is in and was not warned of
Unsent(row, at) == {s \in Stages : row[2] - at <= Threshold[s] /\ s \notin row[3]}

\* mutant: as the comment has it, the largest buffer first
Choice_Largest(j, row) ==
    IF j = "nudge" THEN {Nudge} \ row[3]
    ELSE {s \in Unsent(row, run[j].at) : \A x \in Unsent(row, run[j].at) : Threshold[x] <= Threshold[s]}

\* the nearest stage not yet sent, larger ones after it in later runs
Choice(j, row) ==
    IF j = "nudge" THEN {Nudge} \ row[3]
    ELSE {s \in Unsent(row, run[j].at) : \A x \in Unsent(row, run[j].at) : Threshold[s] <= Threshold[x]}

\* the loop: quiet hours and rows with nothing to send are passed over
Take(j, row) ==
    /\ up /\ row \in run[j].rows /\ Free(j)
    /\ run' = [run EXCEPT ![j].rows = @ \ {row}, ![j].ends = IF now \in Quiet THEN @ \ {row[1]} ELSE @]
    /\ IF now \in Quiet \/ Choice(j, row) = {} THEN UNCHANGED post
       ELSE \E m \in Choice(j, row) : Submit(j, <<row[1], m, row[2]>>)
    /\ calm' = IF now \in Quiet \/ j # "warn" THEN calm
               ELSE IF Choice(j, row) = {} /\ row[1] \in run[j].ends THEN calm \cup {<<row[1], row[2], run[j].at>>}
               ELSE calm
    /\ UNCHANGED <<now, up, task, turn, acts, got, spare, late, told, moved, faults>>

-----------------------------------------------------------------------------
(* Delivery *)

Of(j) == post[j].msg
Silenced(t) == ~task[t].open \/ ~task[t].flagged \/ task[t].due = NoTime

\* came: whether the message of this attempt reaches the chat
Comes(j) ==
    LET t == Of(j)[1]
        m == Of(j)[2]
    IN /\ got' = [got EXCEPT ![t][m] = @ + 1]
       /\ told' = told \cup {Of(j)}
       /\ late' = IF Silenced(t) /\ m # Nudge /\ post[j].copies = 0 THEN [late EXCEPT ![t] = @ + 1] ELSE late

Sends(j) ==
    /\ up /\ Returns(j) /\ Comes(j)
    /\ UNCHANGED <<now, up, task, run, turn, acts, spare, calm, moved>>

TimesOut(j) ==
    /\ up /\ TryAgain(j, 1) /\ Comes(j)
    /\ spare' = [spare EXCEPT ![Of(j)[1]][Of(j)[2]] = @ + 1]
    /\ UNCHANGED <<now, up, task, run, turn, acts, calm, moved>>

Waits(j) ==
    /\ up /\ TryAgain(j, 0)
    /\ UNCHANGED <<now, up, task, run, turn, acts, history>>

IsRefused(j) ==
    /\ up /\ Refused(j)
    /\ UNCHANGED <<now, up, task, run, turn, acts, history>>

\* mutant: the column is overwritten
Marked_Last(t, m) == [task EXCEPT ![t].marks = {m}]

\* mark_buffer_sent adds to the column as it is now; mark_followup_sent counts
Marked(t, m) == [task EXCEPT ![t].marks = @ \cup {m}]

MarkSent(j) ==
    /\ up /\ Is(j, "sent")
    /\ Resume(j)
    /\ task' = Marked(Of(j)[1], Of(j)[2])
    /\ calm' = IF j = "warn" /\ Of(j)[1] \in run[j].ends THEN calm \cup {<<Of(j)[1], Of(j)[3], run[j].at>>} ELSE calm
    /\ UNCHANGED <<now, up, run, turn, acts, got, spare, late, told, moved, faults>>

\* logged, and on with the next row
GiveUp(j) ==
    /\ up /\ Is(j, "failed")
    /\ Resume(j)
    /\ UNCHANGED <<now, up, task, run, turn, acts, history, faults>>

Crash ==
    /\ up /\ Fault
    /\ up' = FALSE /\ turn' = {}
    /\ run' = [j \in Jobs |-> NoRun]
    /\ post' = [j \in Jobs |-> NoPost]
    /\ spare' = [t \in Tasks |-> [m \in Marks |->
                    IF \E j \in Jobs : Is(j, "sent") /\ Of(j)[1] = t /\ Of(j)[2] = m
                    THEN spare[t][m] + 1 ELSE spare[t][m]]]
    /\ UNCHANGED <<now, task, acts, got, late, told, calm, moved>>

\* run_repeating(first=...): every job starts minutes after the process
Restart ==
    /\ ~up /\ up' = TRUE /\ turn' = Jobs
    /\ UNCHANGED <<now, task, run, acts, history, post, faults>>

-----------------------------------------------------------------------------
(* The owner, and other jobs *)

Acts(t) ==
    /\ acts < MaxActs /\ acts' = acts + 1
    /\ run' = [j \in Jobs |-> [run[j] EXCEPT !.ends = @ \ {t}]]
    /\ UNCHANGED <<now, up, turn, got, spare, told, calm, post, faults>>

Set(t, row) ==
    /\ task' = [task EXCEPT ![t] = row]
    /\ late' = [late EXCEPT ![t] = 0]

\* done, deleted, paused; resumed, carried on: the marks stay
Close(t) == Acts(t) /\ task[t].open /\ Set(t, [task[t] EXCEPT !.open = FALSE]) /\ UNCHANGED moved
Reopen(t) == Acts(t) /\ ~task[t].open /\ Set(t, [task[t] EXCEPT !.open = TRUE]) /\ UNCHANGED moved

\* /deadline, and "Mute buffers"
Flag(t, on) == Acts(t) /\ Set(t, [task[t] EXCEPT !.flagged = on]) /\ UNCHANGED moved

\* edits, "Tomorrow", carry forward: the marks stay
Move(t, due) ==
    /\ Acts(t) /\ task[t].due # due
    /\ Set(t, [task[t] EXCEPT !.due = due])
    /\ moved' = moved \cup {t}

\* check_did_you_finish marks the task as asked, once its time has passed
Asked(t) ==
    /\ up /\ task[t].open /\ task[t].due # NoTime /\ Left(t, now) < 0 /\ Nudge \notin task[t].marks
    /\ task' = Marked(t, Nudge)
    /\ UNCHANGED <<now, up, run, turn, acts, history, post, faults>>

JobStep ==
    \E j \in Jobs :
        \/ Start(j)
        \/ \E row \in run[j].rows : Take(j, row)
        \/ Sends(j) \/ TimesOut(j) \/ Waits(j) \/ IsRefused(j) \/ MarkSent(j) \/ GiveUp(j)

Next ==
    \/ Tick \/ JobStep \/ Crash \/ Restart
    \/ \E t \in Tasks :
          \/ Close(t) \/ Reopen(t) \/ Asked(t)
          \/ \E on \in BOOLEAN : Flag(t, on)
          \/ \E due \in 0 .. MaxTime : Move(t, due)

Spec == Init /\ [][Next]_vars

-----------------------------------------------------------------------------
(* Properties *)

TypeOK ==
    /\ now \in 0 .. MaxTime /\ up \in BOOLEAN
    /\ task \in [Tasks -> TaskRows]
    /\ turn \subseteq Jobs /\ acts \in 0 .. MaxActs
    /\ faults \in 0 .. MaxFaults
    /\ \A j \in Jobs :
          /\ post[j] = NoPost \/ post[j] \in Posts
          /\ run[j].rows \subseteq Tasks \X (1 .. MaxTime) \X SUBSET Marks
          /\ \A r1, r2 \in run[j].rows : r1[1] = r2[1] => r1 = r2

\* "Each buffer level fires once" (CHANGELOG v10.1), and a nudge comes "once each": a
\* warning comes again only for an attempt that timed out and had come, or a crash
\* before the mark.
EachLevelOnce ==
    \A t \in Tasks, m \in Marks : got[t][m] <= 1 + spare[t][m]

\* Muting, completing or pausing a task stops its warnings but for one that a run
\* under way had already read.
OneAfterMute == \A t \in Tasks : late[t] <= 1

Last == CHOOSE s \in Stages : \A x \in Stages : Threshold[s] <= Threshold[x]

\* A run in the last stage that nothing disturbs, no quiet hours, no refusal, no crash
\* and no act on the task, has warned the owner of this deadline, unless it was moved.
LastWarningComes ==
    \A c \in calm : c[1] \notin moved /\ c[2] - c[3] <= Threshold[Last] => <<c[1], Last, c[2]>> \in told
=============================================================================
