-------------------------- MODULE RemindersProofs --------------------------
(***************************************************************************)
(* For every number of tasks, users and minutes: the reminder engine is    *)
(* type correct, each job is at most one ping behind what the user asked   *)
(* for, the follow-ups keep to their budget, each act earns one reminder a *)
(* day, an expired snooze keeps its ping, and no reminder is missed while  *)
(* outages stay within the lookback.                                       *)
(***************************************************************************)
EXTENDS Reminders, TLAPS

\* The day of a minute is a number.
LEMMA TodayNat == ASSUME now \in Nat PROVE Today \in Nat
BY SizesAssumption DEF Today, Day

\* What users may type has the types of the columns it goes to.
LEMMA InputTypes ==
    /\ \A d \in Dates : d \in Nat \cup {None}
    /\ \A m \in Times : m \in Nat \cup {None}
    /\ \A rec \in Recurrences : rec[1] \in {"", "daily", "weekly", "monthly"} /\ rec[2] \in Nat
    /\ \A k \in SnoozeMins : k \in Nat
<1>1. DayLen \in Nat
  BY SizesAssumption
<1>2. \A m \in 0 .. (DayLen - 1) : m \in Nat
  BY <1>1
<1>3. Times \subseteq (0 .. (DayLen - 1)) \cup {None}
  BY InputsAssumption
<1>4. \A m \in Times : m \in Nat \cup {None}
  BY <1>2, <1>3
<1>5. Dates \subseteq Nat \cup {None} /\ SnoozeMins \subseteq Nat
  BY InputsAssumption
<1>6. Recurrences \subseteq {"", "daily", "weekly", "monthly"} \X Nat
  BY InputsAssumption
<1> QED  BY <1>4, <1>5, <1>6

-----------------------------------------------------------------------------
(* Type correctness *)

\* What a job writes after its send is a row.
LEMMA MarkedType ==
    ASSUME TypeOK, NEW j \in Jobs, NEW r \in Row
    PROVE  /\ Marked(j, r) \in Row
           /\ \A k \in Jobs : Silent(k, Marked(j, r)) <=> Silent(k, r)
           /\ Marked(j, r).live = r.live
           /\ Marked(j, r).count = IF r.live /\ j = "followups" THEN r.count + 1 ELSE r.count
<1>1. CASE ~r.live
  BY <1>1 DEF Marked, Row
<1>2. CASE r.live /\ j = "reminders"
  <2>1. Marked(j, r) = [r EXCEPT !.lastRem = now]
    BY <1>2 DEF Marked
  <2>2. Marked(j, r) \in Row
    BY <2>1 DEF Row, TypeOK
  <2>3. \A k \in Jobs : Silent(k, Marked(j, r)) <=> Silent(k, r)
    BY <2>1 DEF Row, Silent, Snoozed
  <2> QED  BY <1>2, <2>1, <2>2, <2>3 DEF Row
<1>3. CASE r.live /\ j = "followups"
  <2>1. Marked(j, r) = [r EXCEPT !.lastRem = now, !.count = @ + 1]
    BY <1>3 DEF Marked
  <2>0. r.count \in Nat
    BY DEF Row
  <2>2. now \in Nat /\ r.count + 1 \in Nat
    BY <2>0 DEF TypeOK
  <2> DEFINE n == r.count + 1
  <2> HIDE DEF n
  <2>3. Marked(j, r) \in Row
    <3>1. Marked(j, r) = [r EXCEPT !.lastRem = now, !.count = n]
      BY <2>1 DEF n
    <3>2. n \in Nat
      BY <2>2 DEF n
    <3> QED  BY <2>2, <3>1, <3>2 DEF Row
  <2>4. \A k \in Jobs : Silent(k, Marked(j, r)) <=> Silent(k, r)
    BY <2>1 DEF Row, Silent, Snoozed
  <2> QED  BY <1>3, <2>1, <2>3, <2>4 DEF Row
<1>4. CASE r.live /\ j = "finish"
  <2>1. Marked(j, r) = [r EXCEPT !.asked = now]
    BY <1>4 DEF Marked
  <2>2. Marked(j, r) \in Row
    BY <2>1 DEF Row, TypeOK
  <2>3. \A k \in Jobs : Silent(k, Marked(j, r)) <=> Silent(k, r)
    BY <2>1 DEF Row, Silent, Snoozed
  <2> QED  BY <1>4, <2>1, <2>2, <2>3 DEF Row
<1> QED  BY <1>1, <1>2, <1>3, <1>4 DEF Jobs, Row

\* So the table keeps its type when a job marks a set of tasks.
LEMMA MarkType ==
    ASSUME TypeOK, NEW j \in Jobs, NEW S, Mark(j, S)
    PROVE  db' \in [Tasks -> Row]
BY MarkedType DEF Mark, TypeOK

\* A message changes the history only, and keeps its types.
LEMMA PingType ==
    ASSUME TypeOK, NEW j \in Jobs, NEW S, Ping(j, S)
    PROVE  /\ late' \in [Tasks -> [Jobs -> Nat]]
           /\ sent' \in [Tasks -> Nat] /\ chased' \in [Tasks -> Nat]
           /\ owed' \in [Tasks -> BOOLEAN]
<1>1. late' \in [Tasks -> [Jobs -> Nat]]
  BY DEF Ping, TypeOK
<1>2. sent' \in [Tasks -> Nat] /\ chased' \in [Tasks -> Nat]
  BY DEF Ping, TypeOK
<1>3. owed' \in [Tasks -> BOOLEAN]
  BY DEF Ping, TypeOK
<1> QED  BY <1>1, <1>2, <1>3

\* A write of a row by a handler keeps the types of all it touches.
LEMMA WriteType ==
    ASSUME TypeOK, NEW t \in Tasks, NEW r \in Row, Write(t, r)
    PROVE  TypeOK'
BY DEF Write, TypeOK, Jobs

UserAction(t) ==
    \/ AddTask(t) \/ MarkDone(t) \/ DeleteTask(t) \/ SnoozeTask(t) \/ PostponeTask(t)
    \/ PauseTask(t) \/ ResumeTask(t) \/ StopReminders(t) \/ EditTask(t)

\* Every user action is one write of one row, which keeps the follow-up count of
\* a task the user already had.
LEMMA UserWrites ==
    ASSUME TypeOK, NEW t \in Tasks, UserAction(t)
    PROVE  \E r \in Row : /\ Write(t, r)
                          /\ \/ db[t].live /\ r.count = db[t].count
                             \/ acts[t] = 0 /\ r.count = 0
<1> DEFINE R(r) == Write(t, r) /\ (\/ db[t].live /\ r.count = db[t].count
                                   \/ acts[t] = 0 /\ r.count = 0)
<1> db[t] \in Row
  BY DEF TypeOK
<1>1. CASE AddTask(t)
  <2>1. PICK d \in Dates, m \in Times, rec \in Recurrences :
           Write(t, [Absent EXCEPT !.live = TRUE, !.date = d, !.time = m,
                                   !.recur = rec[1], !.rday = rec[2]])
    BY <1>1 DEF AddTask
  <2>2. rec[1] \in {"", "daily", "weekly", "monthly"} /\ rec[2] \in Nat
    BY InputTypes
  <2>3. d \in Nat \cup {None} /\ m \in Nat \cup {None}
    BY InputTypes
  <2> DEFINE r == [Absent EXCEPT !.live = TRUE, !.date = d, !.time = m,
                                 !.recur = rec[1], !.rday = rec[2]]
  <2>4. r \in Row /\ r.count = 0
    BY <2>2, <2>3 DEF Absent, Row
  <2> QED  BY <1>1, <2>1, <2>4 DEF AddTask
<1>2. ASSUME NEW r \in Row, Update(t, r), r.count = db[t].count
      PROVE  \E q \in Row : R(q)
  BY <1>2 DEF Update
<1>3. CASE MarkDone(t)
  BY <1>2, <1>3 DEF MarkDone, Row
<1>4. CASE DeleteTask(t)
  BY <1>2, <1>4 DEF DeleteTask, Row
<1>5. CASE SnoozeTask(t)
  <2>1. PICK k \in SnoozeMins : Update(t, [db[t] EXCEPT !.snooze = now + k])
    BY <1>5 DEF SnoozeTask
  <2>2. k \in Nat
    BY InputTypes
  <2>3. now + k \in Nat
    BY <2>2 DEF TypeOK
  <2> QED  BY <1>2, <2>1, <2>3 DEF Row
<1>6. CASE PostponeTask(t)
  <2>1. Today + 1 \in Nat
    BY TodayNat DEF TypeOK
  <2> QED  BY <1>2, <1>6, <2>1 DEF PostponeTask, Row
<1>7. CASE PauseTask(t)
  BY <1>2, <1>7 DEF PauseTask, Row
<1>8. CASE ResumeTask(t)
  BY <1>2, <1>8 DEF ResumeTask, Row
<1>9. CASE StopReminders(t)
  BY <1>2, <1>9 DEF StopReminders, Row
<1>10. CASE EditTask(t)
  <2>1. PICK d \in Dates, m \in Times :
           Update(t, [db[t] EXCEPT !.date = IF d = None THEN @ ELSE d,
                                   !.time = IF m = None THEN @ ELSE m])
    BY <1>10 DEF EditTask
  <2>2. d \in Nat \cup {None} /\ m \in Nat \cup {None}
    BY InputTypes
  <2> QED  BY <1>2, <2>1, <2>2 DEF Row
<1> QED  BY <1>1, <1>3, <1>4, <1>5, <1>6, <1>7, <1>8, <1>9, <1>10 DEF UserAction

\* An idle job is a job.
LEMMA IdleType ==
    Idle \in [phase : {"loop", "sent", "batch"}, snap : SUBSET Tasks, cur : SUBSET Tasks]
BY DEF Idle

\* The empty database is well typed.
LEMMA TypeInit == Init => TypeOK
<1>1. Absent \in Row
  BY DEF Absent, Row
<1> QED  BY <1>1, IdleType DEF Init, TypeOK

\* Each step of the engine keeps the types.
LEMMA TypeNext == TypeOK /\ [Next]_vars => TypeOK'
<1> SUFFICES ASSUME TypeOK, [Next]_vars PROVE TypeOK'
  OBVIOUS
<1>1. CASE UserStep
  <2>1. PICK t \in Tasks : UserAction(t)
    BY <1>1 DEF UserStep, UserAction
  <2> QED  BY <2>1, UserWrites, WriteType
<1>2. CASE FetchReminders
  <2>1. DueTasks \subseteq Tasks
    BY DEF DueTasks
  <2>2. db' \in [Tasks -> Row]
    <3>1. ASSUME NEW r \in Row PROVE [r EXCEPT !.snooze = None] \in Row
      BY DEF Row
    <3> QED  BY <1>2, <3>1 DEF FetchReminders, TypeOK
  <2>3. owed' \in [Tasks -> BOOLEAN] /\ armed' \in [Tasks -> BOOLEAN]
    BY <1>2 DEF FetchReminders, TypeOK, SnoozeExpired
  <2>4. lastRun' \in Nat
    BY <1>2 DEF FetchReminders, TypeOK
  <2>5. job' \in [Jobs -> [phase : {"loop", "sent", "batch"}, snap : SUBSET Tasks, cur : SUBSET Tasks]]
    BY <1>2, <2>1 DEF FetchReminders, TypeOK, Jobs
  <2> QED  BY <1>2, <2>2, <2>3, <2>4, <2>5 DEF FetchReminders, TypeOK
<1>3. CASE FetchFollowups
  <2>1. FollowupTasks \subseteq Tasks
    BY DEF FollowupTasks
  <2> QED  BY <1>3, <2>1 DEF FetchFollowups, TypeOK, Jobs, history
<1>4. CASE FetchAsks
  <2>1. AskTasks \subseteq Tasks
    BY DEF AskTasks
  <2> QED  BY <1>4, <2>1 DEF FetchAsks, TypeOK, Jobs, history
<1>5. ASSUME NEW j \in Jobs, Returned(j) PROVE TypeOK'
  <2>1. db' \in [Tasks -> Row]
    BY <1>5, MarkType DEF Returned
  <2>2. armed' \in [Tasks -> BOOLEAN]
    BY <1>5 DEF Returned, TypeOK
  <2> QED  BY <1>5, <2>1, <2>2 DEF Returned, TypeOK
<1>6. ASSUME NEW j \in Jobs, NEW t \in Tasks, Arrive(j, t) PROVE TypeOK'
  <2>1. Ping(j, {t})
    BY <1>6 DEF Arrive
  <2>2. job' \in [Jobs -> [phase : {"loop", "sent", "batch"}, snap : SUBSET Tasks, cur : SUBSET Tasks]]
    BY <1>6 DEF Arrive, TypeOK
  <2> QED  BY <1>6, <2>1, <2>2, PingType DEF Arrive, TypeOK
<1>7. ASSUME NEW j \in Jobs, NEW t \in Tasks, SendFails(j, t) PROVE TypeOK'
  BY <1>7 DEF SendFails, Fault, TypeOK, history
<1>8. ASSUME NEW t \in Tasks, SkipInQuietHours(t) PROVE TypeOK'
  BY <1>8 DEF SkipInQuietHours, TypeOK, history
<1>9. ASSUME NEW t \in Tasks, NEW shown \in SUBSET Tasks, StartBatch(t, shown) PROVE TypeOK'
  <2>1. db' \in [Tasks -> Row]
    BY <1>9, MarkType DEF StartBatch, Jobs
  <2>2. armed' \in [Tasks -> BOOLEAN]
    BY <1>9 DEF StartBatch, TypeOK
  <2>3. job' \in [Jobs -> [phase : {"loop", "sent", "batch"}, snap : SUBSET Tasks, cur : SUBSET Tasks]]
    BY <1>9 DEF StartBatch, TypeOK
  <2> QED  BY <1>9, <2>1, <2>2, <2>3 DEF StartBatch, TypeOK
<1>10. CASE BatchArrives
  <2>1. Ping("followups", job["followups"].cur)
    BY <1>10 DEF BatchArrives
  <2> QED  BY <1>10, <2>1, PingType DEF BatchArrives, BatchDone, TypeOK, Jobs
<1>11. CASE BatchFails
  <2>1. job' \in [Jobs -> [phase : {"loop", "sent", "batch"}, snap : SUBSET Tasks, cur : SUBSET Tasks]]
    BY <1>11 DEF BatchFails, BatchDone, TypeOK
  <2>2. faults' \in Nat
    BY <1>11 DEF BatchFails, Fault, TypeOK
  <2> QED  BY <1>11, <2>1, <2>2 DEF BatchFails, TypeOK, history
<1>12. CASE CarryForward
  <2>1. Today \in Nat
    BY TodayNat DEF TypeOK
  <2>2. ASSUME NEW r \in Row PROVE [r EXCEPT !.date = Today] \in Row
    BY <2>1 DEF Row
  <2>3. db' \in [Tasks -> Row]
    BY <1>12, <2>2 DEF CarryForward, TypeOK
  <2>4. armed' \in [Tasks -> BOOLEAN]
    BY <1>12 DEF CarryForward, TypeOK
  <2> QED  BY <1>12, <2>3, <2>4 DEF CarryForward, TypeOK
<1>13. CASE Crash
  BY <1>13, IdleType DEF Crash, Fault, TypeOK, history
<1>14. CASE Tick
  <2>1. now' \in Nat
    BY <1>14 DEF Tick, TypeOK
  <2>2. sent' \in [Tasks -> Nat] /\ armed' \in [Tasks -> BOOLEAN]
    BY <1>14 DEF Tick, TypeOK
  <2> QED  BY <1>14, <2>1, <2>2 DEF Tick, TypeOK
<1>15. CASE UNCHANGED vars
  BY <1>15 DEF vars, TypeOK
<1> QED
  BY <1>1, <1>2, <1>3, <1>4, <1>5, <1>6, <1>7, <1>8, <1>9, <1>10, <1>11, <1>12, <1>13,
     <1>14, <1>15 DEF Next, JobStep

\* Every variable keeps its type, for any number of tasks and any clock: the
\* rows the jobs and the user's handlers write are rows of the tasks table.
THEOREM TypeCorrect == Spec => []TypeOK
BY TypeInit, TypeNext, PTL DEF Spec

-----------------------------------------------------------------------------
(* The two safety invariants.  What is still to be sent about a task is what *)
(* a job read and has not sent yet; both bounds hold because that is at most *)
(* one message per job, read when the task was neither silent nor at its cap.*)

InFlight(j, t) ==
    t \in job[j].snap \/ (job[j].phase = "batch" /\ t \in job[j].cur)

JobInv == \A j \in Jobs : /\ job[j].cur \cap job[j].snap = {}
                          /\ job[j].phase = "batch" => j = "followups"

SilenceInv ==
    \A t \in Tasks, j \in Jobs :
        /\ late[t][j] <= 1
        /\ InFlight(j, t) /\ Silent(j, db[t]) => late[t][j] = 0

\* None of the three lists holds a silent task.
LEMMA NotSilent ==
    ASSUME TypeOK, NEW t \in Tasks
    PROVE  /\ t \in DueTasks => ~Silent("reminders", db[t])
           /\ t \in FollowupTasks => ~Silent("followups", db[t])
           /\ t \in AskTasks => ~Silent("finish", db[t])
<1>1. t \in DueTasks => ~Silent("reminders", db[t])
  <2>1. db[t].snooze # None => db[t].snooze \in Nat /\ now \in Nat
    BY DEF TypeOK, Row
  <2>2. SnoozeExpired(db[t]) => ~Snoozed(db[t])
    BY <2>1 DEF SnoozeExpired, Snoozed
  <2> QED  BY <2>2 DEF DueTasks, OneTimeDue, RecurringDue, SnoozeExpired, Active, Silent
<1>2. t \in FollowupTasks => ~Silent("followups", db[t])
  BY DEF FollowupTasks, Chaseable, Active, Silent
<1>3. t \in AskTasks => ~Silent("finish", db[t])
  BY DEF AskTasks, Askable, Active, Silent
<1> QED  BY <1>1, <1>2, <1>3

\* The jobs do not change what the user asked for, and time only ends snoozes.
LEMMA SilenceKept ==
    ASSUME TypeOK, JobStep \/ Crash \/ Tick, NEW t \in Tasks, NEW j \in Jobs,
           Silent(j, db[t])'
    PROVE  Silent(j, db[t])
<1>1. CASE db' = db /\ now' = now
  BY <1>1 DEF Silent, Snoozed
<1>2. ASSUME NEW k \in Jobs, NEW S, Mark(k, S), now' = now PROVE Silent(j, db[t])
  <2>1. db'[t] = db[t] \/ db'[t] = Marked(k, db[t])
    BY <1>2 DEF Mark
  <2>2. db[t] \in Row
    BY DEF TypeOK
  <2>3. Silent(j, db'[t])
    BY <1>2 DEF Silent, Snoozed
  <2> QED  BY <2>1, <2>2, <2>3, MarkedType
<1>3. CASE FetchReminders
  <2>1. db[t] \in Row /\ now' = now
    BY <1>3 DEF TypeOK, FetchReminders
  <2>2. db'[t] = db[t] \/ db'[t] = [db[t] EXCEPT !.snooze = None]
    BY <1>3 DEF FetchReminders
  <2> QED  BY <2>1, <2>2 DEF Silent, Snoozed, Row
<1>4. CASE CarryForward
  <2>1. db[t] \in Row /\ now' = now
    BY <1>4 DEF TypeOK, CarryForward
  <2>2. db'[t] = db[t] \/ db'[t] = [db[t] EXCEPT !.date = Today]
    BY <1>4 DEF CarryForward
  <2> QED  BY <2>1, <2>2 DEF Silent, Snoozed, Row
<1>5. CASE Tick
  <2>1. db[t] \in Row /\ now \in Nat /\ now' = now + 1 /\ db' = db
    BY <1>5 DEF TypeOK, Tick
  <2>2. db[t].snooze # None => db[t].snooze \in Nat
    BY <2>1 DEF Row
  <2> QED  BY <2>1, <2>2 DEF Silent, Snoozed
<1> QED
  BY <1>1, <1>2, <1>3, <1>4, <1>5
  DEF JobStep, Crash, FetchFollowups, FetchAsks, Returned, Arrive, SendFails, SkipInQuietHours,
      StartBatch, BatchArrives, BatchFails, Jobs

\* A task whose ping is neither new in a list nor arriving keeps what it had.
LEMMA SilenceFrame ==
    ASSUME TypeOK, SilenceInv, JobStep \/ Crash \/ Tick, late' = late,
           NEW t \in Tasks, NEW j \in Jobs,
           InFlight(j, t)' => InFlight(j, t) \/ ~Silent(j, db[t])
    PROVE  /\ late'[t][j] <= 1
           /\ InFlight(j, t)' /\ Silent(j, db[t])' => late'[t][j] = 0
BY SilenceKept DEF SilenceInv

\* Each step keeps the shape of the coroutines: what is being sent is no
\* longer in the list.
LEMMA JobInvNext == TypeOK /\ JobInv /\ [Next]_vars => JobInv'
<1> SUFFICES ASSUME TypeOK, JobInv, [Next]_vars PROVE JobInv'
  OBVIOUS
<1>1. CASE job' = job
  BY <1>1 DEF JobInv
<1>2. CASE UserStep
  <2>1. PICK t \in Tasks : UserAction(t)
    BY <1>2 DEF UserStep, UserAction
  <2> QED  BY <1>1, <2>1, UserWrites DEF Write
<1>3. CASE FetchReminders
  BY <1>3 DEF FetchReminders, JobInv, TypeOK, Idle, Jobs
<1>4. CASE FetchFollowups
  BY <1>4 DEF FetchFollowups, JobInv, TypeOK, Idle, Jobs
<1>5. CASE FetchAsks
  BY <1>5 DEF FetchAsks, JobInv, TypeOK, Idle, Jobs
<1>6. ASSUME NEW j \in Jobs, Returned(j) PROVE JobInv'
  BY <1>6 DEF Returned, JobInv, TypeOK
<1>7. ASSUME NEW j \in Jobs, NEW t \in Tasks, Arrive(j, t) PROVE JobInv'
  BY <1>7 DEF Arrive, JobInv, TypeOK
<1>8. ASSUME NEW j \in Jobs, NEW t \in Tasks, SendFails(j, t) PROVE JobInv'
  BY <1>8 DEF SendFails, JobInv, TypeOK
<1>9. ASSUME NEW t \in Tasks, SkipInQuietHours(t) PROVE JobInv'
  BY <1>9 DEF SkipInQuietHours, JobInv, TypeOK
<1>10. ASSUME NEW t \in Tasks, NEW shown \in SUBSET Tasks, StartBatch(t, shown) PROVE JobInv'
  <2>1. job' = [job EXCEPT !["followups"] =
                  [phase |-> "batch", snap |-> @.snap \ Group(t), cur |-> shown]]
        /\ shown \subseteq Group(t)
    BY <1>10 DEF StartBatch
  <2>2. \A j \in Jobs : j # "followups" => job'[j] = job[j]
    BY <2>1 DEF TypeOK
  <2>3. job'["followups"].cur = shown /\ job'["followups"].snap = job["followups"].snap \ Group(t)
    BY <2>1 DEF TypeOK, Jobs
  <2> QED  BY <2>1, <2>2, <2>3 DEF JobInv
<1>11. CASE BatchArrives \/ BatchFails
  <2>1. \A j \in Jobs : \/ job'[j] = job[j]
                        \/ job'[j].cur = {} /\ job'[j].phase = "loop"
    BY <1>11 DEF BatchArrives, BatchFails, BatchDone, TypeOK
  <2> QED  BY <2>1 DEF JobInv
<1>12. CASE Crash
  BY <1>12 DEF Crash, Idle, JobInv
<1> QED
  BY <1>1, <1>2, <1>3, <1>4, <1>5, <1>6, <1>7, <1>8, <1>9, <1>10, <1>11, <1>12
  DEF Next, JobStep, CarryForward, Tick, vars

\* Each step keeps the silence invariant: a ping of a silent task uses up the
\* one its job still had.
LEMMA SilenceNext == TypeOK /\ JobInv /\ SilenceInv /\ [Next]_vars => SilenceInv'
<1> SUFFICES ASSUME TypeOK, JobInv, SilenceInv, [Next]_vars,
                    NEW t \in Tasks, NEW j \in Jobs
             PROVE  /\ late'[t][j] <= 1
                    /\ InFlight(j, t)' /\ Silent(j, db[t])' => late'[t][j] = 0
  BY DEF SilenceInv
<1> DEFINE Goal == /\ late'[t][j] <= 1
                   /\ InFlight(j, t)' /\ Silent(j, db[t])' => late'[t][j] = 0
<1>1. CASE UserStep
  <2>1. PICK s \in Tasks : UserAction(s)
    BY <1>1 DEF UserStep, UserAction
  <2>2. PICK r \in Row : Write(s, r)
    BY <2>1, UserWrites
  <2>3. CASE s = t
    BY <2>2, <2>3 DEF Write, TypeOK
  <2>4. CASE s # t
    BY <2>2, <2>4 DEF Write, TypeOK, SilenceInv, InFlight, Silent, Snoozed
  <2> QED  BY <2>3, <2>4
<1>2. CASE FetchReminders \/ FetchFollowups \/ FetchAsks
  <2>1. late' = late
    BY <1>2 DEF FetchReminders, FetchFollowups, FetchAsks, history
  <2>2. InFlight(j, t)' => InFlight(j, t) \/ ~Silent(j, db[t])
    BY <1>2, NotSilent DEF FetchReminders, FetchFollowups, FetchAsks, InFlight, TypeOK, Idle, Jobs
  <2> QED  BY <1>2, <2>1, <2>2, SilenceFrame DEF JobStep
<1>3. ASSUME NEW k \in Jobs, Returned(k) PROVE Goal
  <2>1. InFlight(j, t)' => InFlight(j, t)
    BY <1>3 DEF Returned, InFlight, TypeOK
  <2> QED  BY <1>3, <2>1, SilenceFrame DEF JobStep, Returned
<1>4. ASSUME NEW k \in Jobs, NEW s \in Tasks, SendFails(k, s) PROVE Goal
  <2>1. InFlight(j, t)' => InFlight(j, t)
    BY <1>4 DEF SendFails, InFlight, TypeOK
  <2> QED  BY <1>4, <2>1, SilenceFrame DEF JobStep, SendFails, history
<1>5. ASSUME NEW s \in Tasks, SkipInQuietHours(s) PROVE Goal
  <2>1. InFlight(j, t)' => InFlight(j, t)
    BY <1>5 DEF SkipInQuietHours, InFlight, TypeOK
  <2> QED  BY <1>5, <2>1, SilenceFrame DEF JobStep, SkipInQuietHours, history
<1>6. ASSUME NEW s \in Tasks, NEW shown \in SUBSET Tasks, StartBatch(s, shown) PROVE Goal
  <2>1. InFlight(j, t)' => InFlight(j, t)
    BY <1>6 DEF StartBatch, Group, InFlight, TypeOK
  <2> QED  BY <1>6, <2>1, SilenceFrame DEF JobStep, StartBatch
<1>7. CASE BatchFails
  <2>1. InFlight(j, t)' => InFlight(j, t)
    BY <1>7 DEF BatchFails, BatchDone, InFlight, TypeOK
  <2> QED  BY <1>7, <2>1, SilenceFrame DEF JobStep, BatchFails, history
<1>8. CASE CarryForward \/ Tick
  <2>1. InFlight(j, t)' => InFlight(j, t)
    BY <1>8 DEF CarryForward, Tick, InFlight
  <2> QED  BY <1>8, <2>1, SilenceFrame DEF JobStep, CarryForward, Tick
<1>9. CASE Crash
  <2>1. ~InFlight(j, t)'
    BY <1>9 DEF Crash, Idle, InFlight
  <2> QED  BY <1>9, <2>1, SilenceFrame DEF Crash, history
<1>10. ASSUME NEW k \in Jobs, NEW S \in SUBSET Tasks, Ping(k, S), UNCHANGED <<db, now>>,
              \A s \in S : InFlight(k, s),
              InFlight(j, t)' => InFlight(j, t) /\ ~(j = k /\ t \in S)
       PROVE  Goal
  <2>1. CASE j = k /\ t \in S
    BY <1>10, <2>1 DEF Ping, TypeOK, SilenceInv
  <2>2. CASE ~(j = k /\ t \in S)
    <3>1. late'[t][j] = late[t][j]
      BY <1>10, <2>2 DEF Ping, TypeOK
    <3>2. Silent(j, db[t])' <=> Silent(j, db[t])
      BY <1>10 DEF Silent, Snoozed
    <3> QED  BY <1>10, <3>1, <3>2 DEF SilenceInv
  <2> QED  BY <2>1, <2>2
<1>11. ASSUME NEW k \in Jobs, NEW s \in Tasks, Arrive(k, s) PROVE Goal
  <2>1. InFlight(k, s)
    BY <1>11 DEF Arrive, InFlight
  <2>2. InFlight(j, t)' => InFlight(j, t) /\ ~(j = k /\ t = s)
    BY <1>11 DEF Arrive, InFlight, TypeOK
  <2> QED  BY <1>10, <1>11, <2>1, <2>2 DEF Arrive
<1>12. CASE BatchArrives
  <2> DEFINE S == job["followups"].cur
  <2>1. S \in SUBSET Tasks /\ \A s \in S : InFlight("followups", s)
    BY <1>12 DEF BatchArrives, InFlight, TypeOK, Jobs
  <2>2. InFlight(j, t)' => InFlight(j, t) /\ ~(j = "followups" /\ t \in S)
    BY <1>12 DEF BatchArrives, BatchDone, InFlight, TypeOK, JobInv, Jobs
  <2> QED  BY <1>10, <1>12, <2>1, <2>2 DEF BatchArrives, Jobs
<1>13. CASE UNCHANGED vars
  BY <1>13 DEF vars, SilenceInv, InFlight, Silent, Snoozed
<1> QED
  BY <1>1, <1>2, <1>3, <1>4, <1>5, <1>6, <1>7, <1>8, <1>9, <1>11, <1>12, <1>13
  DEF Next, JobStep

\* Nobody has been pinged in the empty database.
LEMMA SilenceInit == Init => JobInv /\ SilenceInv
BY DEF Init, JobInv, SilenceInv, Idle, InFlight

\* After the user's last act on a task has silenced it, each job sends at most
\* the one message its snapshot already held: for any number of tasks, jobs'
\* delays, crashes and failed sends.
THEOREM Silence == Spec => []SilenceAfterOnePing
<1>1. SilenceInv => SilenceAfterOnePing
  BY DEF SilenceInv, SilenceAfterOnePing
<1> QED  BY <1>1, TypeInit, TypeNext, SilenceInit, JobInvNext, SilenceNext, PTL DEF Spec

-----------------------------------------------------------------------------
(* The follow-up budget.  reminder_count is behind the messages the user got *)
(* while an await is pending and ahead of them while a batch is on its way;  *)
(* a crash or a failed send may leave it behind for good, and is counted.    *)

F == job["followups"]
Listed(t) == t \in F.snap
Batched(t) == F.phase = "batch" /\ t \in F.cur
Unmarked(t) == F.phase = "sent" /\ t \in F.cur
One(p) == IF p THEN 1 ELSE 0

TaskBudget(t) ==
    /\ acts[t] = 0 => ~db[t].live /\ chased[t] = 0 /\ ~Listed(t) /\ ~Batched(t) /\ ~Unmarked(t)
    /\ chased[t] + One(Listed(t) \/ Batched(t)) <= MaxReminders + faults
    /\ db[t].live =>
         /\ Listed(t) \/ Unmarked(t) => db[t].count < MaxReminders
         /\ chased[t] + One(Batched(t)) <= db[t].count + faults + One(Unmarked(t))

BudgetInv == \A t \in Tasks : TaskBudget(t)

\* Nothing is counted or sent in the empty database.
LEMMA BudgetInit == Init => BudgetInv
<1> SUFFICES ASSUME Init, NEW t \in Tasks PROVE TaskBudget(t)
  BY DEF BudgetInv
<1>1. F = Idle
  BY DEF Init, F, Jobs
<1>2. ~Listed(t) /\ ~Batched(t) /\ ~Unmarked(t)
  BY <1>1 DEF Idle, Listed, Batched, Unmarked
<1>3. chased[t] = 0 /\ faults = 0 /\ ~db[t].live /\ MaxReminders \in Nat
  BY SizesAssumption DEF Init, Absent
<1> QED  BY <1>2, <1>3 DEF TaskBudget, One

\* Each step keeps the budget invariant: a message is counted, will be
\* counted when its await returns, or is paid for by a fault.
LEMMA BudgetNext == TypeOK /\ JobInv /\ BudgetInv /\ [Next]_vars => BudgetInv'
<1> SUFFICES ASSUME TypeOK, JobInv, BudgetInv, [Next]_vars, NEW t \in Tasks
             PROVE  TaskBudget(t)'
  BY DEF BudgetInv
<1>a. /\ TaskBudget(t) /\ MaxReminders \in Nat /\ faults \in Nat /\ chased[t] \in Nat
      /\ db[t] \in Row /\ db[t].count \in Nat /\ F.cur \cap F.snap = {} /\ acts[t] \in Nat
  BY SizesAssumption DEF BudgetInv, TypeOK, Row, JobInv, F, Jobs
<1> DEFINE SameRow == db'[t].live = db[t].live /\ db'[t].count = db[t].count
           SameJob == F' = F
           SameCounts == chased'[t] = chased[t] /\ acts'[t] = acts[t] /\ faults' = faults
           Failed == chased'[t] = chased[t] /\ acts'[t] = acts[t] /\ faults' = faults + 1
<1>b. ASSUME SameRow, SameJob, SameCounts PROVE TaskBudget(t)'
  <2>1. Listed(t)' = Listed(t) /\ Batched(t)' = Batched(t) /\ Unmarked(t)' = Unmarked(t)
    BY <1>b DEF Listed, Batched, Unmarked
  <2> QED  BY <1>a, <1>b, <2>1 DEF TaskBudget
<1>c. ASSUME SameRow, Failed, Listed(t)' => Listed(t), Batched(t)' => Batched(t), ~Unmarked(t)'
      PROVE  TaskBudget(t)'
  BY <1>a, <1>c DEF TaskBudget, One
<1>1. CASE UserStep
  <2>1. PICK s \in Tasks : UserAction(s)
    BY <1>1 DEF UserStep, UserAction
  <2>2. PICK r \in Row : Write(s, r) /\ (\/ db[s].live /\ r.count = db[s].count
                                         \/ acts[s] = 0 /\ r.count = 0)
    BY <2>1, UserWrites
  <2>3. F' = F /\ chased' = chased /\ faults' = faults
    BY <2>2 DEF Write, F
  <2>4. CASE s # t
    <3>1. SameRow /\ acts'[t] = acts[t]
      BY <2>2, <2>4 DEF Write, TypeOK
    <3> QED  BY <1>b, <2>3, <3>1
  <2>5. CASE s = t
    <3>1. db'[t] = r /\ acts'[t] = acts[t] + 1
      BY <2>2, <2>5 DEF Write, TypeOK
    <3>2. Listed(t)' = Listed(t) /\ Batched(t)' = Batched(t) /\ Unmarked(t)' = Unmarked(t)
      BY <2>3 DEF Listed, Batched, Unmarked
    <3> QED  BY <1>a, <2>2, <2>3, <2>5, <3>1, <3>2 DEF TaskBudget, One
  <2> QED  BY <2>4, <2>5
<1>2. CASE FetchReminders
  <2>1. SameRow
    BY <1>2 DEF FetchReminders, TypeOK, Row
  <2>2. SameJob /\ SameCounts
    BY <1>2 DEF FetchReminders, F, TypeOK, Jobs
  <2> QED  BY <1>b, <2>1, <2>2
<1>3. CASE FetchFollowups
  <2>1. t \in FollowupTasks => db[t].live /\ db[t].count < MaxReminders
    BY DEF FollowupTasks, Chaseable, Active
  <2>2. F = Idle /\ F'.snap = FollowupTasks /\ F'.phase = "loop"
    BY <1>3 DEF FetchFollowups, F, TypeOK, Jobs, Idle
  <2>3. /\ (Listed(t)' <=> t \in FollowupTasks) /\ ~Batched(t)' /\ ~Unmarked(t)'
        /\ ~Listed(t) /\ ~Batched(t) /\ ~Unmarked(t)
    BY <2>2 DEF Idle, Listed, Batched, Unmarked
  <2>4. SameRow /\ SameCounts
    BY <1>3 DEF FetchFollowups, history
  <2> QED  BY <1>a, <2>1, <2>3, <2>4 DEF TaskBudget, One
<1>4. CASE FetchAsks
  <2>1. SameRow /\ SameJob /\ SameCounts
    BY <1>4 DEF FetchAsks, F, TypeOK, Jobs, history
  <2> QED  BY <1>b, <2>1
<1>5. ASSUME NEW j \in Jobs, Returned(j) PROVE TaskBudget(t)'
  <2>1. /\ db'[t].live = db[t].live
        /\ db'[t].count = IF t \in job[j].cur /\ db[t].live /\ j = "followups"
                          THEN db[t].count + 1 ELSE db[t].count
    BY <1>5, <1>a, MarkedType DEF Returned, Mark
  <2>2. SameCounts
    BY <1>5 DEF Returned
  <2>3. CASE j # "followups"
    <3>1. SameJob
      BY <1>5, <2>3 DEF Returned, F, TypeOK, Jobs
    <3> QED  BY <1>b, <2>1, <2>2, <2>3, <3>1
  <2>4. CASE j = "followups"
    <3>1. F.phase = "sent" /\ F'.phase = "loop" /\ F'.snap = F.snap
      BY <1>5, <2>4 DEF Returned, F, TypeOK, Jobs
    <3>2. /\ ~Batched(t) /\ ~Batched(t)' /\ ~Unmarked(t)' /\ (Listed(t)' <=> Listed(t))
          /\ (Unmarked(t) <=> t \in job[j].cur) /\ (Unmarked(t) => ~Listed(t))
      BY <1>a, <2>4, <3>1 DEF Listed, Batched, Unmarked, F
    <3> QED  BY <1>a, <2>1, <2>2, <2>4, <3>2 DEF TaskBudget, One
  <2> QED  BY <2>3, <2>4
<1>6. ASSUME NEW j \in Jobs, NEW s \in Tasks, Arrive(j, s) PROVE TaskBudget(t)'
  <2>1. SameRow /\ acts'[t] = acts[t] /\ faults' = faults
    BY <1>6 DEF Arrive
  <2>2. CASE j # "followups"
    <3>1. SameJob /\ chased'[t] = chased[t]
      BY <1>6, <2>2 DEF Arrive, Ping, F, TypeOK, Jobs
    <3> QED  BY <1>b, <2>1, <3>1
  <2>3. CASE j = "followups"
    <3>1. /\ F.phase = "loop" /\ s \in F.snap
          /\ F'.phase = "sent" /\ F'.cur = {s} /\ F'.snap = F.snap \ {s}
      BY <1>6, <2>3 DEF Arrive, F, TypeOK, Jobs
    <3>2. chased'[t] = IF t = s THEN chased[t] + 1 ELSE chased[t]
      BY <1>6, <2>3 DEF Arrive, Ping
    <3>3. /\ ~Batched(t) /\ ~Unmarked(t) /\ ~Batched(t)' /\ (Unmarked(t)' <=> t = s)
          /\ (Listed(t)' <=> Listed(t) /\ t # s) /\ Listed(s)
      BY <3>1 DEF Listed, Batched, Unmarked
    <3> QED  BY <1>a, <2>1, <3>2, <3>3 DEF TaskBudget, One
  <2> QED  BY <2>2, <2>3
<1>7. ASSUME NEW j \in Jobs, NEW s \in Tasks, SendFails(j, s) PROVE TaskBudget(t)'
  <2>1. SameRow /\ Failed
    BY <1>7 DEF SendFails, Fault, history
  <2>2. CASE j # "followups"
    <3>1. SameJob
      BY <1>7, <2>2 DEF SendFails, F, TypeOK, Jobs
    <3>2. Listed(t)' = Listed(t) /\ Batched(t)' = Batched(t) /\ Unmarked(t)' = Unmarked(t)
      BY <3>1 DEF Listed, Batched, Unmarked
    <3> QED  BY <1>a, <2>1, <3>2 DEF TaskBudget, One
  <2>3. CASE j = "followups"
    <3>1. F'.phase = "loop" /\ F'.snap = {}
      BY <1>7, <2>3 DEF SendFails, F, TypeOK, Jobs
    <3> QED  BY <1>c, <2>1, <3>1 DEF Listed, Batched, Unmarked
  <2> QED  BY <2>2, <2>3
<1>8. ASSUME NEW s \in Tasks, SkipInQuietHours(s) PROVE TaskBudget(t)'
  <2>1. SameRow /\ SameJob /\ SameCounts
    BY <1>8 DEF SkipInQuietHours, F, TypeOK, Jobs, history
  <2> QED  BY <1>b, <2>1
<1>9. ASSUME NEW s \in Tasks, NEW shown \in SUBSET Tasks, StartBatch(s, shown) PROVE TaskBudget(t)'
  <2>1. /\ db'[t].live = db[t].live
        /\ db'[t].count = IF t \in shown /\ db[t].live THEN db[t].count + 1 ELSE db[t].count
    BY <1>9, <1>a, MarkedType DEF StartBatch, Mark, Jobs
  <2>2. SameCounts
    BY <1>9 DEF StartBatch
  <2>3. /\ F.phase = "loop" /\ shown \subseteq Group(s) /\ Group(s) \subseteq F.snap
        /\ F'.phase = "batch" /\ F'.cur = shown /\ F'.snap = F.snap \ Group(s)
    BY <1>9 DEF StartBatch, Group, F, TypeOK, Jobs
  <2>4. /\ ~Batched(t) /\ ~Unmarked(t) /\ (Batched(t)' <=> t \in shown) /\ ~Unmarked(t)'
        /\ (t \in shown => Listed(t) /\ ~Listed(t)') /\ (Listed(t)' => Listed(t))
    BY <2>3 DEF Listed, Batched, Unmarked
  <2> QED  BY <1>a, <2>1, <2>2, <2>4 DEF TaskBudget, One
<1>10. CASE BatchArrives
  <2>1. F.phase = "batch" /\ F'.phase = "loop" /\ F'.snap = F.snap
    BY <1>10 DEF BatchArrives, BatchDone, F, TypeOK, Jobs
  <2>2. SameRow /\ acts'[t] = acts[t] /\ faults' = faults
    BY <1>10 DEF BatchArrives
  <2>3. chased'[t] = IF t \in F.cur THEN chased[t] + 1 ELSE chased[t]
    BY <1>10 DEF BatchArrives, Ping, F
  <2>4. /\ ~Batched(t)' /\ ~Unmarked(t)' /\ ~Unmarked(t) /\ (Listed(t)' <=> Listed(t))
        /\ (Batched(t) <=> t \in F.cur) /\ (Batched(t) => ~Listed(t))
    BY <1>a, <2>1 DEF Listed, Batched, Unmarked
  <2> QED  BY <1>a, <2>2, <2>3, <2>4 DEF TaskBudget, One
<1>11. CASE BatchFails
  <2>1. SameRow /\ Failed
    BY <1>11 DEF BatchFails, Fault, history
  <2>2. F'.phase = "loop" /\ F'.snap = F.snap
    BY <1>11 DEF BatchFails, BatchDone, F, TypeOK, Jobs
  <2> QED  BY <1>c, <2>1, <2>2 DEF Listed, Batched, Unmarked
<1>12. CASE CarryForward
  <2>1. db[t] \in Row
    BY DEF TypeOK
  <2>2. db'[t] = db[t] \/ db'[t] = [db[t] EXCEPT !.date = Today]
    BY <1>12 DEF CarryForward
  <2>3. SameRow
    BY <2>1, <2>2 DEF Row
  <2> QED  BY <1>b, <1>12, <2>3 DEF CarryForward, F
<1>13. CASE Crash
  <2>1. SameRow /\ Failed
    BY <1>13 DEF Crash, Fault, history
  <2>2. F' = Idle
    BY <1>13 DEF Crash, F, Jobs
  <2> QED  BY <1>c, <2>1, <2>2 DEF Idle, Listed, Batched, Unmarked
<1>14. CASE Tick \/ UNCHANGED vars
  BY <1>b, <1>14 DEF Tick, vars, F
<1> QED
  BY <1>1, <1>2, <1>3, <1>4, <1>5, <1>6, <1>7, <1>8, <1>9, <1>10, <1>11, <1>12, <1>13, <1>14
  DEF Next, JobStep

\* check_followups sends at most max_reminders messages about a task over its
\* life, one more for each crash or failed send between a message and its mark.
THEOREM Budget == Spec => []FollowupBudget
<1>1. TypeOK /\ BudgetInv => FollowupBudget
  <2> SUFFICES ASSUME TypeOK, BudgetInv, NEW t \in Tasks PROVE chased[t] <= MaxReminders + faults
    BY DEF FollowupBudget
  <2>1. chased[t] \in Nat /\ faults \in Nat /\ MaxReminders \in Nat
    BY SizesAssumption DEF TypeOK
  <2> QED  BY <2>1 DEF BudgetInv, TaskBudget, One
<1> QED
  BY <1>1, TypeInit, TypeNext, SilenceInit, JobInvNext, BudgetInit, BudgetNext, PTL DEF Spec

-----------------------------------------------------------------------------
(* Minutes and days *)

\* A minute is its day and its place in it.
LEMMA Clock ==
    ASSUME NEW m \in Int
    PROVE  m = Day(m) * DayLen + (m % DayLen) /\ Day(m) \in Int /\ m % DayLen \in 0 .. DayLen - 1
<1>1. DayLen \in Nat \ {0}
  BY SizesAssumption
<1>2. m = (m \div DayLen) * DayLen + (m % DayLen)
  BY <1>1, Z3
<1>3. m \div DayLen \in Int
  BY <1>1
<1>4. m % DayLen \in 0 .. DayLen - 1
  BY <1>1
<1> QED
  BY <1>2, <1>3, <1>4 DEF Day

\* Which day a sum is in, and where
LEMMA ClockOf ==
    ASSUME NEW d \in Int, NEW x \in 0 .. DayLen - 1
    PROVE  Day(d * DayLen + x) = d /\ (d * DayLen + x) % DayLen = x
<1>1. DayLen \in Nat \ {0}
  BY SizesAssumption
<1>2. (d * DayLen + x) \div DayLen = d
  BY <1>1
<1>3. (d * DayLen + x) % DayLen = x
  BY <1>1
<1> QED
  BY <1>2, <1>3 DEF Day

LEMMA DaysApart ==
    ASSUME NEW c \in Int, NEW d \in Int
    PROVE  c < d => c * DayLen + DayLen <= d * DayLen
<1>1. DayLen \in Nat \ {0}
  BY SizesAssumption
<1> QED
  BY <1>1

\* Days do not run backwards.
LEMMA DaysInOrder ==
    ASSUME NEW m \in Nat, NEW n \in Nat, m <= n
    PROVE  Day(m) <= Day(n)
<1>1. DayLen \in Nat \ {0}
  BY SizesAssumption
<1> QED
  BY <1>1 DEF Day

-----------------------------------------------------------------------------
(* One ping for each act.  What the user did with a task pays for the pings  *)
(* that its reminder and its snooze can still cause today; a reading, its    *)
(* send and the stamp that follows pass one such claim on.                   *)

R == job["reminders"]

\* The first minute of today
Dawn == now - Minute

\* Read today and not yet sent
Waiting(t) == t \in R.snap /\ Day(lastRun) = Today

\* Due today, neither stamped since nor in the hands of the job.
StillDue(t) ==
    /\ db[t].live /\ db[t].time # None
    /\ ~(db[t].lastRem # None /\ db[t].lastRem >= Dawn + db[t].time)
    /\ ~(t \in R.snap \cup R.cur /\ lastRun >= Dawn + db[t].time)

ToCome(t) == One(StillDue(t)) + One(db[t].snooze # None)

PingBudget(t) ==
    /\ acts[t] = 0 => ~db[t].live /\ sent[t] = 0 /\ t \notin R.snap
    /\ sent[t] + One(Waiting(t)) <= acts[t] + faults
    /\ db[t].live =>
         /\ 1 + One(db[t].snooze # None) <= acts[t]
         /\ sent[t] + One(Waiting(t)) + ToCome(t) <= acts[t] + faults

HandInv ==
    /\ lastRun <= now /\ (R.phase = "loop" => R.cur = {})
    /\ \A t \in Tasks : db[t].lastRem = None \/ db[t].lastRem <= now

PingInv == \A t \in Tasks : PingBudget(t)

LEMMA DawnIs ==
    ASSUME now \in Nat
    PROVE  /\ Dawn = Today * DayLen /\ Today \in Int /\ Dawn \in Int
           /\ Minute \in 0 .. DayLen - 1 /\ now = Dawn + Minute /\ Dawn <= now
<1>1. now = Today * DayLen + Minute /\ Today \in Int /\ Minute \in 0 .. DayLen - 1
  BY Clock DEF Today, Minute
<1>2. DayLen \in Nat /\ Today * DayLen \in Int
  BY <1>1, SizesAssumption
<1> DEFINE p == Today * DayLen
<1>3. p \in Int /\ now = p + Minute
  BY <1>1, <1>2
<1> HIDE DEF p
<1>4. Dawn = p
  BY <1>1, <1>2, <1>3 DEF Dawn
<1> QED
  BY <1>1, <1>2, <1>3, <1>4 DEF p

\* What is of an earlier day is before dawn.
LEMMA BeforeDawn ==
    ASSUME now \in Nat, NEW m \in Nat, Day(m) < Today
    PROVE  m < Dawn
<1>1. m = Day(m) * DayLen + (m % DayLen) /\ Day(m) \in Int /\ m % DayLen \in 0 .. DayLen - 1
  BY Clock
<1>2. Dawn = Today * DayLen /\ Today \in Int
  BY DawnIs
<1>3. Day(m) * DayLen + DayLen <= Today * DayLen
  BY <1>1, <1>2, DaysApart
<1>4. DayLen \in Nat /\ Day(m) * DayLen \in Int /\ Today * DayLen \in Int
  BY <1>1, <1>2, SizesAssumption
<1> QED
  BY <1>1, <1>2, <1>3, <1>4

\* A time in the lookback window came at most that long ago, today.
LEMMA InWindow ==
    ASSUME now \in Nat, NEW time \in Nat \cup {None}, InLookback(time)
    PROVE  time \in Nat /\ Dawn + time <= now /\ now - Lookback <= Dawn + time
<1>1. time \in Nat /\ (now - Lookback) % DayLen <= time /\ time <= Minute
  BY DEF InLookback
<1>2. /\ Dawn = Today * DayLen /\ Today \in Int /\ Dawn \in Int
      /\ Minute \in 0 .. DayLen - 1 /\ now = Dawn + Minute
  BY DawnIs
<1>3. DayLen \in Nat \ {0} /\ Lookback \in Nat /\ Lookback < DayLen
  BY SizesAssumption, WindowAssumption
<1>4. CASE Lookback <= Minute
  <2>1. Minute - Lookback \in 0 .. DayLen - 1
    BY <1>2, <1>3, <1>4
  <2>2. (Today * DayLen + (Minute - Lookback)) % DayLen = Minute - Lookback
    BY <1>2, <2>1, ClockOf
  <2>3. now - Lookback = Today * DayLen + (Minute - Lookback)
    BY <1>2, <1>3
  <2> QED
    BY <1>1, <1>2, <1>3, <2>2, <2>3
<1>5. CASE Minute < Lookback
  <2> DEFINE x == Minute - Lookback + DayLen
  <2>1. x \in 0 .. DayLen - 1 /\ Today - 1 \in Int
    BY <1>2, <1>3, <1>5
  <2>2. ((Today - 1) * DayLen + x) % DayLen = x
    BY <2>1, ClockOf
  <2>3. (Today - 1) * DayLen = Today * DayLen - DayLen
    BY <1>2, <1>3
  <2>4. now - Lookback = (Today - 1) * DayLen + x
    BY <1>2, <1>3, <2>3
  <2>5. x > Minute
    BY <1>2, <1>3
  <2>6. (now - Lookback) % DayLen = x
    BY <2>2, <2>4
  <2> HIDE DEF x
  <2> QED
    BY <1>1, <1>2, <2>1, <2>5, <2>6
<1> QED
  BY <1>2, <1>3, <1>4, <1>5

\* What check_reminders reads because of its time was still due.
LEMMA WindowClaims ==
    ASSUME TypeOK, R = Idle, NEW t \in Tasks, OneTimeDue(db[t]) \/ RecurringDue(db[t])
    PROVE  StillDue(t) /\ db[t].time \in Nat /\ Dawn + db[t].time <= now
<1>1. now \in Nat /\ db[t] \in Row
  BY DEF TypeOK
<1>2. db[t].time \in Nat \cup {None} /\ db[t].lastRem \in Nat \cup {None}
  BY <1>1 DEF Row
<1>3. InLookback(db[t].time) /\ db[t].live
  BY DEF OneTimeDue, RecurringDue, Active
<1>4. db[t].time \in Nat /\ Dawn + db[t].time <= now /\ now - Lookback <= Dawn + db[t].time
  BY <1>1, <1>2, <1>3, InWindow
<1>5. Lookback \in Nat /\ RecurGap \in Nat /\ Lookback <= RecurGap /\ Dawn \in Int
  BY <1>1, SizesAssumption, WindowAssumption, DawnIs
<1>6. db[t].lastRem # None => db[t].lastRem \in Nat /\ db[t].lastRem < Dawn + db[t].time
  <2> SUFFICES ASSUME db[t].lastRem # None PROVE db[t].lastRem < Dawn + db[t].time
    BY <1>2
  <2>1. db[t].lastRem \in Nat
    BY <1>2
  <2>2. CASE OneTimeDue(db[t])
    <3>1. db[t].lastRem < Dawn
      BY <1>1, <2>1, <2>2, BeforeDawn DEF OneTimeDue
    <3> QED
      BY <1>4, <1>5, <2>1, <3>1
  <2>3. CASE RecurringDue(db[t])
    BY <1>1, <1>4, <1>5, <2>1, <2>3 DEF RecurringDue
  <2> QED
    BY <2>2, <2>3
<1>7. t \notin R.snap \cup R.cur
  BY DEF Idle
<1>8. None \notin Nat
  BY DEF None
<1> QED
  BY <1>3, <1>4, <1>5, <1>6, <1>7, <1>8 DEF StillDue

\* Every handler costs an act: it adds the task, sets a snooze, or changes
\* what is due.
LEMMA UserPays ==
    ASSUME TypeOK, NEW t \in Tasks, UserAction(t)
    PROVE  \E r \in Row :
             /\ Write(t, r) /\ r.lastRem \in {None, db[t].lastRem}
             /\ \/ ~db[t].live /\ acts[t] = 0 /\ r.snooze = None
                \/ db[t].live /\ r.snooze \in {None, db[t].snooze}
                \/ db[t].live /\ r.live /\ r.time = db[t].time /\ r.lastRem = db[t].lastRem
<1> DEFINE P(r) == /\ r.lastRem \in {None, db[t].lastRem}
                   /\ \/ ~db[t].live /\ acts[t] = 0 /\ r.snooze = None
                      \/ db[t].live /\ r.snooze \in {None, db[t].snooze}
                      \/ db[t].live /\ r.live /\ r.time = db[t].time /\ r.lastRem = db[t].lastRem
           Goal == \E r \in Row : Write(t, r) /\ P(r)
<1>0. db[t] \in Row
  BY DEF TypeOK
<1>1. PICK q \in Row : Write(t, q)
  BY UserWrites
<1>2. db'[t] = q
  BY <1>1 DEF Write, TypeOK
<1>3. ASSUME NEW r, Update(t, r), P(r) PROVE Goal
  <2>1. Write(t, r) /\ db'[t] = r
    BY <1>3 DEF Update, Write, TypeOK
  <2>2. r = q
    BY <1>2, <2>1
  <2> QED
    BY <1>3, <2>1, <2>2
<1>4. ASSUME AddTask(t) PROVE Goal
  <2>1. PICK d \in Dates, m \in Times, rec \in Recurrences :
           Write(t, [Absent EXCEPT !.live = TRUE, !.date = d, !.time = m,
                                   !.recur = rec[1], !.rday = rec[2]])
    BY <1>4 DEF AddTask
  <2> DEFINE r == [Absent EXCEPT !.live = TRUE, !.date = d, !.time = m,
                                 !.recur = rec[1], !.rday = rec[2]]
  <2>2. r.snooze = None /\ r.lastRem = None
    BY DEF Absent
  <2>3. ~db[t].live /\ acts[t] = 0
    BY <1>4 DEF AddTask
  <2> HIDE DEF r
  <2>4. Write(t, r)
    BY <2>1 DEF r
  <2>5. db'[t] = r
    BY <2>4 DEF Write, TypeOK
  <2>6. P(r) /\ r = q
    BY <1>2, <2>2, <2>3, <2>5
  <2> QED
    BY <2>4, <2>6
<1>5. ASSUME NEW r, Update(t, r), r.lastRem = db[t].lastRem,
             r.snooze \in {None, db[t].snooze} \/ (r.live = db[t].live /\ r.time = db[t].time)
      PROVE  Goal
  <2>1. db[t].live
    BY <1>5 DEF Update
  <2> QED
    BY <1>3, <1>5, <2>1
<1> HIDE DEF Goal, P
<1>6. CASE MarkDone(t)
  <2> DEFINE r == [db[t] EXCEPT !.done = TRUE]
  <2>1. r.lastRem = db[t].lastRem /\ r.snooze \in {None, db[t].snooze}
    BY <1>0 DEF Row
  <2>2. Update(t, r)
    BY <1>6 DEF MarkDone
  <2> HIDE DEF r
  <2> QED
    BY <1>5, <2>1, <2>2 DEF Goal, P
<1>7. CASE DeleteTask(t)
  <2> DEFINE r == [db[t] EXCEPT !.live = FALSE]
  <2>1. r.lastRem = db[t].lastRem /\ r.snooze \in {None, db[t].snooze}
    BY <1>0 DEF Row
  <2>2. Update(t, r)
    BY <1>7 DEF DeleteTask
  <2> HIDE DEF r
  <2> QED
    BY <1>5, <2>1, <2>2 DEF Goal, P
<1>8. CASE SnoozeTask(t)
  <2>1. PICK k \in SnoozeMins : Update(t, [db[t] EXCEPT !.snooze = now + k])
    BY <1>8 DEF SnoozeTask
  <2> DEFINE r == [db[t] EXCEPT !.snooze = now + k]
  <2>2. r.lastRem = db[t].lastRem /\ r.live = db[t].live /\ r.time = db[t].time
    BY <1>0 DEF Row
  <2>3. Update(t, r)
    BY <2>1
  <2> HIDE DEF r
  <2> QED
    BY <1>5, <2>2, <2>3 DEF Goal, P
<1>9. CASE PostponeTask(t)
  <2> DEFINE r == [db[t] EXCEPT !.date = Today + 1, !.snooze = None]
  <2>1. r.lastRem = db[t].lastRem /\ r.snooze \in {None, db[t].snooze}
    BY <1>0 DEF Row
  <2>2. Update(t, r)
    BY <1>9 DEF PostponeTask
  <2> HIDE DEF r
  <2> QED
    BY <1>5, <2>1, <2>2 DEF Goal, P
<1>10. CASE PauseTask(t)
  <2> DEFINE r == [db[t] EXCEPT !.paused = TRUE]
  <2>1. r.lastRem = db[t].lastRem /\ r.snooze \in {None, db[t].snooze}
    BY <1>0 DEF Row
  <2>2. Update(t, r)
    BY <1>10 DEF PauseTask
  <2> HIDE DEF r
  <2> QED
    BY <1>5, <2>1, <2>2 DEF Goal, P
<1>11. CASE ResumeTask(t)
  <2> DEFINE r == [db[t] EXCEPT !.paused = FALSE]
  <2>1. r.lastRem = db[t].lastRem /\ r.snooze \in {None, db[t].snooze}
    BY <1>0 DEF Row
  <2>2. Update(t, r)
    BY <1>11 DEF ResumeTask
  <2> HIDE DEF r
  <2> QED
    BY <1>5, <2>1, <2>2 DEF Goal, P
<1>12. CASE StopReminders(t)
  <2> DEFINE r == [db[t] EXCEPT !.time = None, !.snooze = None]
  <2>1. r.lastRem = db[t].lastRem /\ r.snooze \in {None, db[t].snooze}
    BY <1>0 DEF Row
  <2>2. Update(t, r)
    BY <1>12 DEF StopReminders
  <2> HIDE DEF r
  <2> QED
    BY <1>5, <2>1, <2>2 DEF Goal, P
<1>13. CASE EditTask(t)
  <2>1. PICK d \in Dates, m \in Times :
           Update(t, [db[t] EXCEPT !.date = IF d = None THEN @ ELSE d,
                                   !.time = IF m = None THEN @ ELSE m])
    BY <1>13 DEF EditTask
  <2> DEFINE r == [db[t] EXCEPT !.date = IF d = None THEN @ ELSE d, !.time = IF m = None THEN @ ELSE m]
  <2>2. r.lastRem = db[t].lastRem /\ r.snooze = db[t].snooze
    BY <1>0 DEF Row
  <2>3. Update(t, r)
    BY <2>1
  <2> HIDE DEF r
  <2> QED
    BY <1>5, <2>2, <2>3 DEF Goal, P
<1> QED
  BY <1>4, <1>6, <1>7, <1>8, <1>9, <1>10, <1>11, <1>12, <1>13 DEF UserAction, Goal, P

\* What a job's stamp leaves alone
LEMMA MarkedStamp ==
    ASSUME TypeOK, NEW j \in Jobs, NEW r \in Row
    PROVE  /\ Marked(j, r).live = r.live /\ Marked(j, r).time = r.time /\ Marked(j, r).snooze = r.snooze
           /\ Marked(j, r).date = r.date /\ Marked(j, r).done = r.done /\ Marked(j, r).paused = r.paused
           /\ Marked(j, r).recur = r.recur
           /\ Marked(j, r).lastRem = IF r.live /\ j # "finish" THEN now ELSE r.lastRem
  BY DEF Marked, Row, Jobs

\* Numbers
LEMMA PingNumbers ==
    ASSUME TypeOK, NEW t \in Tasks
    PROVE  /\ now \in Nat /\ lastRun \in Nat /\ acts[t] \in Nat /\ faults \in Nat /\ sent[t] \in Nat
           /\ db[t] \in Row /\ db[t].lastRem \in Nat \cup {None} /\ db[t].snooze \in Nat \cup {None}
           /\ db[t].time \in Nat \cup {None} /\ db[t].live \in BOOLEAN /\ None \notin Nat /\ Dawn \in Int
           /\ Day(lastRun) \in Int /\ Today \in Int
<1>1. now \in Nat /\ lastRun \in Nat /\ acts[t] \in Nat /\ faults \in Nat /\ sent[t] \in Nat /\ db[t] \in Row
  BY DEF TypeOK
<1>2. Dawn \in Int /\ Day(lastRun) \in Int /\ Today \in Int
  BY <1>1, DawnIs, Clock
<1>3. /\ db[t].lastRem \in Nat \cup {None} /\ db[t].snooze \in Nat \cup {None}
      /\ db[t].time \in Nat \cup {None} /\ db[t].live \in BOOLEAN
  BY <1>1 DEF Row
<1>4. None \notin Nat
  BY DEF None
<1> QED
  BY <1>1, <1>2, <1>3, <1>4

\* A step that claims nothing new: no act, no fault, no ping, the job's list
\* as it was, and no row but for later stamps.
LEMMA PingFrame ==
    ASSUME TypeOK, HandInv, PingInv, NEW t \in Tasks,
           acts'[t] = acts[t], faults' = faults, sent'[t] = sent[t],
           R' = R, now' = now, lastRun' = lastRun,
           db'[t].live = db[t].live, db'[t].time = db[t].time,
           db'[t].snooze = db[t].snooze, db'[t].lastRem \in {db[t].lastRem, now}
    PROVE  PingBudget(t)'
<1>1. PingBudget(t) /\ (db[t].lastRem = None \/ db[t].lastRem <= now)
  BY DEF PingInv, HandInv
<1>2. Dawn' = Dawn /\ (Waiting(t)' <=> Waiting(t)) /\ (t \in R'.snap <=> t \in R.snap)
  BY DEF Dawn, Minute, Waiting, Today, Day
<1>3. StillDue(t)' => StillDue(t)
  <2>1. now \in Nat /\ Dawn \in Int /\ db[t].lastRem \in Nat \cup {None} /\ None \notin Nat /\ now # None
    BY PingNumbers
  <2>2. db[t].time # None => Dawn + db[t].time \in Int
    BY <2>1, PingNumbers
  <2> QED
    BY <1>1, <1>2, <2>1, <2>2 DEF StillDue
<1>4. One(Waiting(t)') = One(Waiting(t)) /\ (db'[t].snooze # None <=> db[t].snooze # None)
  BY <1>2 DEF One
<1>5. One(StillDue(t)') <= One(StillDue(t))
  BY <1>3 DEF One
<1> DEFINE z == One(db[t].snooze # None)
           w == One(StillDue(t))
           w2 == One(StillDue(t)')
           p == One(Waiting(t))
<1>6. z \in Nat /\ w \in Nat /\ w2 \in Nat /\ p \in Nat /\ w2 <= w
  BY <1>5 DEF One
<1>7. One(db'[t].snooze # None) = z
  BY <1>4
<1>8. ToCome(t)' = w2 + z /\ ToCome(t) = w + z
  BY <1>7 DEF ToCome
<1>9. /\ acts[t] = 0 => ~db[t].live /\ sent[t] = 0 /\ t \notin R.snap
      /\ sent[t] + p <= acts[t] + faults
      /\ db[t].live => 1 + z <= acts[t] /\ sent[t] + p + (w + z) <= acts[t] + faults
  BY <1>1, <1>8 DEF PingBudget
<1> HIDE DEF z, w, w2, p
<1>10. sent[t] \in Nat /\ acts[t] \in Nat /\ faults \in Nat
  BY PingNumbers
<1>11. db[t].live => sent[t] + p + (w2 + z) <= acts[t] + faults
  BY <1>6, <1>9, <1>10
<1> QED
  BY <1>2, <1>4, <1>7, <1>8, <1>9, <1>11 DEF PingBudget, p

\* What is claimed before a step, in numbers
LEMMA Claims ==
    ASSUME TypeOK, PingInv, NEW t \in Tasks
    PROVE  /\ acts[t] = 0 => ~db[t].live /\ sent[t] = 0 /\ t \notin R.snap
           /\ sent[t] + One(Waiting(t)) <= acts[t] + faults
           /\ db[t].live =>
                /\ 1 + One(db[t].snooze # None) <= acts[t]
                /\ sent[t] + One(Waiting(t)) + (One(StillDue(t)) + One(db[t].snooze # None)) <= acts[t] + faults
  BY DEF PingInv, PingBudget, ToCome

LEMMA OneIs == ASSUME NEW p PROVE One(p) \in {0, 1} /\ (p => One(p) = 1) /\ (~p => One(p) = 0)
  BY DEF One

\* An act of the user pays for what it makes due.
LEMMA PingUser ==
    ASSUME TypeOK, HandInv, PingInv, UserStep, NEW t \in Tasks
    PROVE  PingBudget(t)'
<1>1. PICK s \in Tasks : UserAction(s)
  BY DEF UserStep, UserAction
<1>2. PICK r \in Row :
        /\ Write(s, r) /\ r.lastRem \in {None, db[s].lastRem}
        /\ \/ ~db[s].live /\ acts[s] = 0 /\ r.snooze = None
           \/ db[s].live /\ r.snooze \in {None, db[s].snooze}
           \/ db[s].live /\ r.live /\ r.time = db[s].time /\ r.lastRem = db[s].lastRem
  BY <1>1, UserPays
<1>3. R' = R /\ now' = now /\ lastRun' = lastRun /\ faults' = faults /\ sent' = sent
  BY <1>2 DEF Write, R
<1>4. CASE s # t
  <2>1. db'[t] = db[t] /\ acts'[t] = acts[t]
    BY <1>2, <1>4 DEF Write, TypeOK
  <2> QED
    BY <1>3, <2>1, PingFrame
<1>5. CASE s = t
  <2>1. db'[t] = r /\ acts'[t] = acts[t] + 1
    BY <1>2, <1>5 DEF Write, TypeOK
  <2>2. Dawn' = Dawn /\ (Waiting(t)' <=> Waiting(t)) /\ (t \in R'.snap <=> t \in R.snap)
    BY <1>3 DEF Dawn, Minute, Waiting, Today, Day
  <2>3. r.live /\ r.time = db[t].time /\ r.lastRem = db[t].lastRem /\ db[t].live => (StillDue(t)' <=> StillDue(t))
    BY <1>3, <2>1, <2>2 DEF StillDue
  <2> DEFINE p == One(Waiting(t))
             w == One(StillDue(t))
             z == One(db[t].snooze # None)
             w2 == One(StillDue(t)')
             z2 == One(r.snooze # None)
  <2>4. p \in {0, 1} /\ w \in {0, 1} /\ z \in {0, 1} /\ w2 \in {0, 1} /\ z2 \in {0, 1}
    BY OneIs
  <2>5. One(Waiting(t)') = p /\ One(db'[t].snooze # None) = z2
    BY <2>1, <2>2 DEF One
  <2>6. /\ sent[t] \in Nat /\ acts[t] \in Nat /\ faults \in Nat
        /\ acts[t] = 0 => ~db[t].live /\ sent[t] = 0 /\ t \notin R.snap
        /\ sent[t] + p <= acts[t] + faults
        /\ db[t].live => 1 + z <= acts[t] /\ sent[t] + p + (w + z) <= acts[t] + faults
    BY Claims, PingNumbers
  <2>7. \/ ~db[t].live /\ acts[t] = 0 /\ r.snooze = None
        \/ db[t].live /\ r.snooze \in {None, db[t].snooze}
        \/ db[t].live /\ r.live /\ r.time = db[t].time /\ r.lastRem = db[t].lastRem
    BY <1>2, <1>5
  <2>8. /\ r.snooze = None => z2 = 0
        /\ r.snooze = db[t].snooze => z2 = z
        /\ t \notin R.snap => p = 0
        /\ (StillDue(t)' <=> StillDue(t)) => w2 = w
    BY DEF One, Waiting
  <2>9. PingBudget(t)' <=>
          /\ acts'[t] = 0 => ~db'[t].live /\ sent'[t] = 0 /\ t \notin R'.snap
          /\ sent'[t] + p <= acts'[t] + faults'
          /\ db'[t].live => 1 + z2 <= acts'[t] /\ sent'[t] + p + (w2 + z2) <= acts'[t] + faults'
    BY <2>5 DEF PingBudget, ToCome
  <2> HIDE DEF p, w, z, w2, z2
  <2>10. acts'[t] # 0 /\ sent'[t] + p <= acts'[t] + faults'
    BY <1>3, <2>1, <2>4, <2>6
  <2>11. 1 + z2 <= acts'[t] /\ sent'[t] + p + (w2 + z2) <= acts'[t] + faults'
    <3>1. CASE ~db[t].live /\ acts[t] = 0 /\ r.snooze = None
      BY <1>3, <2>1, <2>4, <2>6, <2>8, <3>1
    <3>2. CASE db[t].live /\ r.snooze \in {None, db[t].snooze}
      <4>1. z2 <= z
        BY <2>4, <2>8, <3>2
      <4> QED
        BY <1>3, <2>1, <2>4, <2>6, <3>2, <4>1
    <3>3. CASE db[t].live /\ r.live /\ r.time = db[t].time /\ r.lastRem = db[t].lastRem
      <4>1. w2 = w
        BY <2>3, <2>8, <3>3
      <4> QED
        BY <1>3, <2>1, <2>4, <2>6, <3>3, <4>1
    <3> QED
      BY <2>7, <3>1, <3>2, <3>3
  <2> QED
    BY <2>9, <2>10, <2>11
<1> QED
  BY <1>4, <1>5

\* A reading takes the claim of the time, of the snooze or of both.
LEMMA PingFetch ==
    ASSUME TypeOK, HandInv, PingInv, FetchReminders, NEW t \in Tasks
    PROVE  PingBudget(t)'
<1>1. /\ R = Idle /\ R'.snap = DueTasks /\ R'.cur = {}
      /\ now' = now /\ lastRun' = now /\ faults' = faults /\ acts' = acts /\ sent' = sent
  BY DEF FetchReminders, R, TypeOK, Jobs, Idle
<1>2. db'[t] = IF SnoozeExpired(db[t]) THEN [db[t] EXCEPT !.snooze = None] ELSE db[t]
  BY DEF FetchReminders
<1>3. /\ db'[t].live = db[t].live /\ db'[t].time = db[t].time /\ db'[t].lastRem = db[t].lastRem
      /\ db'[t].snooze = IF SnoozeExpired(db[t]) THEN None ELSE db[t].snooze
  BY <1>2, PingNumbers DEF Row
<1>4. Dawn' = Dawn /\ ~Waiting(t) /\ (Waiting(t)' <=> t \in DueTasks)
  BY <1>1 DEF Dawn, Minute, Waiting, Today, Day, Idle
<1>5. StillDue(t)' => StillDue(t)
  BY <1>1, <1>3, <1>4 DEF StillDue, Idle
<1>6. OneTimeDue(db[t]) \/ RecurringDue(db[t]) => StillDue(t) /\ ~StillDue(t)'
  <2> SUFFICES ASSUME OneTimeDue(db[t]) \/ RecurringDue(db[t]) PROVE StillDue(t) /\ ~StillDue(t)'
    OBVIOUS
  <2>1. StillDue(t) /\ db[t].time \in Nat /\ Dawn + db[t].time <= now
    BY <1>1, WindowClaims
  <2>2. t \in R'.snap
    BY <1>1 DEF DueTasks
  <2>3. lastRun' >= Dawn' + db'[t].time
    BY <1>1, <1>3, <1>4, <2>1, PingNumbers
  <2> QED
    BY <2>1, <2>2, <2>3 DEF StillDue
<1>7. t \in DueTasks => db[t].live /\ (OneTimeDue(db[t]) \/ RecurringDue(db[t]) \/ SnoozeExpired(db[t]))
  BY DEF DueTasks, OneTimeDue, RecurringDue, SnoozeExpired, Active
<1>8. SnoozeExpired(db[t]) => db[t].snooze # None
  BY DEF SnoozeExpired
<1> DEFINE w == One(StillDue(t))
           z == One(db[t].snooze # None)
           p2 == One(Waiting(t)')
           w2 == One(StillDue(t)')
           z2 == One(db'[t].snooze # None)
<1>9. w \in {0, 1} /\ z \in {0, 1} /\ p2 \in {0, 1} /\ w2 \in {0, 1} /\ z2 \in {0, 1}
  BY OneIs
<1>10. w2 <= w /\ z2 <= z /\ (t \notin DueTasks => p2 = 0)
       /\ (t \in DueTasks => w2 + 1 <= w \/ z2 + 1 <= z)
  BY <1>3, <1>4, <1>5, <1>6, <1>7, <1>8 DEF One
<1>11. /\ sent[t] \in Nat /\ acts[t] \in Nat /\ faults \in Nat
       /\ acts[t] = 0 => ~db[t].live /\ sent[t] = 0 /\ t \notin R.snap
       /\ sent[t] <= acts[t] + faults
       /\ db[t].live => 1 + z <= acts[t] /\ sent[t] + (w + z) <= acts[t] + faults
  BY <1>4, <1>9, Claims, PingNumbers DEF One
<1>12. PingBudget(t)' <=>
         /\ acts[t] = 0 => ~db[t].live /\ sent[t] = 0 /\ t \notin DueTasks
         /\ sent[t] + p2 <= acts[t] + faults
         /\ db[t].live => 1 + z2 <= acts[t] /\ sent[t] + p2 + (w2 + z2) <= acts[t] + faults
  BY <1>1, <1>3 DEF PingBudget, ToCome
<1> HIDE DEF w, z, p2, w2, z2
<1>13. acts[t] = 0 => t \notin DueTasks
  BY <1>7, <1>11
<1>14. sent[t] + p2 <= acts[t] + faults
  BY <1>7, <1>9, <1>10, <1>11
<1>15. db[t].live => 1 + z2 <= acts[t] /\ sent[t] + p2 + (w2 + z2) <= acts[t] + faults
  BY <1>9, <1>10, <1>11
<1> QED
  BY <1>11, <1>12, <1>13, <1>14, <1>15

\* A ping uses up what was waiting.
LEMMA PingArrive ==
    ASSUME TypeOK, JobInv, HandInv, PingInv, NEW j \in Jobs, NEW s \in Tasks, Arrive(j, s), NEW t \in Tasks
    PROVE  PingBudget(t)'
<1>1. /\ now' = now /\ lastRun' = lastRun /\ faults' = faults /\ acts' = acts /\ db' = db /\ Ping(j, {s})
      /\ job' = [job EXCEPT ![j] = [phase |-> "sent", snap |-> job[j].snap \ {s}, cur |-> {s}]]
  BY DEF Arrive
<1>2. CASE j # "reminders"
  <2>1. R' = R /\ sent'[t] = sent[t]
    BY <1>1, <1>2 DEF R, TypeOK, Jobs, Ping
  <2> QED
    BY <1>1, <2>1, PingFrame
<1>3. CASE j = "reminders"
  <2>1. R.phase = "loop" /\ s \in R.snap /\ R'.snap = R.snap \ {s} /\ R'.cur = {s}
    BY <1>1, <1>3 DEF Arrive, R, TypeOK, Jobs
  <2>2. R.cur = {}
    BY <2>1 DEF HandInv
  <2>3. sent'[t] = IF t = s /\ Day(lastRun) = Today THEN sent[t] + 1 ELSE sent[t]
    BY <1>1, <1>3 DEF Ping
  <2>4. Dawn' = Dawn /\ (Waiting(t)' <=> Waiting(t) /\ t # s) /\ (s = t /\ Day(lastRun) = Today => Waiting(t))
    BY <1>1, <2>1 DEF Dawn, Minute, Waiting, Today, Day
  <2>5. t \in R'.snap \cup R'.cur <=> t \in R.snap \cup R.cur
    BY <2>1, <2>2
  <2>6. StillDue(t)' <=> StillDue(t)
    BY <1>1, <2>4, <2>5 DEF StillDue
  <2> DEFINE w == One(StillDue(t))
             z == One(db[t].snooze # None)
             p == One(Waiting(t))
             p2 == One(Waiting(t)')
  <2>7. w \in {0, 1} /\ z \in {0, 1} /\ p \in {0, 1} /\ p2 \in {0, 1}
    BY OneIs
  <2>8. sent'[t] + p2 <= sent[t] + p /\ sent'[t] \in Nat
    <3>1. sent[t] \in Nat
      BY PingNumbers
    <3>2. CASE t = s /\ Day(lastRun) = Today
      <4>1. p = 1 /\ p2 = 0
        BY <2>4, <3>2 DEF One
      <4> HIDE DEF p, p2
      <4> QED
        BY <2>3, <3>1, <3>2, <4>1
    <3>3. CASE ~(t = s /\ Day(lastRun) = Today)
      <4>1. p2 <= p
        BY <2>4 DEF One
      <4> HIDE DEF p, p2
      <4> QED
        BY <2>3, <2>7, <3>1, <3>3, <4>1
    <3> QED
      BY <3>2, <3>3
  <2>9. /\ sent[t] \in Nat /\ acts[t] \in Nat /\ faults \in Nat
        /\ acts[t] = 0 => ~db[t].live /\ sent[t] = 0 /\ t \notin R.snap
        /\ sent[t] + p <= acts[t] + faults
        /\ db[t].live => 1 + z <= acts[t] /\ sent[t] + p + (w + z) <= acts[t] + faults
    BY Claims, PingNumbers
  <2>10. PingBudget(t)' <=>
           /\ acts[t] = 0 => ~db[t].live /\ sent'[t] = 0 /\ t \notin R.snap \ {s}
           /\ sent'[t] + p2 <= acts[t] + faults
           /\ db[t].live => 1 + z <= acts[t] /\ sent'[t] + p2 + (w + z) <= acts[t] + faults
    <3>1. One(StillDue(t)') = w
      BY <2>6 DEF One
    <3> QED
      BY <1>1, <2>1, <3>1 DEF PingBudget, ToCome
  <2>11. acts[t] = 0 => sent'[t] = 0
    BY <2>1, <2>3, <2>9
  <2> HIDE DEF w, z, p, p2
  <2>12. sent'[t] + p2 <= acts[t] + faults
    BY <2>7, <2>8, <2>9
  <2>13. db[t].live => sent'[t] + p2 + (w + z) <= acts[t] + faults
    BY <2>7, <2>8, <2>9
  <2> QED
    BY <2>9, <2>10, <2>11, <2>12, <2>13
<1> QED
  BY <1>2, <1>3

\* A fault pays for the ping it may have lost or the stamp that is missing.
LEMMA PingFault ==
    ASSUME TypeOK, HandInv, PingInv, NEW t \in Tasks, faults' = faults + 1,
           UNCHANGED <<now, lastRun, acts, db>>, sent'[t] = sent[t], R'.snap \subseteq R.snap
    PROVE  PingBudget(t)'
<1>1. Dawn' = Dawn /\ (Waiting(t)' => Waiting(t)) /\ (t \in R'.snap => t \in R.snap)
  BY DEF Dawn, Minute, Waiting, Today, Day
<1> DEFINE w == One(StillDue(t))
           w2 == One(StillDue(t)')
           z == One(db[t].snooze # None)
           p == One(Waiting(t))
           p2 == One(Waiting(t)')
<1>2. w \in {0, 1} /\ w2 \in {0, 1} /\ z \in {0, 1} /\ p \in {0, 1} /\ p2 \in {0, 1}
  BY OneIs
<1>3. p2 <= p
  BY <1>1 DEF One
<1>4. /\ sent[t] \in Nat /\ acts[t] \in Nat /\ faults \in Nat
      /\ acts[t] = 0 => ~db[t].live /\ sent[t] = 0 /\ t \notin R.snap
      /\ sent[t] + p <= acts[t] + faults
      /\ db[t].live => 1 + z <= acts[t] /\ sent[t] + p + (w + z) <= acts[t] + faults
  BY Claims, PingNumbers
<1>5. PingBudget(t)' <=>
        /\ acts[t] = 0 => ~db[t].live /\ sent[t] = 0 /\ t \notin R'.snap
        /\ sent[t] + p2 <= acts[t] + (faults + 1)
        /\ db[t].live => 1 + z <= acts[t] /\ sent[t] + p2 + (w2 + z) <= acts[t] + (faults + 1)
  BY DEF PingBudget, ToCome
<1> HIDE DEF w, w2, z, p, p2
<1>6. sent[t] + p2 <= acts[t] + (faults + 1)
  BY <1>2, <1>3, <1>4
<1>7. db[t].live => sent[t] + p2 + (w2 + z) <= acts[t] + (faults + 1)
  BY <1>2, <1>3, <1>4
<1> QED
  BY <1>1, <1>4, <1>5, <1>6, <1>7

\* A stamp follows the minute it was read in.
LEMMA PingReturned ==
    ASSUME TypeOK, JobInv, HandInv, PingInv, NEW j \in Jobs, Returned(j), NEW t \in Tasks
    PROVE  PingBudget(t)'
<1>1. /\ now' = now /\ lastRun' = lastRun /\ faults' = faults /\ acts' = acts /\ sent' = sent
      /\ job' = [job EXCEPT ![j] = [job[j] EXCEPT !.phase = "loop", !.cur = {}]]
      /\ db'[t] = IF t \in job[j].cur THEN Marked(j, db[t]) ELSE db[t]
  BY DEF Returned, Mark
<1>2. db[t] \in Row /\ (t \in job[j].cur => db'[t] = Marked(j, db[t])) /\ (t \notin job[j].cur => db'[t] = db[t])
  BY <1>1, PingNumbers
<1>3. /\ db'[t].live = db[t].live /\ db'[t].time = db[t].time /\ db'[t].snooze = db[t].snooze
      /\ db'[t].lastRem \in {db[t].lastRem, now}
      /\ t \in job[j].cur /\ j # "finish" /\ db[t].live => db'[t].lastRem = now
  BY <1>2, MarkedStamp
<1>4. CASE j # "reminders"
  <2>1. R' = R
    BY <1>1, <1>4 DEF R, TypeOK, Jobs
  <2> QED
    BY <1>1, <1>3, <2>1, PingFrame
<1>5. CASE j = "reminders"
  <2>1. R'.snap = R.snap /\ R'.cur = {} /\ R = job[j]
    BY <1>1, <1>5 DEF R, TypeOK, Jobs
  <2>2. Dawn' = Dawn /\ (Waiting(t)' <=> Waiting(t))
    BY <1>1, <2>1 DEF Dawn, Minute, Waiting, Today, Day
  <2>3. lastRun <= now /\ (db[t].lastRem = None \/ db[t].lastRem <= now)
    BY DEF HandInv
  <2>4. StillDue(t)' => StillDue(t)
    <3> SUFFICES ASSUME StillDue(t)' PROVE StillDue(t)
      OBVIOUS
    <3>1. db[t].live /\ db[t].time # None /\ ~(db'[t].lastRem # None /\ db'[t].lastRem >= Dawn + db[t].time)
      BY <1>3, <2>2 DEF StillDue
    <3>2. db[t].time \in Nat /\ Dawn \in Int /\ now \in Nat /\ now # None /\ lastRun \in Nat
          /\ db[t].lastRem \in Nat \cup {None}
      BY <3>1, PingNumbers
    <3>3. CASE t \in R.cur
      <4>1. db'[t].lastRem = now
        BY <1>3, <1>5, <2>1, <3>1, <3>3
      <4>2. now < Dawn + db[t].time
        BY <3>1, <3>2, <4>1
      <4> QED
        BY <2>3, <3>1, <3>2, <4>2 DEF StillDue
    <3>4. CASE t \notin R.cur
      <4>1. db'[t] = db[t] /\ (t \in R'.snap \cup R'.cur <=> t \in R.snap \cup R.cur)
        BY <1>2, <2>1, <3>4
      <4> QED
        BY <1>1, <2>2, <4>1 DEF StillDue
    <3> QED
      BY <3>3, <3>4
  <2> DEFINE w == One(StillDue(t))
             w2 == One(StillDue(t)')
             z == One(db[t].snooze # None)
             p == One(Waiting(t))
  <2>5. w \in {0, 1} /\ w2 \in {0, 1} /\ z \in {0, 1} /\ p \in {0, 1} /\ w2 <= w
    BY <2>4, OneIs DEF One
  <2>6. /\ sent[t] \in Nat /\ acts[t] \in Nat /\ faults \in Nat
        /\ acts[t] = 0 => ~db[t].live /\ sent[t] = 0 /\ t \notin R.snap
        /\ sent[t] + p <= acts[t] + faults
        /\ db[t].live => 1 + z <= acts[t] /\ sent[t] + p + (w + z) <= acts[t] + faults
    BY Claims, PingNumbers
  <2>7. PingBudget(t)' <=>
          /\ acts[t] = 0 => ~db[t].live /\ sent[t] = 0 /\ t \notin R.snap
          /\ sent[t] + p <= acts[t] + faults
          /\ db[t].live => 1 + z <= acts[t] /\ sent[t] + p + (w2 + z) <= acts[t] + faults
    <3>1. One(Waiting(t)') = p
      BY <2>2 DEF One
    <3> QED
      BY <1>1, <1>3, <2>1, <3>1 DEF PingBudget, ToCome
  <2> HIDE DEF w, w2, z, p
  <2>8. db[t].live => sent[t] + p + (w2 + z) <= acts[t] + faults
    BY <2>5, <2>6
  <2> QED
    BY <2>6, <2>7, <2>8
<1> QED
  BY <1>4, <1>5

\* The first reminders of a new day are paid for.
LEMMA PingTick ==
    ASSUME TypeOK, HandInv, PingInv, Tick, NEW t \in Tasks
    PROVE  PingBudget(t)'
<1>1. /\ now' = now + 1 /\ lastRun' = lastRun /\ faults' = faults /\ acts' = acts /\ db' = db /\ job' = job
      /\ sent' = IF Day(now + 1) = Today THEN sent ELSE [s \in Tasks |-> 0]
  BY DEF Tick
<1>2. now \in Nat /\ now' \in Nat /\ Today' = Day(now + 1) /\ R' = R /\ lastRun \in Nat /\ lastRun <= now
  BY <1>1, PingNumbers DEF Today, Day, R, HandInv
<1>3. CASE Day(now + 1) = Today
  <2>1. Dawn' = Dawn
    <3>1. Dawn = Today * DayLen
      BY <1>2, DawnIs
    <3>2. Dawn' = Today' * DayLen
      <4>1. now + 1 = Day(now + 1) * DayLen + ((now + 1) % DayLen) /\ Day(now + 1) \in Int
            /\ (now + 1) % DayLen \in 0 .. DayLen - 1
        BY <1>2, Clock
      <4>2. DayLen \in Nat /\ Day(now + 1) * DayLen \in Int
        BY <4>1, SizesAssumption
      <4>3. Dawn' = (now + 1) - ((now + 1) % DayLen)
        BY <1>1 DEF Dawn, Minute
      <4> QED
        BY <1>2, <4>1, <4>2, <4>3
    <3> QED
      BY <1>2, <1>3, <3>1, <3>2
  <2>2. Waiting(t)' <=> Waiting(t)
    BY <1>1, <1>2, <1>3 DEF Waiting, Day
  <2>3. StillDue(t)' <=> StillDue(t)
    BY <1>1, <1>2, <2>1 DEF StillDue
  <2> QED
    BY <1>1, <1>2, <1>3, <2>2, <2>3 DEF PingInv, PingBudget, ToCome, One
<1>4. CASE Day(now + 1) # Today
  <2>1. sent'[t] = 0
    BY <1>1, <1>4
  <2>2. ~Waiting(t)'
    <3>1. Day(lastRun) <= Day(now) /\ Day(now) <= Day(now + 1)
      BY <1>2, DaysInOrder
    <3>2. Day(lastRun) \in Int /\ Day(now) \in Int /\ Day(now + 1) \in Int
      BY <1>2, Clock
    <3>3. Day(now) # Day(now + 1)
      BY <1>4 DEF Today
    <3>4. Day(lastRun) # Day(now + 1)
      BY <3>1, <3>2, <3>3
    <3> QED
      BY <1>1, <1>2, <3>4 DEF Waiting, Day
  <2> DEFINE z == One(db[t].snooze # None)
             w2 == One(StillDue(t)')
  <2>3. z \in {0, 1} /\ w2 \in {0, 1}
    BY OneIs
  <2>4. /\ acts[t] \in Nat /\ faults \in Nat /\ (acts[t] = 0 => ~db[t].live /\ t \notin R.snap)
        /\ db[t].live => 1 + z <= acts[t]
    BY Claims, PingNumbers
  <2>5. PingBudget(t)' <=>
          /\ acts[t] = 0 => ~db[t].live /\ t \notin R.snap
          /\ 0 + 0 <= acts[t] + faults
          /\ db[t].live => 1 + z <= acts[t] /\ 0 + 0 + (w2 + z) <= acts[t] + faults
    <3>1. One(Waiting(t)') = 0
      BY <2>2 DEF One
    <3> QED
      BY <1>1, <1>2, <2>1, <3>1 DEF PingBudget, ToCome
  <2> HIDE DEF z, w2
  <2> QED
    BY <2>3, <2>4, <2>5
<1> QED
  BY <1>3, <1>4

\* A step of the jobs or of the clock that reads nothing, sends nothing of
\* check_reminders, meets no fault and is no act of the user.
LEMMA PingOther ==
    ASSUME TypeOK, HandInv, PingInv, NEW t \in Tasks,
           FetchFollowups \/ FetchAsks \/ CarryForward \/ BatchArrives
           \/ (\E s \in Tasks : SkipInQuietHours(s))
           \/ (\E s \in Tasks, shown \in SUBSET Tasks : StartBatch(s, shown))
    PROVE  PingBudget(t)'
<1>1. CASE FetchFollowups \/ FetchAsks \/ \E s \in Tasks : SkipInQuietHours(s)
  <2>1. R' = R /\ UNCHANGED <<now, db, lastRun, faults, acts, sent>>
    BY <1>1 DEF FetchFollowups, FetchAsks, SkipInQuietHours, R, TypeOK, Jobs, history
  <2> QED
    BY <2>1, PingFrame
<1>2. CASE CarryForward
  <2>1. R' = R /\ UNCHANGED <<now, lastRun, faults, acts, sent>>
    BY <1>2 DEF CarryForward, R
  <2>2. db'[t] = db[t] \/ db'[t] = [db[t] EXCEPT !.date = Today]
    BY <1>2 DEF CarryForward
  <2>3. db'[t].live = db[t].live /\ db'[t].time = db[t].time /\ db'[t].snooze = db[t].snooze /\ db'[t].lastRem = db[t].lastRem
    BY <2>2, PingNumbers DEF Row
  <2> QED
    BY <2>1, <2>3, PingFrame
<1>3. CASE BatchArrives
  <2>1. R' = R /\ UNCHANGED <<now, db, lastRun, faults, acts>> /\ sent'[t] = sent[t]
    BY <1>3 DEF BatchArrives, BatchDone, Ping, R, TypeOK, Jobs
  <2> QED
    BY <2>1, PingFrame
<1>4. ASSUME NEW s \in Tasks, NEW shown \in SUBSET Tasks, StartBatch(s, shown) PROVE PingBudget(t)'
  <2>1. R' = R /\ UNCHANGED <<now, lastRun, faults, acts, sent>>
    BY <1>4 DEF StartBatch, R, TypeOK, Jobs
  <2>2. db[t] \in Row /\ "followups" \in Jobs /\ (db'[t] = db[t] \/ db'[t] = Marked("followups", db[t]))
    BY <1>4, PingNumbers DEF StartBatch, Mark, Jobs
  <2>3. /\ db'[t].live = db[t].live /\ db'[t].time = db[t].time /\ db'[t].snooze = db[t].snooze
        /\ db'[t].lastRem \in {db[t].lastRem, now}
    BY <2>2, MarkedStamp
  <2> QED
    BY <2>1, <2>3, PingFrame
<1> QED
  BY <1>1, <1>2, <1>3, <1>4

\* Every step keeps the claims.
LEMMA PingNext == TypeOK /\ JobInv /\ HandInv /\ PingInv /\ [Next]_vars => PingInv'
<1> SUFFICES ASSUME TypeOK, JobInv, HandInv, PingInv, [Next]_vars, NEW t \in Tasks
             PROVE  PingBudget(t)'
  BY DEF PingInv
<1>1. CASE UserStep
  BY <1>1, PingUser
<1>2. CASE FetchReminders
  BY <1>2, PingFetch
<1>3. CASE \/ FetchFollowups \/ FetchAsks \/ CarryForward \/ BatchArrives
           \/ (\E s \in Tasks : SkipInQuietHours(s))
           \/ (\E s \in Tasks, shown \in SUBSET Tasks : StartBatch(s, shown))
  BY <1>3, PingOther
<1>4. ASSUME NEW j \in Jobs, Returned(j) PROVE PingBudget(t)'
  BY <1>4, PingReturned
<1>5. ASSUME NEW j \in Jobs, NEW s \in Tasks, Arrive(j, s) PROVE PingBudget(t)'
  BY <1>5, PingArrive
<1>6. ASSUME NEW j \in Jobs, NEW s \in Tasks, SendFails(j, s) PROVE PingBudget(t)'
  <2>1. R'.snap \subseteq R.snap
    <3>1. CASE j = "reminders"
      BY <1>6, <3>1 DEF SendFails, R, TypeOK, Jobs
    <3>2. CASE j # "reminders"
      BY <1>6, <3>2 DEF SendFails, R, TypeOK, Jobs
    <3> QED
      BY <3>1, <3>2
  <2>2. faults' = faults + 1 /\ UNCHANGED <<now, lastRun, acts, db, sent>>
    BY <1>6 DEF SendFails, Fault, history
  <2> QED
    BY <2>1, <2>2, PingFault
<1>7. CASE BatchFails
  <2>1. R' = R /\ faults' = faults + 1 /\ UNCHANGED <<now, lastRun, acts, db, sent>>
    BY <1>7 DEF BatchFails, BatchDone, Fault, history, R, TypeOK, Jobs
  <2> QED
    BY <2>1, PingFault
<1>8. CASE Crash
  <2>1. R'.snap = {} /\ faults' = faults + 1 /\ UNCHANGED <<now, lastRun, acts, db, sent>>
    BY <1>8 DEF Crash, Fault, history, R, Idle, Jobs
  <2> QED
    BY <2>1, PingFault
<1>9. CASE Tick
  BY <1>9, PingTick
<1>10. CASE UNCHANGED vars
  BY <1>10, PingFrame DEF vars, R
<1> QED
  BY <1>1, <1>2, <1>3, <1>4, <1>5, <1>6, <1>7, <1>8, <1>9, <1>10 DEF Next, JobStep

\* What the job holds, and when it was read, over every step
LEMMA HandNext == TypeOK /\ HandInv /\ [Next]_vars => HandInv'
<1> SUFFICES ASSUME TypeOK, HandInv, [Next]_vars PROVE HandInv'
  OBVIOUS
<1>0. now \in Nat /\ lastRun \in Nat /\ lastRun <= now
  BY DEF TypeOK, HandInv
<1>1. lastRun' <= now' /\ now <= now' /\ now' \in Nat
  <2>1. CASE Tick
    BY <1>0, <2>1 DEF Tick
  <2>2. CASE FetchReminders
    BY <1>0, <2>2 DEF FetchReminders
  <2>3. CASE UserStep
    <3>1. PICK s \in Tasks : UserAction(s)
      BY <2>3 DEF UserStep, UserAction
    <3> QED
      BY <1>0, <3>1, UserWrites DEF Write
  <2>4. CASE JobStep \/ Crash \/ UNCHANGED vars
    <3>1. FetchReminders \/ (now' = now /\ lastRun' = lastRun)
      BY <2>4
      DEF JobStep, Crash, vars, FetchFollowups, FetchAsks, Returned, Arrive, SendFails,
          SkipInQuietHours, StartBatch, BatchArrives, BatchFails, CarryForward
    <3> QED
      BY <1>0, <2>2, <3>1
  <2> QED
    BY <2>1, <2>3, <2>4 DEF Next
<1>2. R'.phase = "loop" => R'.cur = {}
  <2>0. R.phase = "loop" => R.cur = {}
    BY DEF HandInv
  <2>1. CASE R' = R
    BY <2>0, <2>1
  <2>2. CASE UserStep
    <3>1. PICK s \in Tasks : UserAction(s)
      BY <2>2 DEF UserStep, UserAction
    <3> QED
      BY <2>1, <3>1, UserWrites DEF Write, R
  <2>3. CASE FetchReminders
    BY <2>3 DEF FetchReminders, R, TypeOK, Jobs, Idle
  <2>4. ASSUME NEW j \in Jobs, Returned(j) PROVE R'.phase = "loop" => R'.cur = {}
    BY <2>0, <2>4 DEF Returned, R, TypeOK, Jobs
  <2>5. ASSUME NEW j \in Jobs, NEW s \in Tasks, Arrive(j, s) PROVE R'.phase = "loop" => R'.cur = {}
    BY <2>0, <2>5 DEF Arrive, R, TypeOK, Jobs
  <2>6. ASSUME NEW j \in Jobs, NEW s \in Tasks, SendFails(j, s) PROVE R'.phase = "loop" => R'.cur = {}
    BY <2>0, <2>6 DEF SendFails, R, TypeOK, Jobs
  <2>7. CASE Crash
    BY <2>7 DEF Crash, Idle, R, Jobs
  <2>8. CASE \/ FetchFollowups \/ FetchAsks \/ CarryForward \/ BatchArrives \/ BatchFails \/ Tick \/ UNCHANGED vars
             \/ (\E s \in Tasks : SkipInQuietHours(s))
             \/ (\E s \in Tasks, shown \in SUBSET Tasks : StartBatch(s, shown))
    <3>1. R' = R
      BY <2>8
      DEF FetchFollowups, FetchAsks, CarryForward, BatchArrives, BatchFails, BatchDone, Tick, vars,
          SkipInQuietHours, StartBatch, R, TypeOK, Jobs
    <3> QED
      BY <2>1, <3>1
  <2> QED
    BY <2>2, <2>3, <2>4, <2>5, <2>6, <2>7, <2>8 DEF Next, JobStep
<1>3. ASSUME NEW t \in Tasks PROVE db'[t].lastRem = None \/ db'[t].lastRem <= now'
  <2>0. db[t].lastRem = None \/ (db[t].lastRem \in Nat /\ db[t].lastRem <= now)
    BY PingNumbers DEF HandInv
  <2>1. ASSUME db'[t].lastRem \in {db[t].lastRem, None, now} PROVE db'[t].lastRem = None \/ db'[t].lastRem <= now'
    BY <1>0, <1>1, <2>0, <2>1
  <2>2. CASE UserStep
    <3>1. PICK s \in Tasks : UserAction(s)
      BY <2>2 DEF UserStep, UserAction
    <3>2. PICK r \in Row : Write(s, r) /\ r.lastRem \in {None, db[s].lastRem}
      BY <3>1, UserPays
    <3>3. db'[t] = IF t = s THEN r ELSE db[t]
      BY <3>2 DEF Write, TypeOK
    <3> QED
      BY <2>1, <3>2, <3>3
  <2>3. ASSUME NEW j \in Jobs, NEW S, Mark(j, S) PROVE db'[t].lastRem \in {db[t].lastRem, None, now}
    <3>1. db[t] \in Row /\ (db'[t] = db[t] \/ db'[t] = Marked(j, db[t]))
      BY <2>3, PingNumbers DEF Mark
    <3> QED
      BY <3>1, MarkedStamp
  <2>4. CASE FetchReminders \/ CarryForward
    <3>1. db[t] \in Row
      BY PingNumbers
    <3>2. db'[t] = db[t] \/ db'[t] = [db[t] EXCEPT !.snooze = None] \/ db'[t] = [db[t] EXCEPT !.date = Today]
      BY <2>4 DEF FetchReminders, CarryForward
    <3>3. db'[t].lastRem = db[t].lastRem
      BY <3>1, <3>2 DEF Row
    <3> QED
      BY <2>1, <3>3
  <2>5. CASE db' = db
    BY <2>1, <2>5
  <2>6. CASE (\E j \in Jobs : Returned(j)) \/ (\E s \in Tasks, shown \in SUBSET Tasks : StartBatch(s, shown))
    BY <2>1, <2>3, <2>6 DEF Returned, StartBatch, Jobs
  <2> QED
    BY <2>2, <2>4, <2>5, <2>6
    DEF Next, JobStep, Crash, Tick, vars, FetchFollowups, FetchAsks, Arrive, SendFails,
        SkipInQuietHours, BatchArrives, BatchFails
<1> QED
  BY <1>1, <1>2, <1>3 DEF HandInv

LEMMA PingInit == Init => HandInv /\ PingInv
<1> SUFFICES ASSUME Init PROVE HandInv /\ PingInv
  OBVIOUS
<1>1. R = Idle /\ now = 0 /\ lastRun = 0
  BY DEF Init, R, Jobs
<1>2. HandInv
  <2>1. \A t \in Tasks : db[t].lastRem = None
    BY DEF Init, Absent
  <2>2. R.cur = {} /\ lastRun <= now
    BY <1>1 DEF Idle
  <2> QED
    BY <2>1, <2>2 DEF HandInv
<1>3. ASSUME NEW t \in Tasks PROVE PingBudget(t)
  <2>1. ~Waiting(t) /\ t \notin R.snap /\ sent[t] = 0 /\ ~db[t].live /\ acts[t] = 0 /\ faults = 0
    BY <1>1 DEF Waiting, Idle, Init, Absent
  <2> QED
    BY <2>1 DEF PingBudget, One
<1> QED
  BY <1>2, <1>3 DEF PingInv

\* Of what check_reminders reads in a day, it pings a task at most once for each
\* thing the user did with it, and once more for each crash or failed send: the
\* last_reminded guards of get_due_tasks hold although the stamp follows the send,
\* as long as the lookback is no longer than a day and the gap of recurring tasks.
THEOREM OnePing == Spec => []OnePingPerAct
<1>1. TypeOK /\ PingInv => OnePingPerAct
  <2> SUFFICES ASSUME TypeOK, PingInv, NEW t \in Tasks PROVE sent[t] <= acts[t] + faults
    BY DEF OnePingPerAct
  <2>1. sent[t] \in Nat /\ acts[t] \in Nat /\ faults \in Nat /\ sent[t] + One(Waiting(t)) <= acts[t] + faults
    BY Claims, PingNumbers
  <2>2. One(Waiting(t)) \in {0, 1}
    BY OneIs
  <2> HIDE DEF One
  <2> QED
    BY <2>1, <2>2
<1> QED
  BY <1>1, TypeInit, TypeNext, SilenceInit, JobInvNext, PingInit, HandNext, PingNext, PTL DEF Spec

-----------------------------------------------------------------------------
(* A snooze that a reading has cleared is in the list until it is sent.      *)

\* Only a fault loses a ping that is owed.
LEMMA OwedNext == TypeOK /\ SnoozeRefires /\ [Next]_vars => SnoozeRefires'
<1> SUFFICES ASSUME TypeOK, SnoozeRefires, [Next]_vars, faults' = 0, NEW t \in Tasks, owed'[t]
             PROVE  t \in R'.snap
  BY DEF SnoozeRefires, R
<1>0. (faults = 0 /\ owed[t] => t \in R.snap) /\ faults \in Nat
  BY DEF SnoozeRefires, R, TypeOK
<1>1. CASE UserStep
  <2>1. PICK s \in Tasks : UserAction(s)
    BY <1>1 DEF UserStep, UserAction
  <2>2. PICK r \in Row : Write(s, r)
    BY <2>1, UserWrites
  <2> QED
    BY <1>0, <2>2 DEF Write, R, TypeOK
<1>2. CASE FetchReminders
  <2>1. R.snap = {} /\ R'.snap = DueTasks /\ faults' = faults /\ (owed'[t] <=> owed[t] \/ SnoozeExpired(db[t]))
    BY <1>2 DEF FetchReminders, R, TypeOK, Jobs, Idle
  <2> QED
    BY <1>0, <2>1 DEF DueTasks
<1>3. ASSUME NEW j \in Jobs, Returned(j) PROVE t \in R'.snap
  BY <1>0, <1>3 DEF Returned, R, TypeOK, Jobs
<1>4. ASSUME NEW j \in Jobs, NEW s \in Tasks, Arrive(j, s) PROVE t \in R'.snap
  <2>1. CASE j = "reminders"
    BY <1>0, <1>4, <2>1 DEF Arrive, Ping, R, TypeOK, Jobs
  <2>2. CASE j # "reminders"
    BY <1>0, <1>4, <2>2 DEF Arrive, Ping, R, TypeOK, Jobs
  <2> QED
    BY <2>1, <2>2
<1>5. CASE Crash \/ BatchFails \/ \E j \in Jobs, s \in Tasks : SendFails(j, s)
  <2>1. faults' = faults + 1
    BY <1>5 DEF Crash, BatchFails, SendFails, Fault
  <2> QED
    BY <1>0, <2>1
<1>6. CASE \/ FetchFollowups \/ FetchAsks \/ CarryForward \/ Tick \/ UNCHANGED vars
           \/ (\E s \in Tasks : SkipInQuietHours(s))
           \/ (\E s \in Tasks, shown \in SUBSET Tasks : StartBatch(s, shown))
  <2>1. R' = R /\ owed' = owed /\ faults' = faults
    BY <1>6
    DEF FetchFollowups, FetchAsks, CarryForward, Tick, vars, history, SkipInQuietHours, StartBatch, R, TypeOK, Jobs
  <2> QED
    BY <1>0, <2>1
<1>7. CASE BatchArrives
  <2>1. R' = R /\ owed'[t] = owed[t] /\ faults' = faults
    BY <1>7 DEF BatchArrives, BatchDone, Ping, R, TypeOK, Jobs
  <2> QED
    BY <1>0, <2>1
<1> QED
  BY <1>1, <1>2, <1>3, <1>4, <1>5, <1>6, <1>7 DEF Next, JobStep

\* Without faults a snooze that has run out is pinged: what get_due_tasks clears
\* it also returns, and the job sends what it was given unless it dies.
THEOREM SnoozesRefire == Spec => []SnoozeRefires
<1>1. Init => SnoozeRefires
  BY DEF Init, SnoozeRefires
<1> QED
  BY <1>1, TypeInit, TypeNext, OwedNext, PTL DEF Spec

-----------------------------------------------------------------------------
(* No reminder is missed.  An armed task is still due at the minute it came  *)
(* due, and check_reminders has not run since.                               *)

\* Its window lies within one day.
Within(t) == db[t].time >= Lookback /\ db[t].time + MaxAway <= DayLen

Untouched(t) ==
    /\ Active(db[t]) /\ OneTime(db[t]) /\ db[t].snooze = None
    /\ db[t].date # None /\ db[t].time # None /\ DueAt(db[t]) <= now
    /\ db[t].lastRem = None \/ Day(db[t].lastRem) < Day(DueAt(db[t]))
    /\ Within(t) => lastRun < DueAt(db[t])

ArmedInv == \A t \in Tasks : armed[t] => Untouched(t)

RunInv == lastRun <= now /\ now <= lastRun + MaxAway

\* A task of that kind is still in its window, and the reading returns it.
LEMMA StillThere ==
    ASSUME MaxAway <= Lookback + 1, TypeOK, RunInv, NEW t \in Tasks, Untouched(t), Within(t)
    PROVE  now - DueAt(db[t]) <= Lookback /\ OneTimeDue(db[t])
<1> DEFINE d == db[t].date
           m == db[t].time
<1>1. /\ d \in Nat /\ m \in Nat /\ now \in Nat /\ lastRun \in Nat
      /\ DueAt(db[t]) = d * DayLen + m /\ lastRun < DueAt(db[t]) /\ DueAt(db[t]) <= now
      /\ now <= lastRun + MaxAway /\ Lookback <= m /\ m + MaxAway <= DayLen
  BY PingNumbers DEF Untouched, Within, RunInv, DueAt, TypeOK, Row
<1>2. DayLen \in Nat \ {0} /\ Lookback \in Nat /\ MaxAway \in Nat
  BY SizesAssumption
<1> DEFINE b == d * DayLen
           x == now - b
<1>3. b \in Int
  BY <1>1, <1>2
<1> HIDE DEF b
<1>4. now <= b + m + Lookback /\ b + m <= now /\ now < b + DayLen
  BY <1>1, <1>2, <1>3 DEF b
<1>5. x \in 0 .. DayLen - 1 /\ x - Lookback \in 0 .. DayLen - 1 /\ m \in 0 .. DayLen - 1 /\ now = b + x
  BY <1>1, <1>2, <1>3, <1>4
<1> HIDE DEF x
<1>6. Today = d /\ Minute = x
  BY <1>1, <1>5, ClockOf DEF b, Today, Minute
<1>7. (now - Lookback) % DayLen = x - Lookback
  <2>1. now - Lookback = b + (x - Lookback)
    BY <1>2, <1>3, <1>5
  <2> QED
    BY <1>1, <1>5, <2>1, ClockOf DEF b
<1>8. Day(DueAt(db[t])) = d
  BY <1>1, <1>5, ClockOf
<1>9. InLookback(m)
  <2>1. m # None
    BY DEF Untouched
  <2>2. x - Lookback <= m /\ m <= x
    BY <1>1, <1>2, <1>3, <1>4, <1>5
  <2> QED
    BY <1>6, <1>7, <2>1, <2>2 DEF InLookback
<1>10. ~Snoozed(db[t])
  BY DEF Untouched, Snoozed
<1> QED
  BY <1>1, <1>2, <1>3, <1>4, <1>6, <1>8, <1>9, <1>10 DEF Untouched, OneTimeDue, b

\* A step that leaves the row but for the question, and no reading
LEMMA ArmedFrame ==
    ASSUME TypeOK, ArmedInv, NEW t \in Tasks, armed'[t] => armed[t],
           now' = now, lastRun' = lastRun,
           armed[t] => /\ db'[t].live = db[t].live /\ db'[t].done = db[t].done /\ db'[t].paused = db[t].paused
                       /\ db'[t].recur = db[t].recur /\ db'[t].snooze = db[t].snooze /\ db'[t].date = db[t].date
                       /\ db'[t].time = db[t].time /\ db'[t].lastRem = db[t].lastRem
    PROVE  armed'[t] => Untouched(t)'
<1> SUFFICES ASSUME armed'[t] PROVE Untouched(t)'
  OBVIOUS
<1>1. Untouched(t)
  BY DEF ArmedInv
<1>2. DueAt(db[t])' = DueAt(db[t]) /\ (Within(t)' <=> Within(t))
  BY DEF DueAt, Within
<1>3. Day(db[t].lastRem)' = Day(db[t].lastRem) /\ Day(DueAt(db[t]))' = Day(DueAt(db[t]))
  BY <1>2 DEF Day
<1> QED
  BY <1>1, <1>2, <1>3 DEF Untouched, Active, OneTime

\* A minute passes.
LEMMA ArmedTick ==
    ASSUME TypeOK, RunInv, ArmedInv, Tick, NEW t \in Tasks, armed'[t]
    PROVE  Untouched(t)'
<1>1. /\ now' = now + 1 /\ db' = db /\ lastRun' = lastRun
      /\ \/ armed[t]
         \/ /\ Active(db[t]) /\ OneTime(db[t]) /\ db[t].snooze = None
            /\ db[t].date # None /\ db[t].time # None /\ DueAt(db[t]) = now + 1
            /\ db[t].lastRem = None \/ Day(db[t].lastRem) < Day(now + 1)
  BY DEF Tick
<1>2. now \in Nat /\ lastRun \in Nat /\ lastRun <= now
  BY DEF TypeOK, RunInv
<1>3. DueAt(db[t])' = DueAt(db[t]) /\ (Within(t)' <=> Within(t)) /\ Active(db[t])' = Active(db[t])
      /\ OneTime(db[t])' = OneTime(db[t])
  BY <1>1 DEF DueAt, Within, Active, OneTime
<1>4. Day(db[t].lastRem)' = Day(db[t].lastRem) /\ Day(DueAt(db[t]))' = Day(DueAt(db[t]))
  BY <1>1, <1>3 DEF Day
<1>5. CASE armed[t]
  <2>1. Untouched(t)
    BY <1>5 DEF ArmedInv
  <2>2. db[t].date \in Nat /\ db[t].time \in Nat
    BY <2>1, PingNumbers DEF Untouched, TypeOK, Row
  <2>3. DueAt(db[t]) \in Int
    BY <2>2, SizesAssumption DEF DueAt
  <2>4. DueAt(db[t]) <= now + 1
    BY <1>2, <2>1, <2>3 DEF Untouched
  <2> QED
    BY <1>1, <1>3, <1>4, <2>1, <2>4 DEF Untouched
<1>6. CASE ~armed[t]
  <2>1. lastRun < DueAt(db[t]) /\ DueAt(db[t]) <= now + 1
    BY <1>1, <1>2, <1>6
  <2> QED
    BY <1>1, <1>3, <1>4, <1>6, <2>1 DEF Untouched
<1> QED
  BY <1>5, <1>6

LEMMA ArmedNext ==
    ASSUME MaxAway <= Lookback + 1
    PROVE  TypeOK /\ RunInv /\ ArmedInv /\ [Next]_vars => ArmedInv'
<1> SUFFICES ASSUME TypeOK, RunInv, ArmedInv, [Next]_vars, NEW t \in Tasks
             PROVE  armed'[t] => Untouched(t)'
  BY DEF ArmedInv
<1>0. db[t] \in Row
  BY PingNumbers
<1>1. CASE UserStep
  <2>1. PICK s \in Tasks : UserAction(s)
    BY <1>1 DEF UserStep, UserAction
  <2>2. PICK r \in Row : Write(s, r)
    BY <2>1, UserWrites
  <2>3. now' = now /\ lastRun' = lastRun /\ (armed'[t] => armed[t] /\ t # s) /\ (t # s => db'[t] = db[t])
    BY <2>2 DEF Write, TypeOK
  <2>4. CASE t = s
    BY <2>3, <2>4
  <2>5. CASE t # s
    BY <2>3, <2>5, ArmedFrame
  <2> QED
    BY <2>4, <2>5
<1>2. CASE FetchReminders
  <2> SUFFICES ASSUME armed'[t] PROVE Untouched(t)'
    OBVIOUS
  <2>1. now' = now /\ armed[t] /\ t \notin DueTasks
        /\ db'[t] = IF SnoozeExpired(db[t]) THEN [db[t] EXCEPT !.snooze = None] ELSE db[t]
    BY <1>2 DEF FetchReminders
  <2>2. Untouched(t)
    BY <2>1 DEF ArmedInv
  <2>3. db'[t] = db[t]
    BY <2>1, <2>2 DEF Untouched, SnoozeExpired
  <2>4. ~Within(t)
    BY <2>1, <2>2, StillThere DEF DueTasks
  <2>5. ~Within(t)' /\ DueAt(db[t])' = DueAt(db[t])
    BY <2>3, <2>4 DEF Within, DueAt
  <2>6. Day(db[t].lastRem)' = Day(db[t].lastRem) /\ Day(DueAt(db[t]))' = Day(DueAt(db[t]))
    BY <2>3, <2>5 DEF Day
  <2> QED
    BY <2>1, <2>2, <2>3, <2>5, <2>6 DEF Untouched, Active, OneTime
<1>3. ASSUME NEW j \in Jobs, Returned(j) PROVE armed'[t] => Untouched(t)'
  <2>1. now' = now /\ lastRun' = lastRun /\ (armed'[t] => armed[t] /\ (j = "finish" \/ t \notin job[j].cur))
        /\ db'[t] = IF t \in job[j].cur THEN Marked(j, db[t]) ELSE db[t]
    BY <1>3 DEF Returned, Mark
  <2>2. CASE j = "finish"
    <3>1. Marked(j, db[t]).lastRem = db[t].lastRem
      BY <1>0, <2>2, MarkedStamp
    <3> QED
      BY <1>0, <2>1, <3>1, MarkedStamp, ArmedFrame
  <2>3. CASE t \notin job[j].cur
    BY <2>1, <2>3, ArmedFrame
  <2> QED
    BY <2>1, <2>2, <2>3
<1>4. ASSUME NEW s \in Tasks, NEW shown \in SUBSET Tasks, StartBatch(s, shown) PROVE armed'[t] => Untouched(t)'
  <2>1. now' = now /\ lastRun' = lastRun /\ (armed'[t] => armed[t] /\ t \notin shown)
        /\ (t \notin shown => db'[t] = db[t])
    BY <1>4 DEF StartBatch, Mark
  <2>2. CASE t \in shown
    BY <2>1, <2>2
  <2>3. CASE t \notin shown
    BY <2>1, <2>3, ArmedFrame
  <2> QED
    BY <2>2, <2>3
<1>5. CASE CarryForward
  <2> DEFINE moved == {s \in Tasks : /\ Active(db[s]) /\ OneTime(db[s])
                                     /\ db[s].date # None /\ db[s].date < Today}
  <2>1. now' = now /\ lastRun' = lastRun /\ (armed'[t] => armed[t] /\ t \notin moved)
        /\ (t \notin moved => db'[t] = db[t])
    BY <1>5 DEF CarryForward
  <2> HIDE DEF moved
  <2>2. CASE t \in moved
    BY <2>1, <2>2
  <2>3. CASE t \notin moved
    BY <2>1, <2>3, ArmedFrame
  <2> QED
    BY <2>2, <2>3
<1>6. CASE Tick
  BY <1>6, ArmedTick
<1>7. CASE \/ FetchFollowups \/ FetchAsks \/ BatchArrives \/ BatchFails \/ Crash \/ UNCHANGED vars
           \/ (\E s \in Tasks : SkipInQuietHours(s))
           \/ (\E j \in Jobs, s \in Tasks : Arrive(j, s) \/ SendFails(j, s))
  <2>1. now' = now /\ lastRun' = lastRun /\ armed' = armed /\ db' = db
    BY <1>7
    DEF FetchFollowups, FetchAsks, BatchArrives, BatchFails, Crash, vars, history, SkipInQuietHours, Arrive, SendFails
  <2> QED
    BY <2>1, ArmedFrame
<1> QED
  BY <1>1, <1>2, <1>3, <1>4, <1>5, <1>6, <1>7 DEF Next, JobStep

\* check_reminders is never away for longer than it may be.
LEMMA RunNext == TypeOK /\ HandInv /\ RunInv /\ [Next]_vars => RunInv'
<1> SUFFICES ASSUME TypeOK, HandInv, RunInv, [Next]_vars PROVE RunInv'
  OBVIOUS
<1>0. now \in Nat /\ lastRun \in Nat /\ lastRun <= now /\ now <= lastRun + MaxAway /\ MaxAway \in Nat
  BY SizesAssumption DEF TypeOK, RunInv
<1>1. CASE Tick
  BY <1>0, <1>1 DEF Tick, RunInv
<1>2. CASE UserStep
  <2>1. PICK s \in Tasks : UserAction(s)
    BY <1>2 DEF UserStep, UserAction
  <2> QED
    BY <1>0, <2>1, UserWrites DEF Write, RunInv
<1>3. CASE JobStep \/ Crash \/ UNCHANGED vars
  <2>1. (now' = now /\ lastRun' = now) \/ (now' = now /\ lastRun' = lastRun)
    BY <1>3
    DEF JobStep, Crash, vars, FetchReminders, FetchFollowups, FetchAsks, Returned, Arrive, SendFails,
        SkipInQuietHours, StartBatch, BatchArrives, BatchFails, CarryForward
  <2> QED
    BY <1>0, <2>1 DEF RunInv
<1> QED
  BY <1>1, <1>2, <1>3 DEF Next

\* If the bot is never away for longer than the lookback window, no one-time
\* reminder whose window lies within a day is missed: a run of get_due_tasks
\* falls into the window and returns the row, however the jobs, the other
\* handlers, crashes and failed sends interleave.
THEOREM NoneMissed ==
    ASSUME MaxAway <= Lookback + 1
    PROVE  Spec => []NoReminderMissed
<1>1. Init => ArmedInv /\ RunInv
  BY SizesAssumption DEF Init, ArmedInv, RunInv
<1>2. TypeOK /\ RunInv /\ ArmedInv => NoReminderMissed
  <2> SUFFICES ASSUME TypeOK, RunInv, ArmedInv, NEW t \in Tasks, armed[t], Within(t)
               PROVE  now - DueAt(db[t]) <= Lookback
    BY DEF NoReminderMissed, Within
  <2> QED
    BY StillThere DEF ArmedInv
<1>3. TypeOK /\ RunInv /\ ArmedInv /\ [Next]_vars => ArmedInv'
  BY ArmedNext
<1> QED
  BY <1>1, <1>2, <1>3, TypeInit, TypeNext, PingInit, HandNext, RunNext, PTL DEF Spec
=============================================================================
