--------------------------- MODULE WarningsProofs ---------------------------
(***************************************************************************)
(* Each warning comes once, a muted task is warned of once more at most,   *)
(* and the last warning of a deadline comes: for any tasks, stages,        *)
(* thresholds, times, retries, faults and acts.                            *)
(***************************************************************************)
EXTENDS Warnings, WellFoundedInduction, TLAPS

\* the job that sends a warning
JobOf(m) == IF m = Nudge THEN "nudge" ELSE "warn"

SnapRows == Tasks \X (1 .. MaxTime) \X SUBSET Marks
Snapshots == [at : 0 .. MaxTime, rows : SUBSET SnapRows, ends : SUBSET Tasks]

Types ==
    /\ now \in 0 .. MaxTime /\ up \in BOOLEAN /\ acts \in 0 .. MaxActs /\ faults \in 0 .. MaxFaults
    /\ task \in [Tasks -> TaskRows]
    /\ turn \subseteq Jobs
    /\ run \in [Jobs -> Snapshots]
    /\ post \in [Jobs -> {NoPost} \cup Posts]
    /\ got \in [Tasks -> [Marks -> Nat]] /\ spare \in [Tasks -> [Marks -> Nat]]
    /\ late \in [Tasks -> Nat]

RowsOnce == \A j \in Jobs : \A r1, r2 \in run[j].rows : r1[1] = r2[1] => r1 = r2

Tried == \A j \in Jobs : post[j] # NoPost /\ post[j].state = "trying" => post[j].copies <= post[j].attempt

Typed == Types /\ RowsOnce /\ Tried

\* A job starts only when its last run is over, and handles its rows one by one.
OneByOne ==
    /\ \A j \in turn : post[j] = NoPost /\ run[j].rows = {}
    /\ ~up => \A j \in Jobs : post[j] = NoPost /\ run[j].rows = {}
    /\ \A j \in Jobs : post[j] # NoPost =>
          /\ JobOf(post[j].msg[2]) = j
          /\ \A r \in run[j].rows : r[1] # post[j].msg[1]

Posted(j, t, m) == post[j] # NoPost /\ post[j].msg[1] = t /\ post[j].msg[2] = m

\* A run under way may still send the warning.
Ahead(t, m) ==
    \/ \E r \in run[JobOf(m)].rows : r[1] = t /\ m \notin r[3]
    \/ Posted(JobOf(m), t, m)

\* It was sent and is not marked yet, or it is marked and no run under way missed the mark.
Spent(t, m) ==
    \/ Posted(JobOf(m), t, m) /\ post[JobOf(m)].state = "sent"
    \/ m \in task[t].marks /\ ~Ahead(t, m)

\* A warning that was spent has come once for good, all others only for faults.
Budget ==
    \A t \in Tasks, m \in Marks : got[t][m] <= spare[t][m] + (IF Spent(t, m) THEN 1 ELSE 0)

\* a run under way holds the task, or its warning is on its way for the first time
Held(t) ==
    \/ \E r \in run["warn"].rows : r[1] = t
    \/ post["warn"] # NoPost /\ post["warn"].msg[1] = t /\ post["warn"].state = "trying" /\ post["warn"].copies = 0

\* What is held when a task falls silent is all that comes after.
Muting ==
    \A t \in Tasks : late[t] <= (IF Silenced(t) /\ ~Held(t) THEN 1 ELSE 0)

\* What a run has read is true of a task whose deadline stays, and only what came is marked.
Read ==
    /\ \A j \in Jobs : \A r \in run[j].rows :
          r[3] \subseteq task[r[1]].marks /\ (r[1] \notin moved => r[2] = task[r[1]].due)
    /\ \A j \in Jobs : post[j] # NoPost =>
          /\ post[j].msg[1] \notin moved => post[j].msg[3] = task[post[j].msg[1]].due
          /\ post[j].state = "sent" => post[j].msg \in told
    /\ \A t \in Tasks \ moved, s \in Stages : s \in task[t].marks => <<t, s, task[t].due>> \in told

\* In the last stage the nearest stage not yet sent is the last one.
Nearest ==
    post["warn"] # NoPost =>
        LET c == post["warn"].msg
        IN c[1] \notin moved /\ c[3] - run["warn"].at <= Threshold[Last]
             => c[2] = Last \/ <<c[1], Last, c[3]>> \in told

Inv == Typed /\ OneByOne /\ Budget /\ Muting /\ Read /\ Nearest /\ LastWarningComes

-----------------------------------------------------------------------------
(* Types *)

LEMMA TypedInit == Init => Typed
  BY WarningSizes, DeliverySizes DEF Init, DeliveryInit, Typed, Types, RowsOnce, Tried, NoRun, Snapshots, Jobs, TaskRows, NoPost, SnapRows

LEMMA Rows == 
    ASSUME Typed, NEW t \in Tasks
    PROVE  /\ task[t] \in TaskRows /\ task[t].due \in 0 .. MaxTime /\ task[t].marks \subseteq Marks
           /\ task[t].open \in BOOLEAN /\ task[t].flagged \in BOOLEAN
  BY DEF Typed, Types, TaskRows

\* What a send under way is.
LEMMA PostIs ==
    ASSUME Typed, NEW j \in Jobs, post[j] # NoPost
    PROVE  /\ post[j] \in Posts /\ post[j].state \in {"trying", "sent", "failed"}
           /\ post[j].msg \in Tasks \X Marks \X (1 .. MaxTime)
           /\ post[j].msg = <<post[j].msg[1], post[j].msg[2], post[j].msg[3]>>
           /\ post[j].msg[1] \in Tasks /\ post[j].msg[2] \in Marks /\ post[j].msg[3] \in 1 .. MaxTime
           /\ post[j].attempt \in 0 .. MaxRetries /\ post[j].copies \in 0 .. (MaxRetries + 1)
  <1>1. post[j] \in Posts
    BY DEF Typed, Types
  <1>2. post[j].msg \in Tasks \X Marks \X (1 .. MaxTime)
    BY <1>1, WarningSizes DEF Posts
  <1> QED BY <1>1, <1>2 DEF Posts

LEMMA RunIs ==
    ASSUME Typed, NEW j \in Jobs
    PROVE  /\ run[j].at \in 0 .. MaxTime /\ run[j].rows \subseteq SnapRows /\ run[j].ends \subseteq Tasks
           /\ \A r \in run[j].rows : r[1] \in Tasks /\ r[2] \in 1 .. MaxTime /\ r[3] \subseteq Marks
                                     /\ r = <<r[1], r[2], r[3]>>
  BY DEF Typed, Types, Snapshots, SnapRows

LEMMA Awaits ==
    ASSUME NEW j \in Jobs, NEW s \in {"trying", "sent", "failed"}, Is(j, s)
    PROVE  post[j] # NoPost
  BY DEF Is, NoPost

LEMMA ChoiceIs ==
    ASSUME NEW j \in Jobs, NEW row, NEW m \in Choice(j, row)
    PROVE  m \in Marks /\ m \notin row[3] /\ JobOf(m) = j
  BY WarningSizes DEF Choice, Unsent, Marks, JobOf, Jobs

\* What each step that touches a send does to it.
LEMMA SendsIs ==
    ASSUME Typed, NEW j \in Jobs, Sends(j)
    PROVE  /\ post[j] # NoPost /\ post[j].state = "trying"
           /\ post' = [post EXCEPT ![j] = [state |-> "sent", msg |-> post[j].msg, attempt |-> post[j].attempt,
                                           copies |-> post[j].copies + 1]]
           /\ UNCHANGED <<now, up, task, run, turn, acts, spare, calm, moved, faults>>
  <1>1. post[j] # NoPost /\ post[j].state = "trying"
    BY Awaits DEF Sends, Returns, Is
  <1>2. post[j] \in Posts
    BY <1>1, PostIs
  <1>3. post' = [post EXCEPT ![j] = [post[j] EXCEPT !.state = "sent", !.copies = @ + 1]]
    BY DEF Sends, Returns, Typed, Types
  <1> QED BY <1>1, <1>2, <1>3 DEF Posts, Sends, Returns

LEMMA TriesIs ==
    ASSUME Typed, NEW j \in Jobs, NEW came \in {0, 1}, TryAgain(j, came)
    PROVE  /\ post[j] # NoPost /\ post[j].state = "trying"
           /\ \E state \in {"trying", "failed"}, attempt \in 0 .. MaxRetries :
                 /\ post' = [post EXCEPT ![j] = [state |-> state, msg |-> post[j].msg, attempt |-> attempt,
                                                 copies |-> post[j].copies + came]]
                 /\ post[j].copies + came \in 0 .. (MaxRetries + 1)
                 /\ state = "trying" => post[j].copies + came <= attempt
           /\ faults' \in 0 .. MaxFaults
  <1>1. post[j] # NoPost /\ post[j].state = "trying"
    BY Awaits DEF TryAgain, Is
  <1>2. post[j] \in Posts /\ post[j].copies <= post[j].attempt
    BY <1>1, PostIs DEF Typed, Tried
  <1> DEFINE last == post[j].attempt = MaxRetries
             state == IF last THEN "failed" ELSE "trying"
             attempt == IF last THEN post[j].attempt ELSE post[j].attempt + 1
             q == [post[j] EXCEPT !.state = state, !.attempt = attempt, !.copies = post[j].copies + came]
  <1>3. post' = [post EXCEPT ![j] = q]
    BY DEF TryAgain, Typed, Types
  <1>4. q.state = state /\ q.attempt = attempt /\ q.copies = post[j].copies + came /\ q.msg = post[j].msg
    BY <1>2 DEF Posts
  <1>5. q = [x \in {"state", "msg", "attempt", "copies"} |-> q[x]]
    BY <1>2 DEF Posts
  <1>6. /\ state \in {"trying", "failed"} /\ attempt \in 0 .. MaxRetries
        /\ post[j].copies + came \in 0 .. (MaxRetries + 1)
        /\ state = "trying" => post[j].copies + came <= attempt
    <2>1. post[j].attempt \in 0 .. MaxRetries /\ post[j].copies \in Nat /\ MaxRetries \in Nat
      BY <1>2, DeliverySizes DEF Posts
    <2> QED BY <1>2, <2>1
  <1>7. faults' \in 0 .. MaxFaults
    BY DeliverySizes DEF TryAgain, Fault, Typed, Types
  <1> HIDE DEF q, state, attempt, last
  <1>8. q = [state |-> state, msg |-> post[j].msg, attempt |-> attempt, copies |-> post[j].copies + came]
    BY <1>4, <1>5
  <1> QED BY <1>1, <1>3, <1>6, <1>7, <1>8

LEMMA RefusedIs ==
    ASSUME Typed, NEW j \in Jobs, IsRefused(j)
    PROVE  /\ post[j] # NoPost /\ post[j].state = "trying"
           /\ post' = [post EXCEPT ![j] = [state |-> "failed", msg |-> post[j].msg, attempt |-> post[j].attempt,
                                           copies |-> post[j].copies]]
           /\ faults' \in 0 .. MaxFaults
           /\ UNCHANGED <<now, up, task, run, turn, acts, history>>
  <1>1. post[j] # NoPost /\ post[j].state = "trying"
    BY Awaits DEF IsRefused, Refused, Is
  <1>2. post[j] \in Posts
    BY <1>1, PostIs
  <1>3. post' = [post EXCEPT ![j] = [post[j] EXCEPT !.state = "failed"]]
    BY DEF IsRefused, Refused, Typed, Types
  <1>4. post' = [post EXCEPT ![j] = [state |-> "failed", msg |-> post[j].msg, attempt |-> post[j].attempt,
                                     copies |-> post[j].copies]]
    <2>1. [post[j] EXCEPT !.state = "failed"]
            = [state |-> "failed", msg |-> post[j].msg, attempt |-> post[j].attempt, copies |-> post[j].copies]
      BY <1>2 DEF Posts
    <2> QED BY <1>3, <2>1
  <1>5. faults' \in 0 .. MaxFaults
    BY DeliverySizes DEF IsRefused, Refused, Fault, Typed, Types
  <1> QED BY <1>1, <1>4, <1>5 DEF IsRefused

\* A message that comes is counted.
LEMMA ComesIs ==
    ASSUME Typed, NEW j \in Jobs, post[j] # NoPost, Comes(j)
    PROVE  LET t == post[j].msg[1]
               m == post[j].msg[2]
           IN /\ got' = [got EXCEPT ![t] = [got[t] EXCEPT ![m] = got[t][m] + 1]]
              /\ got' \in [Tasks -> [Marks -> Nat]]
              /\ told' = told \cup {post[j].msg}
              /\ late' = IF Silenced(t) /\ m # Nudge /\ post[j].copies = 0 THEN [late EXCEPT ![t] = late[t] + 1] ELSE late
              /\ late' \in [Tasks -> Nat]
  <1>1. post[j].msg[1] \in Tasks /\ post[j].msg[2] \in Marks
    BY PostIs
  <1>2. got[post[j].msg[1]][post[j].msg[2]] \in Nat /\ late[post[j].msg[1]] \in Nat
    BY <1>1 DEF Typed, Types
  <1> QED BY <1>1, <1>2 DEF Comes, Of, Typed, Types

\* A row that is taken is sent, or passed over.
LEMMA TakeIs ==
    ASSUME Typed, NEW j \in Jobs, NEW row \in run[j].rows, Take(j, row)
    PROVE  /\ post[j] = NoPost /\ row \in SnapRows
           /\ \E ends \in SUBSET Tasks :
                 run' = [run EXCEPT ![j] = [at |-> run[j].at, rows |-> run[j].rows \ {row}, ends |-> ends]]
           /\ \/ UNCHANGED post
              \/ \E m \in Choice(j, row) :
                    post' = [post EXCEPT ![j] = [state |-> "trying", msg |-> <<row[1], m, row[2]>>,
                                                 attempt |-> 0, copies |-> 0]]
           /\ calm' = calm \/ (j = "warn" /\ Choice(j, row) = {} /\ calm' = calm \cup {<<row[1], row[2], run[j].at>>})
           /\ UNCHANGED <<now, up, task, turn, acts, got, spare, late, told, moved, faults>>
  <1>1. post[j] = NoPost /\ row \in SnapRows
    BY RunIs DEF Take, Free
  <1>2. run[j] \in Snapshots
    BY DEF Typed, Types
  <1> DEFINE ends == IF now \in Quiet THEN run[j].ends \ {row[1]} ELSE run[j].ends
             q == [run[j] EXCEPT !.rows = run[j].rows \ {row}, !.ends = ends]
  <1>3. run' = [run EXCEPT ![j] = q] /\ ends \in SUBSET Tasks
    BY <1>2 DEF Take, Typed, Types, Snapshots
  <1>7. q.at = run[j].at /\ q.rows = run[j].rows \ {row} /\ q.ends = ends /\ q = [x \in {"at", "rows", "ends"} |-> q[x]]
    BY <1>2 DEF Snapshots
  <1> HIDE DEF ends, q
  <1>4. q = [at |-> run[j].at, rows |-> run[j].rows \ {row}, ends |-> ends]
    BY <1>7
  <1>5. calm' = calm \/ (j = "warn" /\ Choice(j, row) = {} /\ calm' = calm \cup {<<row[1], row[2], run[j].at>>})
    BY DEF Take
  <1>6. \/ UNCHANGED post
        \/ \E m \in Choice(j, row) : Submit(j, <<row[1], m, row[2]>>)
    BY DEF Take
  <1> QED BY <1>1, <1>3, <1>4, <1>5, <1>6 DEF Take, Submit

LEMMA StartIs ==
    ASSUME Typed, NEW j \in Jobs, Start(j)
    PROVE  /\ run' = [run EXCEPT ![j] = [at |-> now, rows |-> {<<t, task[t].due, task[t].marks>> : t \in Reads(j)},
                                         ends |-> Reads(j)]]
           /\ Reads(j) \subseteq Tasks /\ \A t \in Reads(j) : task[t].due \in 1 .. MaxTime
           /\ {<<t, task[t].due, task[t].marks>> : t \in Reads(j)} \subseteq SnapRows
           /\ j \in turn /\ turn' = turn \ {j} /\ up
           /\ UNCHANGED <<now, up, task, acts, history, post, faults>>
  <1>1. Reads(j) \subseteq Tasks /\ \A t \in Reads(j) : task[t].due # NoTime
    BY DEF Reads, PendingDeadlines, HighPrioritySoon
  <1>2. \A t \in Reads(j) : task[t].due \in 1 .. MaxTime /\ task[t].marks \subseteq Marks
    BY <1>1, Rows, WarningSizes DEF NoTime
  <1>3. run' = [run EXCEPT ![j] = [at |-> now, rows |-> {<<t, task[t].due, task[t].marks>> : t \in Reads(j)},
                                   ends |-> Reads(j)]]
    <2>1. [at |-> now, ends |-> Reads(j), rows |-> {<<t, task[t].due, task[t].marks>> : t \in Reads(j)}]
           = [at |-> now, rows |-> {<<t, task[t].due, task[t].marks>> : t \in Reads(j)}, ends |-> Reads(j)]
      OBVIOUS
    <2> QED BY <2>1 DEF Start
  <1>4. {<<t, task[t].due, task[t].marks>> : t \in Reads(j)} \subseteq SnapRows
    BY <1>1, <1>2 DEF SnapRows
  <1> QED BY <1>1, <1>2, <1>3, <1>4 DEF Start

\* An act leaves what runs under way have read, and the sends.
LEMMA ActsIs ==
    ASSUME Typed, NEW t \in Tasks, Acts(t)
    PROVE  /\ \A j \in Jobs : run'[j].at = run[j].at /\ run'[j].rows = run[j].rows
           /\ run' \in [Jobs -> Snapshots] /\ acts' \in 0 .. MaxActs
           /\ UNCHANGED <<now, up, turn, got, spare, told, calm, post, faults>>
  <1>1. run' = [j \in Jobs |-> [run[j] EXCEPT !.ends = @ \ {t}]]
    BY DEF Acts
  <1>2. ASSUME NEW j \in Jobs
        PROVE  run'[j] \in Snapshots /\ run'[j].at = run[j].at /\ run'[j].rows = run[j].rows
    <2>1. run[j] \in Snapshots
      BY DEF Typed, Types
    <2>2. run'[j] = [run[j] EXCEPT !.ends = @ \ {t}]
      BY <1>1
    <2> QED BY <2>1, <2>2 DEF Snapshots
  <1>3. run' \in [Jobs -> Snapshots]
    BY <1>1, <1>2
  <1>4. acts' \in 0 .. MaxActs
    BY WarningSizes DEF Acts, Typed, Types
  <1> QED BY <1>2, <1>3, <1>4 DEF Acts

\* What marks a task leaves the rest of its row.
LEMMA MarkIs ==
    ASSUME Typed, NEW t \in Tasks, NEW m \in Marks, task' = Marked(t, m)
    PROVE  /\ task' \in [Tasks -> TaskRows]
           /\ \A u \in Tasks : /\ task'[u].open = task[u].open /\ task'[u].flagged = task[u].flagged
                               /\ task'[u].due = task[u].due
                               /\ task'[u].marks = IF u = t THEN task[u].marks \cup {m} ELSE task[u].marks
  BY Rows DEF Typed, Types, Marked, TaskRows

LEMMA ResumeIs ==
    ASSUME Typed, NEW j \in Jobs, Resume(j)
    PROVE  post' = [post EXCEPT ![j] = NoPost] /\ post' \in [Jobs -> {NoPost} \cup Posts]
  BY DEF Resume, Typed, Types

\* The owner changes one row, and its marks stay.
Edits(t) ==
    /\ Acts(t)
    /\ \E row \in TaskRows : row.marks = task[t].marks /\ Set(t, row) /\ (row.due # task[t].due => t \in moved')
    /\ moved' \in {moved, moved \cup {t}}

LEMMA EditsAre ==
    ASSUME Typed, NEW t \in Tasks,
           \/ Close(t) \/ Reopen(t) \/ (\E on \in BOOLEAN : Flag(t, on)) \/ \E due \in 0 .. MaxTime : Move(t, due)
    PROVE  Edits(t)
  <1>1. task[t] \in TaskRows
    BY Rows
  <1>2. ASSUME NEW b \in BOOLEAN PROVE
          /\ [task[t] EXCEPT !.open = b] \in TaskRows /\ [task[t] EXCEPT !.open = b].marks = task[t].marks
          /\ [task[t] EXCEPT !.open = b].due = task[t].due
    BY <1>1 DEF TaskRows
  <1>3. ASSUME NEW b \in BOOLEAN PROVE
          /\ [task[t] EXCEPT !.flagged = b] \in TaskRows /\ [task[t] EXCEPT !.flagged = b].marks = task[t].marks
          /\ [task[t] EXCEPT !.flagged = b].due = task[t].due
    BY <1>1 DEF TaskRows
  <1>4. ASSUME NEW due \in 0 .. MaxTime PROVE
          [task[t] EXCEPT !.due = due] \in TaskRows /\ [task[t] EXCEPT !.due = due].marks = task[t].marks
    BY <1>1 DEF TaskRows
  <1>5. ASSUME Acts(t), NEW row \in TaskRows, row.marks = task[t].marks, Set(t, row),
               row.due # task[t].due => t \in moved', moved' \in {moved, moved \cup {t}}
        PROVE  Edits(t)
    BY <1>5 DEF Edits
  <1>6. ASSUME Close(t) PROVE Edits(t)
    <2>1. Acts(t) /\ Set(t, [task[t] EXCEPT !.open = FALSE]) /\ moved' = moved
      BY <1>6 DEF Close
    <2> QED BY <2>1, <1>2, <1>5
  <1>7. ASSUME Reopen(t) PROVE Edits(t)
    <2>1. Acts(t) /\ Set(t, [task[t] EXCEPT !.open = TRUE]) /\ moved' = moved
      BY <1>7 DEF Reopen
    <2> QED BY <2>1, <1>2, <1>5
  <1>8. ASSUME NEW on \in BOOLEAN, Flag(t, on) PROVE Edits(t)
    <2>1. Acts(t) /\ Set(t, [task[t] EXCEPT !.flagged = on]) /\ moved' = moved
      BY <1>8 DEF Flag
    <2> QED BY <2>1, <1>3, <1>5
  <1>9. ASSUME NEW due \in 0 .. MaxTime, Move(t, due) PROVE Edits(t)
    <2>1. Acts(t) /\ Set(t, [task[t] EXCEPT !.due = due]) /\ moved' = moved \cup {t}
      BY <1>9 DEF Move
    <2> QED BY <2>1, <1>4, <1>5
  <1> QED BY <1>6, <1>7, <1>8, <1>9

LEMMA EditsSet ==
    ASSUME Typed, NEW t \in Tasks, Edits(t)
    PROVE  /\ \A u \in Tasks : task'[u].marks = task[u].marks /\ (u # t => task'[u] = task[u])
           /\ task' \in [Tasks -> TaskRows]
           /\ late' = [late EXCEPT ![t] = 0]
           /\ moved \subseteq moved' /\ \A u \in Tasks : u \notin moved' => task'[u].due = task[u].due
  BY DEF Edits, Set, Typed, Types

-----------------------------------------------------------------------------
(* One step *)

-----------------------------------------------------------------------------
(* Types, step by step *)

LEMMA RowsOnceStep ==
    ASSUME RowsOnce, \A j \in Jobs : run'[j].rows \subseteq run[j].rows PROVE RowsOnce'
  BY DEF RowsOnce

\* One send changes.
LEMMA SendStep ==
    ASSUME Typed, NEW j \in Jobs, NEW q \in {NoPost} \cup Posts, post' = [post EXCEPT ![j] = q],
           q # NoPost /\ q.state = "trying" => q.copies <= q.attempt
    PROVE  post' \in [Jobs -> {NoPost} \cup Posts] /\ Tried'
  <1>1. post' \in [Jobs -> {NoPost} \cup Posts]
    BY DEF Typed, Types
  <1>2. \A i \in Jobs : post'[i] = IF i = j THEN q ELSE post[i]
    BY DEF Typed, Types
  <1>3. Tried'
    BY <1>2 DEF Typed, Tried
  <1> QED BY <1>1, <1>3

LEMMA TypedSame ==
    ASSUME Typed PROVE UNCHANGED run => RowsOnce' /\ (UNCHANGED post => Tried')
  BY DEF Typed, RowsOnce, Tried

LEMMA TypedStart ==
    ASSUME Typed, NEW j \in Jobs, Start(j) PROVE Typed'
  <1> DEFINE rows == {<<t, task[t].due, task[t].marks>> : t \in Reads(j)}
             new == [at |-> now, rows |-> rows, ends |-> Reads(j)]
  <1>1. /\ run' = [run EXCEPT ![j] = new] /\ new \in Snapshots
        /\ UNCHANGED <<now, up, task, acts, history, post, faults>> /\ turn' = turn \ {j}
    BY StartIs DEF Snapshots, Typed, Types
  <1>2. \A r1, r2 \in rows : r1[1] = r2[1] => r1 = r2
    OBVIOUS
  <1>3. \A i \in Jobs : run'[i] = IF i = j THEN new ELSE run[i]
    BY <1>1 DEF Typed, Types
  <1>4. new.rows = rows
    OBVIOUS
  <1> HIDE DEF new, rows
  <1>5. RowsOnce'
    BY <1>2, <1>3, <1>4 DEF Typed, RowsOnce
  <1>6. Tried'
    BY <1>1 DEF Typed, Tried
  <1>7. Types'
    BY <1>1 DEF Typed, Types, history
  <1> QED BY <1>5, <1>6, <1>7 DEF Typed

LEMMA TypedTake ==
    ASSUME Typed, NEW j \in Jobs, NEW row \in run[j].rows, Take(j, row) PROVE Typed'
  <1>1. PICK ends \in SUBSET Tasks :
           run' = [run EXCEPT ![j] = [at |-> run[j].at, rows |-> run[j].rows \ {row}, ends |-> ends]]
    BY TakeIs
  <1>2. [at |-> run[j].at, rows |-> run[j].rows \ {row}, ends |-> ends] \in Snapshots
    BY RunIs DEF Snapshots
  <1>3. run' \in [Jobs -> Snapshots] /\ \A i \in Jobs : run'[i].rows \subseteq run[i].rows
    BY <1>1, <1>2 DEF Typed, Types
  <1>4. RowsOnce'
    BY <1>3, RowsOnceStep DEF Typed
  <1>5. UNCHANGED <<now, up, task, turn, acts, got, spare, late, faults>>
    BY TakeIs
  <1>6. post' \in [Jobs -> {NoPost} \cup Posts] /\ Tried'
    <2>1. CASE UNCHANGED post
      BY <2>1 DEF Typed, Types, Tried
    <2>2. ASSUME NEW m \in Choice(j, row),
                 post' = [post EXCEPT ![j] = [state |-> "trying", msg |-> <<row[1], m, row[2]>>,
                                              attempt |-> 0, copies |-> 0]]
          PROVE  post' \in [Jobs -> {NoPost} \cup Posts] /\ Tried'
      <3>1. row[1] \in Tasks /\ row[2] \in 1 .. MaxTime /\ m \in Marks
        BY RunIs, ChoiceIs
      <3> DEFINE q == [state |-> "trying", msg |-> <<row[1], m, row[2]>>, attempt |-> 0, copies |-> 0]
      <3>2. q \in Posts /\ q.copies <= q.attempt
        BY <3>1, WarningSizes, DeliverySizes DEF Posts
      <3> HIDE DEF q
      <3> QED BY <2>2, <3>2, SendStep DEF q
    <2> QED BY <2>1, <2>2, TakeIs
  <1>7. Types'
    BY <1>3, <1>5, <1>6 DEF Typed, Types
  <1> QED BY <1>4, <1>6, <1>7 DEF Typed

LEMMA TypedSends ==
    ASSUME Typed, NEW j \in Jobs, Sends(j) PROVE Typed'
  <1>1. Comes(j) /\ post[j] # NoPost /\ UNCHANGED <<now, up, task, run, turn, acts, spare, faults>>
    BY SendsIs DEF Sends
  <1>2. /\ post[j] \in Posts /\ post[j].copies <= post[j].attempt
    BY SendsIs, PostIs DEF Typed, Tried
  <1>3. [state |-> "sent", msg |-> post[j].msg, attempt |-> post[j].attempt, copies |-> post[j].copies + 1] \in Posts
    BY <1>2, DeliverySizes DEF Posts
  <1>4. post' \in [Jobs -> {NoPost} \cup Posts] /\ Tried'
    BY <1>3, SendsIs, SendStep
  <1>5. got' \in [Tasks -> [Marks -> Nat]] /\ late' \in [Tasks -> Nat]
    BY <1>1, ComesIs
  <1>6. Types'
    BY <1>1, <1>4, <1>5 DEF Typed, Types
  <1> QED BY <1>1, <1>4, <1>6, TypedSame DEF Typed

LEMMA TypedTries ==
    ASSUME Typed, NEW j \in Jobs, NEW came \in {0, 1}, TryAgain(j, came)
    PROVE  post' \in [Jobs -> {NoPost} \cup Posts] /\ Tried' /\ post[j] # NoPost /\ faults' \in 0 .. MaxFaults
  <1>1. PICK state \in {"trying", "failed"}, attempt \in 0 .. MaxRetries :
             /\ post' = [post EXCEPT ![j] = [state |-> state, msg |-> post[j].msg, attempt |-> attempt,
                                             copies |-> post[j].copies + came]]
             /\ post[j].copies + came \in 0 .. (MaxRetries + 1)
             /\ state = "trying" => post[j].copies + came <= attempt
    BY TriesIs
  <1>2. post[j].msg \in Messages /\ post[j] # NoPost /\ faults' \in 0 .. MaxFaults
    BY TriesIs, PostIs, WarningSizes
  <1>3. [state |-> state, msg |-> post[j].msg, attempt |-> attempt, copies |-> post[j].copies + came] \in Posts
    BY <1>1, <1>2 DEF Posts
  <1> QED BY <1>1, <1>2, <1>3, SendStep

LEMMA TypedTimesOut ==
    ASSUME Typed, NEW j \in Jobs, TimesOut(j) PROVE Typed'
  <1>1. TryAgain(j, 1) /\ Comes(j) /\ UNCHANGED <<now, up, task, run, turn, acts>>
    BY DEF TimesOut
  <1>2. post' \in [Jobs -> {NoPost} \cup Posts] /\ Tried' /\ post[j] # NoPost /\ faults' \in 0 .. MaxFaults
    BY <1>1, TypedTries
  <1>3. got' \in [Tasks -> [Marks -> Nat]] /\ late' \in [Tasks -> Nat]
    BY <1>1, <1>2, ComesIs
  <1>4. spare' \in [Tasks -> [Marks -> Nat]]
    <2>1. post[j].msg[1] \in Tasks /\ post[j].msg[2] \in Marks
      BY <1>2, PostIs
    <2> QED BY <2>1 DEF TimesOut, Of, Typed, Types
  <1>5. Types'
    BY <1>1, <1>2, <1>3, <1>4 DEF Typed, Types
  <1> QED BY <1>1, <1>2, <1>5, TypedSame DEF Typed

LEMMA TypedWaits ==
    ASSUME Typed, NEW j \in Jobs, Waits(j) PROVE Typed'
  <1>1. TryAgain(j, 0) /\ UNCHANGED <<now, up, task, run, turn, acts, history>>
    BY DEF Waits
  <1>2. post' \in [Jobs -> {NoPost} \cup Posts] /\ Tried' /\ faults' \in 0 .. MaxFaults
    BY <1>1, TypedTries
  <1>3. Types'
    BY <1>1, <1>2 DEF Typed, Types, history
  <1> QED BY <1>1, <1>2, <1>3, TypedSame DEF Typed

LEMMA TypedRefused ==
    ASSUME Typed, NEW j \in Jobs, IsRefused(j) PROVE Typed'
  <1>1. [state |-> "failed", msg |-> post[j].msg, attempt |-> post[j].attempt, copies |-> post[j].copies] \in Posts
    BY RefusedIs, PostIs DEF Posts
  <1>2. post' \in [Jobs -> {NoPost} \cup Posts] /\ Tried'
    BY <1>1, RefusedIs, SendStep
  <1>3. faults' \in 0 .. MaxFaults /\ UNCHANGED <<now, up, task, run, turn, acts, history>>
    BY RefusedIs
  <1>4. Types'
    BY <1>2, <1>3 DEF Typed, Types, history
  <1> QED BY <1>2, <1>3, <1>4, TypedSame DEF Typed

LEMMA TypedMarkSent ==
    ASSUME Typed, NEW j \in Jobs, MarkSent(j) PROVE Typed'
  <1>1. /\ post[j] # NoPost /\ task' = Marked(post[j].msg[1], post[j].msg[2]) /\ Resume(j)
        /\ UNCHANGED <<now, up, run, turn, acts, got, spare, late, told, moved, faults>>
    BY Awaits DEF MarkSent, Of
  <1>2. task' \in [Tasks -> TaskRows]
    BY <1>1, PostIs, MarkIs
  <1>3. post' \in [Jobs -> {NoPost} \cup Posts] /\ Tried'
    BY <1>1, ResumeIs, SendStep
  <1>4. Types'
    BY <1>1, <1>2, <1>3 DEF Typed, Types
  <1> QED BY <1>1, <1>3, <1>4, TypedSame DEF Typed

LEMMA TypedGiveUp ==
    ASSUME Typed, NEW j \in Jobs, GiveUp(j) PROVE Typed'
  <1>1. Resume(j) /\ UNCHANGED <<now, up, task, run, turn, acts, history, faults>>
    BY DEF GiveUp
  <1>2. post' \in [Jobs -> {NoPost} \cup Posts] /\ Tried'
    BY <1>1, ResumeIs, SendStep
  <1>3. Types'
    BY <1>1, <1>2 DEF Typed, Types, history
  <1> QED BY <1>1, <1>2, <1>3, TypedSame DEF Typed

LEMMA TypedCrash ==
    ASSUME Typed, Crash PROVE Typed'
  <1>1. NoRun \in Snapshots /\ NoRun.rows = {}
    BY WarningSizes DEF NoRun, Snapshots
  <1>2. spare' \in [Tasks -> [Marks -> Nat]]
    BY DEF Crash, Typed, Types
  <1>3. \A j \in Jobs : run'[j] = NoRun /\ post'[j] = NoPost
    BY DEF Crash
  <1>4. RowsOnce' /\ Tried'
    BY <1>1, <1>3 DEF RowsOnce, Tried
  <1>5. run' \in [Jobs -> Snapshots] /\ post' \in [Jobs -> {NoPost} \cup Posts]
    BY <1>1 DEF Crash
  <1>6. faults' \in 0 .. MaxFaults
    BY DeliverySizes DEF Crash, Fault, Typed, Types
  <1>7. Types'
    BY <1>2, <1>5, <1>6 DEF Crash, Typed, Types
  <1> QED BY <1>4, <1>7 DEF Typed

LEMMA TypedEdits ==
    ASSUME Typed, NEW t \in Tasks, Edits(t) PROVE Typed'
  <1>1. /\ \A j \in Jobs : run'[j].at = run[j].at /\ run'[j].rows = run[j].rows
        /\ run' \in [Jobs -> Snapshots] /\ acts' \in 0 .. MaxActs
        /\ UNCHANGED <<now, up, turn, got, spare, told, calm, post, faults>>
    BY ActsIs DEF Edits
  <1>2. task' \in [Tasks -> TaskRows] /\ late' = [late EXCEPT ![t] = 0]
    BY EditsSet
  <1>3. RowsOnce' /\ Tried'
    BY <1>1, RowsOnceStep DEF Typed, Tried
  <1>4. Types'
    BY <1>1, <1>2 DEF Typed, Types
  <1> QED BY <1>3, <1>4 DEF Typed

LEMMA TypedAsked ==
    ASSUME Typed, NEW t \in Tasks, Asked(t) PROVE Typed'
  <1>1. task' \in [Tasks -> TaskRows]
    BY MarkIs DEF Asked, Marks
  <1>2. UNCHANGED <<now, up, run, turn, acts, history, post, faults>>
    BY DEF Asked
  <1>3. Types'
    BY <1>1, <1>2 DEF Typed, Types, history
  <1> QED BY <1>2, <1>3, TypedSame DEF Typed

LEMMA TypedStep == Typed /\ [Next]_vars => Typed'
  <1> SUFFICES ASSUME Typed, [Next]_vars PROVE Typed'
    OBVIOUS
  <1>1. CASE Tick
    <2>1. Types'
      BY <1>1, WarningSizes DEF Tick, Typed, Types, history
    <2> QED BY <1>1, <2>1, TypedSame DEF Tick, Typed
  <1>2. CASE Restart
    <2>1. Types'
      BY <1>2 DEF Restart, Typed, Types, history
    <2> QED BY <1>2, <2>1, TypedSame DEF Restart, Typed
  <1>3. CASE UNCHANGED vars
    BY <1>3 DEF vars, history, Typed, Types, RowsOnce, Tried
  <1> QED BY <1>1, <1>2, <1>3, TypedStart, TypedTake, TypedSends, TypedTimesOut, TypedWaits, TypedRefused,
             TypedMarkSent, TypedGiveUp, TypedCrash, TypedEdits, TypedAsked, EditsAre
          DEF Next, JobStep

-----------------------------------------------------------------------------
(* One run at a time *)

\* What becomes of a send changes neither what is sent nor the run it belongs to.
SendMoves(j) == Sends(j) \/ TimesOut(j) \/ Waits(j) \/ IsRefused(j) \/ MarkSent(j) \/ GiveUp(j)

LEMMA TriesSend ==
    ASSUME Typed, NEW j \in Jobs, NEW came \in {0, 1}, TryAgain(j, came)
    PROVE  /\ post[j] # NoPost /\ post[j].state = "trying"
           /\ post'[j] # NoPost /\ post'[j].msg = post[j].msg /\ post'[j].copies = post[j].copies + came
           /\ post'[j].state \in {"trying", "failed"}
           /\ \A i \in Jobs \ {j} : post'[i] = post[i]
  <1>1. PICK state \in {"trying", "failed"}, attempt \in 0 .. MaxRetries :
             post' = [post EXCEPT ![j] = [state |-> state, msg |-> post[j].msg, attempt |-> attempt,
                                          copies |-> post[j].copies + came]]
    BY TriesIs
  <1> DEFINE q == [state |-> state, msg |-> post[j].msg, attempt |-> attempt, copies |-> post[j].copies + came]
  <1>2. q.state = state /\ q.msg = post[j].msg /\ q.copies = post[j].copies + came /\ q # NoPost
    BY DEF NoPost
  <1>3. post'[j] = q /\ \A i \in Jobs \ {j} : post'[i] = post[i]
    BY <1>1 DEF Typed, Types
  <1> HIDE DEF q
  <1> QED BY <1>2, <1>3, TriesIs

LEMMA SendsSend ==
    ASSUME Typed, NEW j \in Jobs, Sends(j)
    PROVE  /\ post[j] # NoPost /\ post[j].state = "trying"
           /\ post'[j] # NoPost /\ post'[j].msg = post[j].msg /\ post'[j].state = "sent"
           /\ \A i \in Jobs \ {j} : post'[i] = post[i]
  <1> DEFINE q == [state |-> "sent", msg |-> post[j].msg, attempt |-> post[j].attempt, copies |-> post[j].copies + 1]
  <1>2. q.state = "sent" /\ q.msg = post[j].msg /\ q # NoPost
    BY DEF NoPost
  <1>3. post'[j] = q /\ \A i \in Jobs \ {j} : post'[i] = post[i]
    BY SendsIs DEF Typed, Types
  <1> HIDE DEF q
  <1> QED BY <1>2, <1>3, SendsIs

LEMMA RefusedSend ==
    ASSUME Typed, NEW j \in Jobs, IsRefused(j)
    PROVE  /\ post[j] # NoPost /\ post[j].state = "trying"
           /\ post'[j] # NoPost /\ post'[j].msg = post[j].msg /\ post'[j].state = "failed"
           /\ \A i \in Jobs \ {j} : post'[i] = post[i]
  <1> DEFINE q == [state |-> "failed", msg |-> post[j].msg, attempt |-> post[j].attempt, copies |-> post[j].copies]
  <1>2. q.state = "failed" /\ q.msg = post[j].msg /\ q # NoPost
    BY DEF NoPost
  <1>3. post'[j] = q /\ \A i \in Jobs \ {j} : post'[i] = post[i]
    BY RefusedIs DEF Typed, Types
  <1> HIDE DEF q
  <1> QED BY <1>2, <1>3, RefusedIs

LEMMA ResumeSend ==
    ASSUME Typed, NEW j \in Jobs, MarkSent(j) \/ GiveUp(j)
    PROVE  /\ post[j] # NoPost /\ post'[j] = NoPost
           /\ \A i \in Jobs \ {j} : post'[i] = post[i]
  <1>1. post[j] # NoPost /\ Resume(j)
    BY Awaits DEF MarkSent, GiveUp
  <1> QED BY <1>1, ResumeIs DEF Typed, Types

LEMMA SendKeeps ==
    ASSUME Typed, NEW j \in Jobs, SendMoves(j)
    PROVE  /\ up /\ UNCHANGED <<now, up, run, turn, acts, moved>>
           /\ \A i \in Jobs : post'[i] # NoPost => post[i] # NoPost /\ post'[i].msg = post[i].msg
  <1>1. up /\ UNCHANGED <<now, up, run, turn, acts, moved>>
    BY DEF SendMoves, Sends, TimesOut, Waits, IsRefused, MarkSent, GiveUp, history
  <1>2. CASE Sends(j)
    BY <1>1, <1>2, SendsSend
  <1>3. CASE TimesOut(j) \/ Waits(j)
    BY <1>1, <1>3, TriesSend DEF TimesOut, Waits
  <1>4. CASE IsRefused(j)
    BY <1>1, <1>4, RefusedSend
  <1>5. CASE MarkSent(j) \/ GiveUp(j)
    BY <1>1, <1>5, ResumeSend
  <1> QED BY <1>2, <1>3, <1>4, <1>5 DEF SendMoves

\* A step that starts no run and no send.
LEMMA OneByOneKept ==
    ASSUME OneByOne, up' = up, turn' \subseteq turn,
           \A i \in Jobs : run'[i].rows = run[i].rows,
           \A i \in Jobs : post'[i] # NoPost => post[i] # NoPost /\ post'[i].msg = post[i].msg,
           turn \subseteq Jobs
    PROVE  OneByOne'
  BY DEF OneByOne

\* A row that is taken: of what is sent, and of the rows that are left.
LEMMA TakeSends ==
    ASSUME Typed, NEW j \in Jobs, NEW row \in run[j].rows, Take(j, row)
    PROVE  /\ up /\ post[j] = NoPost /\ row[1] \in Tasks /\ row[2] \in 1 .. MaxTime
           /\ row = <<row[1], row[2], row[3]>>
           /\ run'[j].rows = run[j].rows \ {row} /\ run'[j].at = run[j].at
           /\ \A r \in run'[j].rows : r \in run[j].rows /\ r[1] # row[1]
           /\ \A i \in Jobs \ {j} : run'[i] = run[i] /\ post'[i] = post[i]
           /\ post'[j] # NoPost =>
                \E m \in Choice(j, row) :
                  /\ post'[j].msg = <<row[1], m, row[2]>> /\ post'[j].state = "trying" /\ post'[j].copies = 0
           /\ UNCHANGED <<now, up, task, turn, acts, got, spare, late, told, moved, faults>>
  <1>1. PICK ends \in SUBSET Tasks :
           run' = [run EXCEPT ![j] = [at |-> run[j].at, rows |-> run[j].rows \ {row}, ends |-> ends]]
    BY TakeIs
  <1>2. run'[j].rows = run[j].rows \ {row} /\ run'[j].at = run[j].at /\ \A i \in Jobs \ {j} : run'[i] = run[i]
    BY <1>1 DEF Typed, Types
  <1>3. \A r \in run'[j].rows : r \in run[j].rows /\ r[1] # row[1]
    BY <1>2 DEF Typed, RowsOnce
  <1>4. CASE UNCHANGED post
    BY <1>2, <1>3, <1>4, TakeIs, RunIs DEF Take
  <1>5. ASSUME NEW m \in Choice(j, row),
               post' = [post EXCEPT ![j] = [state |-> "trying", msg |-> <<row[1], m, row[2]>>,
                                            attempt |-> 0, copies |-> 0]]
        PROVE  /\ post'[j].msg = <<row[1], m, row[2]>> /\ post'[j].state = "trying" /\ post'[j].copies = 0
               /\ \A i \in Jobs \ {j} : post'[i] = post[i]
    <2> DEFINE q == [state |-> "trying", msg |-> <<row[1], m, row[2]>>, attempt |-> 0, copies |-> 0]
    <2>1. q.state = "trying" /\ q.msg = <<row[1], m, row[2]>> /\ q.copies = 0
      OBVIOUS
    <2>2. post'[j] = q /\ \A i \in Jobs \ {j} : post'[i] = post[i]
      BY <1>5 DEF Typed, Types
    <2> HIDE DEF q
    <2> QED BY <2>1, <2>2
  <1>6. up
    BY DEF Take
  <1> QED BY <1>2, <1>3, <1>4, <1>5, <1>6, TakeIs, RunIs

LEMMA OneByOneStep == Typed /\ OneByOne /\ [Next]_vars => OneByOne'
  <1> SUFFICES ASSUME Typed, OneByOne, [Next]_vars PROVE OneByOne'
    OBVIOUS
  <1> turn \subseteq Jobs
    BY DEF Typed, Types
  <1>1. CASE Tick
    BY <1>1 DEF Tick, OneByOne, Running, Free
  <1>2. ASSUME NEW j \in Jobs, Start(j) PROVE OneByOne'
    <2>1. \A i \in Jobs \ {j} : run'[i] = run[i]
      BY <1>2, StartIs DEF Typed, Types
    <2>2. j \in turn /\ turn' = turn \ {j} /\ UNCHANGED <<up, post>> /\ up
      BY <1>2, StartIs
    <2>3. post[j] = NoPost
      BY <2>2 DEF OneByOne
    <2> QED BY <2>1, <2>2, <2>3 DEF OneByOne
  <1>3. ASSUME NEW j \in Jobs, NEW row \in run[j].rows, Take(j, row) PROVE OneByOne'
    <2>1. j \notin turn /\ up' /\ turn' = turn
      BY <1>3, TakeSends DEF OneByOne
    <2>2. ASSUME NEW i \in Jobs, post'[i] # NoPost
          PROVE  JobOf(post'[i].msg[2]) = i /\ \A r \in run'[i].rows : r[1] # post'[i].msg[1]
      <3>1. CASE i # j
        BY <1>3, <2>2, <3>1, TakeSends DEF OneByOne
      <3>2. CASE i = j
        BY <1>3, <2>2, <3>2, TakeSends, ChoiceIs
      <3> QED BY <3>1, <3>2
    <2>3. \A i \in turn' : post'[i] = NoPost /\ run'[i].rows = {}
      BY <1>3, <2>1, TakeSends DEF OneByOne
    <2> QED BY <2>1, <2>2, <2>3 DEF OneByOne
  <1>4. ASSUME NEW j \in Jobs, SendMoves(j) PROVE OneByOne'
    BY <1>4, SendKeeps, OneByOneKept
  <1>5. CASE Crash
    BY <1>5 DEF Crash, OneByOne, NoRun
  <1>6. CASE Restart
    BY <1>6 DEF Restart, OneByOne
  <1>7. ASSUME NEW t \in Tasks, Edits(t) PROVE OneByOne'
    BY <1>7, ActsIs, OneByOneKept DEF Edits
  <1>8. ASSUME NEW t \in Tasks, Asked(t) PROVE OneByOne'
    BY <1>8, OneByOneKept DEF Asked
  <1>9. CASE UNCHANGED vars
    BY <1>9, OneByOneKept DEF vars
  <1> QED BY <1>1, <1>2, <1>3, <1>4, <1>5, <1>6, <1>7, <1>8, <1>9, EditsAre DEF Next, JobStep, SendMoves

-----------------------------------------------------------------------------
(* Once *)

LEMMA JobIs == \A m \in Marks : JobOf(m) \in Jobs
  BY DEF JobOf, Jobs

\* What is spent stays so, as long as no run reads and no send that came is marked.
LEMMA SpentKept ==
    ASSUME NEW t \in Tasks, NEW m \in Marks, Spent(t, m),
           task[t].marks \subseteq task'[t].marks,
           \A i \in Jobs : run'[i].rows \subseteq run[i].rows,
           \A i \in Jobs : \/ post'[i] = post[i]
                           \/ /\ post[i].state # "sent"
                              /\ post'[i] # NoPost => post[i] # NoPost /\ post'[i].msg = post[i].msg
    PROVE  Spent(t, m)'
  BY JobIs DEF Spent, Ahead, Posted

LEMMA BudgetKept ==
    ASSUME Budget, Typed', NEW t \in Tasks, NEW m \in Marks, Typed,
           got'[t][m] = got[t][m], spare[t][m] <= spare'[t][m], Spent(t, m) => Spent(t, m)'
    PROVE  got'[t][m] <= spare'[t][m] + (IF Spent(t, m)' THEN 1 ELSE 0)
  <1>1. got[t][m] \in Nat /\ spare[t][m] \in Nat /\ spare'[t][m] \in Nat
    BY DEF Typed, Types
  <1>2. got[t][m] <= spare[t][m] + (IF Spent(t, m) THEN 1 ELSE 0)
    BY DEF Budget
  <1> QED BY <1>1, <1>2

\* A message that comes: what is under way was not spent.
LEMMA BudgetComes ==
    ASSUME Budget, OneByOne, Typed, Typed', NEW j \in Jobs, post[j] # NoPost, post[j].state = "trying", Comes(j),
           NEW t \in Tasks, NEW m \in Marks
    PROVE  /\ post[j].msg[1] = t /\ post[j].msg[2] = m =>
                ~Spent(t, m) /\ JobOf(m) = j /\ got'[t][m] = got[t][m] + 1 /\ got[t][m] <= spare[t][m]
           /\ ~(post[j].msg[1] = t /\ post[j].msg[2] = m) => got'[t][m] = got[t][m]
  <1>1. got' = [got EXCEPT ![post[j].msg[1]] = [got[post[j].msg[1]] EXCEPT ![post[j].msg[2]]
                                                  = got[post[j].msg[1]][post[j].msg[2]] + 1]]
    BY ComesIs
  <1>2. got[t] \in [Marks -> Nat] /\ spare[t][m] \in Nat
    BY DEF Typed, Types
  <1>3. CASE post[j].msg[1] = t /\ post[j].msg[2] = m
    <2>1. JobOf(m) = j
      BY <1>3 DEF OneByOne
    <2>2. Posted(j, t, m)
      BY <1>3 DEF Posted
    <2>3. ~Spent(t, m)
      BY <2>1, <2>2 DEF Spent, Ahead, Posted
    <2>4. got[t][m] <= spare[t][m]
      BY <1>2, <2>3 DEF Budget
    <2>5. got'[t][m] = got[t][m] + 1
      BY <1>1, <1>2, <1>3 DEF Typed, Types
    <2> QED BY <1>3, <2>1, <2>3, <2>4, <2>5
  <1>4. CASE ~(post[j].msg[1] = t /\ post[j].msg[2] = m)
    BY <1>1, <1>2, <1>4 DEF Typed, Types
  <1> QED BY <1>3, <1>4

LEMMA BudgetSends ==
    ASSUME Typed, Typed', OneByOne, Budget, NEW j \in Jobs, Sends(j) PROVE Budget'
  <1> SUFFICES ASSUME NEW t \in Tasks, NEW m \in Marks
               PROVE  got'[t][m] <= spare'[t][m] + (IF Spent(t, m)' THEN 1 ELSE 0)
    BY DEF Budget
  <1>1. Comes(j) /\ UNCHANGED <<task, run, spare>>
    BY SendsIs DEF Sends
  <1>2. got[t][m] \in Nat /\ spare[t][m] \in Nat
    BY DEF Typed, Types
  <1>3. CASE post[j].msg[1] = t /\ post[j].msg[2] = m
    <2>1. JobOf(m) = j /\ got'[t][m] = got[t][m] + 1 /\ got[t][m] <= spare[t][m]
      BY <1>1, <1>3, SendsSend, BudgetComes
    <2>2. Spent(t, m)'
      BY <1>3, <2>1, SendsSend DEF Spent, Posted
    <2> QED BY <1>1, <1>2, <2>1, <2>2
  <1>4. CASE ~(post[j].msg[1] = t /\ post[j].msg[2] = m)
    <2>1. got'[t][m] = got[t][m]
      BY <1>1, <1>4, SendsSend, BudgetComes
    <2>2. Spent(t, m) => Spent(t, m)'
      BY <1>1, SendsSend, SpentKept
    <2>3. spare[t][m] <= spare'[t][m]
      BY <1>1, <1>2
    <2> QED BY <2>1, <2>2, <2>3, BudgetKept
  <1> QED BY <1>3, <1>4

LEMMA BudgetTimesOut ==
    ASSUME Typed, Typed', OneByOne, Budget, NEW j \in Jobs, TimesOut(j) PROVE Budget'
  <1> SUFFICES ASSUME NEW t \in Tasks, NEW m \in Marks
               PROVE  got'[t][m] <= spare'[t][m] + (IF Spent(t, m)' THEN 1 ELSE 0)
    BY DEF Budget
  <1>1. /\ TryAgain(j, 1) /\ Comes(j) /\ UNCHANGED <<task, run>>
        /\ spare' = [spare EXCEPT ![post[j].msg[1]][post[j].msg[2]] = @ + 1]
    BY DEF TimesOut, Of
  <1>2. got[t][m] \in Nat /\ spare[t] \in [Marks -> Nat] /\ spare[t][m] \in Nat
    BY DEF Typed, Types
  <1>3. spare'[t][m] = IF post[j].msg[1] = t /\ post[j].msg[2] = m THEN spare[t][m] + 1 ELSE spare[t][m]
    BY <1>1, <1>2 DEF Typed, Types
  <1>4. CASE post[j].msg[1] = t /\ post[j].msg[2] = m
    <2>1. got'[t][m] = got[t][m] + 1 /\ got[t][m] <= spare[t][m]
      BY <1>1, <1>4, TriesSend, BudgetComes
    <2> QED BY <1>2, <1>3, <1>4, <2>1
  <1>5. CASE ~(post[j].msg[1] = t /\ post[j].msg[2] = m)
    <2>1. got'[t][m] = got[t][m]
      BY <1>1, <1>5, TriesSend, BudgetComes
    <2>2. Spent(t, m) => Spent(t, m)'
      BY <1>1, TriesSend, SpentKept
    <2>3. spare[t][m] <= spare'[t][m]
      BY <1>2, <1>3
    <2> QED BY <2>1, <2>2, <2>3, BudgetKept
  <1> QED BY <1>4, <1>5

\* Elsewhere no message comes.
LEMMA BudgetQuiet ==
    ASSUME Typed, Typed', Budget, UNCHANGED <<got, spare>>,
           \A t \in Tasks, m \in Marks : Spent(t, m) => Spent(t, m)'
    PROVE  Budget'
  <1> SUFFICES ASSUME NEW t \in Tasks, NEW m \in Marks
               PROVE  got'[t][m] <= spare'[t][m] + (IF Spent(t, m)' THEN 1 ELSE 0)
    BY DEF Budget
  <1>1. spare[t][m] <= spare'[t][m]
    BY DEF Typed, Types
  <1> QED BY <1>1, BudgetKept

LEMMA BudgetStart ==
    ASSUME Typed, OneByOne, NEW j \in Jobs, Start(j), NEW t \in Tasks, NEW m \in Marks, Spent(t, m)
    PROVE  Spent(t, m)'
  <1> DEFINE rows == {<<u, task[u].due, task[u].marks>> : u \in Reads(j)}
  <1>1. /\ j \in turn /\ UNCHANGED <<task, post>> /\ Reads(j) \subseteq Tasks
        /\ run' = [run EXCEPT ![j] = [at |-> now, rows |-> rows, ends |-> Reads(j)]]
    BY StartIs
  <1>2. run'[j].rows = rows /\ \A i \in Jobs \ {j} : run'[i] = run[i]
    BY <1>1 DEF Typed, Types
  <1>3. post[j] = NoPost
    BY <1>1 DEF OneByOne
  <1>4. \A r \in rows : r[1] = t => r[3] = task[t].marks
    OBVIOUS
  <1> HIDE DEF rows
  <1> QED BY <1>1, <1>2, <1>3, <1>4, JobIs DEF Spent, Ahead, Posted

LEMMA BudgetTake ==
    ASSUME Typed, OneByOne, NEW j \in Jobs, NEW row \in run[j].rows, Take(j, row),
           NEW t \in Tasks, NEW m \in Marks, Spent(t, m)
    PROVE  Spent(t, m)'
  <1>1. CASE JobOf(m) # j
    BY <1>1, TakeSends, JobIs DEF Spent, Ahead, Posted
  <1>2. CASE JobOf(m) = j
    <2>1. post[j] = NoPost /\ UNCHANGED task /\ \A r \in run'[j].rows : r \in run[j].rows
      BY TakeSends
    <2>2. m \in task[t].marks /\ \A r \in run[j].rows : r[1] = t => m \in r[3]
      BY <1>2, <2>1 DEF Spent, Ahead, Posted
    <2>3. ~Posted(j, t, m)'
      BY <2>2, TakeSends, ChoiceIs DEF Posted
    <2> QED BY <1>2, <2>1, <2>2, <2>3 DEF Spent, Ahead
  <1> QED BY <1>1, <1>2

LEMMA BudgetMark ==
    ASSUME Typed, OneByOne, NEW j \in Jobs, MarkSent(j), NEW t \in Tasks, NEW m \in Marks, Spent(t, m)
    PROVE  Spent(t, m)'
  <1>1. post[j] # NoPost /\ task' = Marked(post[j].msg[1], post[j].msg[2]) /\ UNCHANGED run
    BY Awaits DEF MarkSent, Of
  <1>2. /\ task[t].marks \subseteq task'[t].marks
        /\ t = post[j].msg[1] /\ m = post[j].msg[2] => m \in task'[t].marks
    <2>1. post[j].msg[1] \in Tasks /\ post[j].msg[2] \in Marks
      BY <1>1, PostIs
    <2>2. task'[t].marks = IF t = post[j].msg[1] THEN task[t].marks \cup {post[j].msg[2]} ELSE task[t].marks
      BY <1>1, <2>1, MarkIs
    <2> QED BY <2>2
  <1>3. post'[j] = NoPost /\ \A i \in Jobs \ {j} : post'[i] = post[i]
    BY ResumeSend
  <1>4. CASE Posted(j, t, m)
    <2>1. JobOf(m) = j /\ \A r \in run[j].rows : r[1] # t
      BY <1>1, <1>4 DEF OneByOne, Posted
    <2> QED BY <1>1, <1>2, <1>3, <1>4, <2>1 DEF Spent, Ahead, Posted
  <1>5. CASE ~Posted(j, t, m)
    BY <1>1, <1>2, <1>3, <1>5, JobIs DEF Spent, Ahead, Posted
  <1> QED BY <1>4, <1>5

LEMMA BudgetCrash ==
    ASSUME Typed, Typed', Budget, Crash PROVE Budget'
  <1> SUFFICES ASSUME NEW t \in Tasks, NEW m \in Marks
               PROVE  got'[t][m] <= spare'[t][m] + (IF Spent(t, m)' THEN 1 ELSE 0)
    BY DEF Budget
  <1> DEFINE Lost == \E j \in Jobs : Is(j, "sent") /\ Of(j)[1] = t /\ Of(j)[2] = m
  <1>1. spare'[t][m] = IF Lost THEN spare[t][m] + 1 ELSE spare[t][m]
    BY DEF Crash
  <1>2. /\ \A j \in Jobs : run'[j].rows = {} /\ post'[j] = NoPost
        /\ UNCHANGED <<task, got>>
    BY DEF Crash, NoRun
  <1>3. got[t][m] \in Nat /\ spare[t][m] \in Nat
    BY DEF Typed, Types
  <1>4. got[t][m] <= spare[t][m] + (IF Spent(t, m) THEN 1 ELSE 0)
    BY DEF Budget
  <1>5. CASE Lost
    BY <1>1, <1>2, <1>3, <1>4, <1>5
  <1>6. CASE ~Lost
    <2>1. Spent(t, m) => Spent(t, m)'
      BY <1>2, <1>6, JobIs DEF Spent, Ahead, Posted, Is, Of
    <2> QED BY <1>1, <1>2, <1>3, <1>4, <1>6, <2>1
  <1> QED BY <1>5, <1>6

LEMMA BudgetStep == Typed /\ Typed' /\ OneByOne /\ Budget /\ [Next]_vars => Budget'
  <1> SUFFICES ASSUME Typed, Typed', OneByOne, Budget, [Next]_vars PROVE Budget'
    OBVIOUS
  <1>1. CASE Tick
    BY <1>1, SpentKept, BudgetQuiet DEF Tick, history
  <1>2. ASSUME NEW j \in Jobs, Start(j) PROVE Budget'
    BY <1>2, StartIs, BudgetStart, BudgetQuiet DEF history
  <1>3. ASSUME NEW j \in Jobs, NEW row \in run[j].rows, Take(j, row) PROVE Budget'
    BY <1>3, TakeSends, BudgetTake, BudgetQuiet
  <1>4. ASSUME NEW j \in Jobs, Waits(j) PROVE Budget'
    BY <1>4, TriesSend, SpentKept, BudgetQuiet DEF Waits, history
  <1>5. ASSUME NEW j \in Jobs, IsRefused(j) PROVE Budget'
    BY <1>5, RefusedSend, SpentKept, BudgetQuiet DEF IsRefused, history
  <1>6. ASSUME NEW j \in Jobs, MarkSent(j) PROVE Budget'
    BY <1>6, BudgetMark, BudgetQuiet DEF MarkSent
  <1>7. ASSUME NEW j \in Jobs, GiveUp(j) PROVE Budget'
    BY <1>7, ResumeSend, SpentKept, BudgetQuiet DEF GiveUp, history, Is
  <1>8. CASE Restart
    BY <1>8, SpentKept, BudgetQuiet DEF Restart, history
  <1>9. ASSUME NEW u \in Tasks, Edits(u) PROVE Budget'
    <2>1. UNCHANGED <<got, spare, post>> /\ \A i \in Jobs : run'[i].rows = run[i].rows
      BY <1>9, ActsIs DEF Edits
    <2>2. \A t \in Tasks : task'[t].marks = task[t].marks
      BY <1>9, EditsSet
    <2>3. \A t \in Tasks, m \in Marks : Spent(t, m) => Spent(t, m)'
      BY <2>1, <2>2, SpentKept
    <2> QED BY <2>1, <2>3, BudgetQuiet
  <1>10. ASSUME NEW u \in Tasks, Asked(u) PROVE Budget'
    <2>1. UNCHANGED <<got, spare, post, run>> /\ \A t \in Tasks : task[t].marks \subseteq task'[t].marks
      BY <1>10, MarkIs DEF Asked, history, Marks
    <2>2. \A t \in Tasks, m \in Marks : Spent(t, m) => Spent(t, m)'
      BY <2>1, SpentKept
    <2> QED BY <2>1, <2>2, BudgetQuiet
  <1>11. CASE UNCHANGED vars
    BY <1>11, SpentKept, BudgetQuiet DEF vars, history
  <1> QED BY <1>1, <1>2, <1>3, <1>4, <1>5, <1>6, <1>7, <1>8, <1>9, <1>10, <1>11, BudgetSends, BudgetTimesOut,
             BudgetCrash, EditsAre
          DEF Next, JobStep

-----------------------------------------------------------------------------
(* Silence *)

LEMMA MutingKept ==
    ASSUME Typed, Typed', Muting, \A t \in Tasks : late'[t] = late[t],
           \A t \in Tasks : /\ task'[t].open = task[t].open /\ task'[t].flagged = task[t].flagged
                            /\ task'[t].due = task[t].due
                            /\ Held(t)' => Held(t)
    PROVE  Muting'
  <1> SUFFICES ASSUME NEW t \in Tasks PROVE late'[t] <= (IF Silenced(t)' /\ ~Held(t)' THEN 1 ELSE 0)
    BY DEF Muting
  <1>1. Silenced(t)' = Silenced(t)
    BY DEF Silenced
  <1>2. late[t] \in Nat /\ late[t] <= (IF Silenced(t) /\ ~Held(t) THEN 1 ELSE 0)
    BY DEF Muting, Typed, Types
  <1> QED BY <1>1, <1>2

LEMMA MutingStart ==
    ASSUME Typed, Typed', OneByOne, Muting, NEW j \in Jobs, Start(j) PROVE Muting'
  <1> SUFFICES ASSUME NEW t \in Tasks PROVE late'[t] <= (IF Silenced(t)' /\ ~Held(t)' THEN 1 ELSE 0)
    BY DEF Muting
  <1> DEFINE rows == {<<u, task[u].due, task[u].marks>> : u \in Reads(j)}
  <1>1. /\ j \in turn /\ UNCHANGED <<task, post, late>>
        /\ run' = [run EXCEPT ![j] = [at |-> now, rows |-> rows, ends |-> Reads(j)]]
    BY StartIs DEF history
  <1>2. run'[j].rows = rows /\ \A i \in Jobs \ {j} : run'[i] = run[i]
    BY <1>1 DEF Typed, Types
  <1>3. late[t] \in Nat /\ late[t] <= (IF Silenced(t) /\ ~Held(t) THEN 1 ELSE 0)
    BY DEF Muting, Typed, Types
  <1>4. Silenced(t)' = Silenced(t)
    BY <1>1 DEF Silenced
  <1>5. CASE j # "warn"
    <2>1. run'["warn"] = run["warn"]
      BY <1>2, <1>5 DEF Jobs
    <2>2. Held(t)' = Held(t)
      BY <1>1, <2>1 DEF Held
    <2> QED BY <1>1, <1>3, <1>4, <2>2
  <1>6. CASE j = "warn"
    <2>1. Held(t)' => t \in Reads(j)
      BY <1>1, <1>2, <1>6 DEF Held, OneByOne
    <2>2. t \in Reads(j) => ~Silenced(t)
      BY <1>6 DEF Reads, PendingDeadlines, Silenced
    <2>3. ~Held(t)
      BY <1>1, <1>6 DEF Held, OneByOne
    <2> QED BY <1>1, <1>3, <1>4, <2>1, <2>2, <2>3
  <1> QED BY <1>5, <1>6

LEMMA MutingComes ==
    ASSUME Typed, Typed', OneByOne, Muting, NEW j \in Jobs, Comes(j), UNCHANGED <<task, run>>,
           post[j] # NoPost, post[j].state = "trying", post'[j].msg = post[j].msg,
           post'[j].state = "trying" => post'[j].copies = post[j].copies + 1,
           \A i \in Jobs \ {j} : post'[i] = post[i]
    PROVE  Muting'
  <1> SUFFICES ASSUME NEW t \in Tasks PROVE late'[t] <= (IF Silenced(t)' /\ ~Held(t)' THEN 1 ELSE 0)
    BY DEF Muting
  <1> DEFINE u == post[j].msg[1]
             Counts == Silenced(u) /\ post[j].msg[2] # Nudge /\ post[j].copies = 0
  <1>1. late' = IF Counts THEN [late EXCEPT ![u] = late[u] + 1] ELSE late
    BY ComesIs
  <1>2. late[t] \in Nat /\ late[t] <= (IF Silenced(t) /\ ~Held(t) THEN 1 ELSE 0)
    BY DEF Muting, Typed, Types
  <1>3. Silenced(t)' = Silenced(t)
    BY DEF Silenced
  <1>4. post[j].copies \in Nat
    BY PostIs
  <1>5. Held(t)' => Held(t)
    <2>1. CASE j = "warn"
      BY <1>4, <2>1 DEF Held
    <2>2. CASE j # "warn"
      <3>1. post'["warn"] = post["warn"]
        BY <2>2 DEF Jobs
      <3> QED BY <3>1 DEF Held
    <2> QED BY <2>1, <2>2
  <1>6. CASE Counts /\ u = t
    <2>1. j = "warn"
      BY <1>6 DEF OneByOne, JobOf
    <2>2. Held(t)
      BY <1>6, <2>1 DEF Held
    <2>3. ~Held(t)'
      BY <1>4, <1>6, <2>1 DEF Held, OneByOne
    <2>4. late'[t] = late[t] + 1
      BY <1>1, <1>6 DEF Typed, Types
    <2> QED BY <1>2, <1>3, <1>6, <2>2, <2>3, <2>4
  <1>7. CASE ~(Counts /\ u = t)
    <2>1. late'[t] = late[t]
      BY <1>1, <1>7 DEF Typed, Types
    <2> QED BY <1>2, <1>3, <1>5, <2>1
  <1> QED BY <1>6, <1>7

\* A run that goes on holds no more than it did.
LEMMA HeldKept ==
    ASSUME NEW t \in Tasks, run'["warn"].rows \subseteq run["warn"].rows,
           \/ post'["warn"] = post["warn"]
           \/ post'["warn"] = NoPost
           \/ post'["warn"].state # "trying"
           \/ /\ post["warn"] # NoPost /\ post["warn"].state = "trying"
              /\ post'["warn"].msg = post["warn"].msg /\ post'["warn"].copies = post["warn"].copies,
           Held(t)'
    PROVE  Held(t)
  BY DEF Held

LEMMA MutingStep == Typed /\ Typed' /\ OneByOne /\ Muting /\ [Next]_vars => Muting'
  <1> SUFFICES ASSUME Typed, Typed', OneByOne, Muting, [Next]_vars PROVE Muting'
    OBVIOUS
  <1> "warn" \in Jobs
    BY DEF Jobs
  <1>1. CASE Tick
    BY <1>1, HeldKept, MutingKept DEF Tick, history
  <1>2. ASSUME NEW j \in Jobs, NEW row \in run[j].rows, Take(j, row) PROVE Muting'
    <2>1. UNCHANGED <<task, late>>
      BY <1>2, TakeSends
    <2>2. ASSUME NEW t \in Tasks, Held(t)' PROVE Held(t)
      <3>1. CASE j = "warn"
        <4>1. ASSUME NEW r \in run'[j].rows, r[1] = t PROVE Held(t)
          BY <1>2, <3>1, <4>1, TakeSends DEF Held
        <4>2. ASSUME post'[j] # NoPost, post'[j].msg[1] = t PROVE Held(t)
          <5>1. row[1] = t
            BY <1>2, <4>2, TakeSends
          <5> QED BY <1>2, <3>1, <5>1 DEF Held
        <4> QED BY <2>2, <3>1, <4>1, <4>2 DEF Held
      <3>2. CASE j # "warn"
        BY <1>2, <2>2, <3>2, TakeSends DEF Held
      <3> QED BY <3>1, <3>2
    <2> QED BY <2>1, <2>2, MutingKept
  <1>3. ASSUME NEW j \in Jobs, Sends(j) PROVE Muting'
    BY <1>3, SendsSend, MutingComes DEF Sends
  <1>4. ASSUME NEW j \in Jobs, TimesOut(j) PROVE Muting'
    BY <1>4, TriesSend, MutingComes DEF TimesOut
  <1>5. ASSUME NEW j \in Jobs, Waits(j) PROVE Muting'
    <2>1. TryAgain(j, 0) /\ UNCHANGED <<task, run, late>>
      BY <1>5 DEF Waits, history
    <2>2. /\ post[j] # NoPost /\ post[j].state = "trying" /\ post'[j].msg = post[j].msg
          /\ post'[j].copies = post[j].copies /\ \A i \in Jobs \ {j} : post'[i] = post[i]
      BY <2>1, TriesSend, PostIs
    <2> QED BY <2>1, <2>2, HeldKept, MutingKept
  <1>6. ASSUME NEW j \in Jobs, IsRefused(j) PROVE Muting'
    BY <1>6, RefusedSend, HeldKept, MutingKept DEF IsRefused, history
  <1>7. ASSUME NEW j \in Jobs, MarkSent(j) PROVE Muting'
    <2>1. /\ post[j] # NoPost /\ task' = Marked(post[j].msg[1], post[j].msg[2]) /\ UNCHANGED <<run, late>>
      BY <1>7, Awaits DEF MarkSent, Of
    <2>2. post[j].msg[1] \in Tasks /\ post[j].msg[2] \in Marks
      BY <2>1, PostIs
    <2>3. \A t \in Tasks : /\ task'[t].open = task[t].open /\ task'[t].flagged = task[t].flagged
                           /\ task'[t].due = task[t].due
      BY <2>1, <2>2, MarkIs
    <2> QED BY <1>7, <2>1, <2>3, ResumeSend, HeldKept, MutingKept
  <1>8. ASSUME NEW j \in Jobs, GiveUp(j) PROVE Muting'
    BY <1>8, ResumeSend, HeldKept, MutingKept DEF GiveUp, history
  <1>9. CASE Crash
    BY <1>9, HeldKept, MutingKept DEF Crash, NoRun
  <1>10. CASE Restart
    BY <1>10, HeldKept, MutingKept DEF Restart, history
  <1>11. ASSUME NEW u \in Tasks, Edits(u) PROVE Muting'
    <2>1. UNCHANGED post /\ run'["warn"].rows = run["warn"].rows
      BY <1>11, ActsIs DEF Edits
    <2>2. late' = [late EXCEPT ![u] = 0] /\ \A t \in Tasks : t # u => task'[t] = task[t]
      BY <1>11, EditsSet
    <2>3. ASSUME NEW t \in Tasks PROVE late'[t] <= (IF Silenced(t)' /\ ~Held(t)' THEN 1 ELSE 0)
      <3>1. late[t] \in Nat /\ late[t] <= (IF Silenced(t) /\ ~Held(t) THEN 1 ELSE 0)
        BY DEF Muting, Typed, Types
      <3>2. late'[t] = IF t = u THEN 0 ELSE late[t]
        BY <2>2 DEF Typed, Types
      <3>3. t # u => Silenced(t)' = Silenced(t)
        BY <2>2 DEF Silenced
      <3>4. Held(t)' = Held(t)
        BY <2>1 DEF Held
      <3> QED BY <3>1, <3>2, <3>3, <3>4
    <2> QED BY <2>3 DEF Muting
  <1>12. ASSUME NEW u \in Tasks, Asked(u) PROVE Muting'
    <2>1. \A t \in Tasks : /\ task'[t].open = task[t].open /\ task'[t].flagged = task[t].flagged
                           /\ task'[t].due = task[t].due
      BY <1>12, MarkIs DEF Asked, Marks
    <2> QED BY <1>12, <2>1, HeldKept, MutingKept DEF Asked, history
  <1>13. CASE UNCHANGED vars
    BY <1>13, HeldKept, MutingKept DEF vars, history
  <1> QED BY <1>1, <1>2, <1>3, <1>4, <1>5, <1>6, <1>7, <1>8, <1>9, <1>10, <1>11, <1>12, <1>13, MutingStart, EditsAre
          DEF Next, JobStep

-----------------------------------------------------------------------------
(* The last warning *)

LEMMA SmallestOf == ASSUME NEW S \in SUBSET Nat, S # {} PROVE \E x \in S : \A y \in S : x <= y
  <1>1. IsWellFoundedOn(OpToRel(<, Nat), Nat)
    BY NatLessThanWellFounded
  <1>2. PICK x \in S : \A y \in S : ~ (<<y, x>> \in OpToRel(<, Nat))
    BY <1>1, WFMin
  <1>3. \A y \in S : ~ (y < x)
    BY <1>2 DEF OpToRel
  <1> QED BY <1>3

LEMMA LastIs == Last \in Stages /\ \A x \in Stages : Threshold[Last] <= Threshold[x]
  <1> DEFINE N == {Threshold[s] : s \in Stages}
  <1>1. N \in SUBSET Nat /\ N # {}
    BY WarningSizes
  <1>2. PICK n \in N : \A m \in N : n <= m
    BY <1>1, SmallestOf
  <1>3. PICK s \in Stages : n = Threshold[s]
    BY <1>2
  <1>4. \A x \in Stages : Threshold[s] <= Threshold[x]
    BY <1>2, <1>3
  <1> QED BY <1>4 DEF Last

\* In the last stage the choice is the last stage, until the row has its mark.
LEMMA LastChosen ==
    ASSUME Typed, NEW row \in run["warn"].rows, row[2] - run["warn"].at <= Threshold[Last], Last \notin row[3]
    PROVE  Choice("warn", row) = {Last}
  <1>1. Last \in Unsent(row, run["warn"].at)
    BY LastIs DEF Unsent
  <1>2. Last \in Choice("warn", row)
    BY <1>1, LastIs DEF Choice, Unsent
  <1>3. ASSUME NEW s \in Choice("warn", row) PROVE s = Last
    <2>1. s \in Stages /\ Threshold[s] <= Threshold[Last]
      BY <1>1 DEF Choice, Unsent
    <2>2. Threshold[s] = Threshold[Last]
      BY <2>1, LastIs, WarningSizes
    <2> QED BY <2>1, <2>2, LastIs, WarningSizes
  <1> QED BY <1>2, <1>3

\* What a run has read of a deadline that stays, when it takes the row.
LEMMA LastTaken ==
    ASSUME Typed, Read, NEW row \in run["warn"].rows,
           row[1] \notin moved, row[2] - run["warn"].at <= Threshold[Last]
    PROVE  Choice("warn", row) = {Last} \/ <<row[1], Last, row[2]>> \in told
  <1>1. "warn" \in Jobs
    BY DEF Jobs
  <1>2. CASE Last \notin row[3]
    BY <1>2, LastChosen
  <1>3. CASE Last \in row[3]
    <2>1. row[1] \in Tasks /\ Last \in task[row[1]].marks /\ row[2] = task[row[1]].due
      BY <1>1, <1>3, RunIs DEF Read
    <2> QED BY <2>1, LastIs DEF Read
  <1> QED BY <1>2, <1>3

RowsRead == \A j \in Jobs : \A r \in run[j].rows :
              r[3] \subseteq task[r[1]].marks /\ (r[1] \notin moved => r[2] = task[r[1]].due)

PostsRead == \A j \in Jobs : post[j] # NoPost =>
               /\ post[j].msg[1] \notin moved => post[j].msg[3] = task[post[j].msg[1]].due
               /\ post[j].state = "sent" => post[j].msg \in told

MarksTold == \A t \in Tasks \ moved, s \in Stages : s \in task[t].marks => <<t, s, task[t].due>> \in told

LEMMA ReadIs == Read <=> RowsRead /\ PostsRead /\ MarksTold
  BY DEF Read, RowsRead, PostsRead, MarksTold

\* Marks are added and tasks are moved; what has come has come.
LEMMA RowsReadKept ==
    ASSUME Typed, RowsRead, \A i \in Jobs : run'[i].rows \subseteq run[i].rows, moved \subseteq moved',
           \A t \in Tasks : task[t].marks \subseteq task'[t].marks /\ (t \notin moved' => task'[t].due = task[t].due)
    PROVE  RowsRead'
  BY RunIs DEF RowsRead

LEMMA PostsReadKept ==
    ASSUME Typed, PostsRead, moved \subseteq moved', told \subseteq told',
           \A t \in Tasks : t \notin moved' => task'[t].due = task[t].due,
           \A i \in Jobs : post'[i] # NoPost =>
              /\ post[i] # NoPost /\ post'[i].msg = post[i].msg
              /\ post'[i].state = "sent" => post[i].state = "sent" \/ post[i].msg \in told'
    PROVE  PostsRead'
  BY PostIs DEF PostsRead

LEMMA MarksToldKept ==
    ASSUME MarksTold, moved \subseteq moved', told \subseteq told',
           \A t \in Tasks : t \notin moved' =>
              /\ task'[t].due = task[t].due
              /\ \A s \in Stages : s \in task'[t].marks => s \in task[t].marks \/ <<t, s, task[t].due>> \in told'
    PROVE  MarksTold'
  BY DEF MarksTold

\* A step that leaves the rows of the tasks.
LEMMA ReadKept ==
    ASSUME Typed, Read, UNCHANGED <<task, moved>>, told \subseteq told',
           \A i \in Jobs : run'[i].rows \subseteq run[i].rows,
           \A i \in Jobs : post'[i] # NoPost =>
              /\ post[i] # NoPost /\ post'[i].msg = post[i].msg
              /\ post'[i].state = "sent" => post[i].state = "sent" \/ post[i].msg \in told'
    PROVE  Read'
  <1>1. RowsRead' /\ MarksTold'
    BY ReadIs, RowsReadKept, MarksToldKept
  <1>2. PostsRead'
    BY ReadIs, PostsReadKept
  <1> QED BY <1>1, <1>2 DEF Read, RowsRead, PostsRead, MarksTold

LEMMA ReadStart ==
    ASSUME Typed, Read, NEW j \in Jobs, Start(j) PROVE Read'
  <1> DEFINE rows == {<<u, task[u].due, task[u].marks>> : u \in Reads(j)}
  <1>1. /\ UNCHANGED <<task, post, moved, told>>
        /\ run' = [run EXCEPT ![j] = [at |-> now, rows |-> rows, ends |-> Reads(j)]]
    BY StartIs DEF history
  <1>2. run'[j].rows = rows /\ \A i \in Jobs \ {j} : run'[i] = run[i]
    BY <1>1 DEF Typed, Types
  <1>3. \A r \in rows : r[3] = task[r[1]].marks /\ r[2] = task[r[1]].due
    OBVIOUS
  <1> HIDE DEF rows
  <1>4. \A i \in Jobs : \A r \in run'[i].rows :
          r[3] \subseteq task'[r[1]].marks /\ (r[1] \notin moved' => r[2] = task'[r[1]].due)
    BY <1>1, <1>2, <1>3 DEF Read
  <1> QED BY <1>1, <1>4 DEF Read

LEMMA ReadTake ==
    ASSUME Typed, Read, NEW j \in Jobs, NEW row \in run[j].rows, Take(j, row) PROVE Read'
  <1>1. UNCHANGED <<task, moved, told>> /\ \A i \in Jobs : run'[i].rows \subseteq run[i].rows
    BY TakeSends
  <1>2. RowsRead' /\ MarksTold'
    BY <1>1, ReadIs, RowsReadKept, MarksToldKept
  <1>3. ASSUME NEW i \in Jobs, post'[i] # NoPost
        PROVE  /\ post'[i].msg[1] \notin moved => post'[i].msg[3] = task[post'[i].msg[1]].due
               /\ post'[i].state = "sent" => post'[i].msg \in told
    <2>1. CASE i = j
      <3>1. post'[j].msg[1] = row[1] /\ post'[j].msg[3] = row[2] /\ post'[j].state = "trying"
        BY <1>3, <2>1, TakeSends
      <3> QED BY <2>1, <3>1 DEF Read
    <2>2. CASE i # j
      BY <1>3, <2>2, TakeSends DEF Read
    <2> QED BY <2>1, <2>2
  <1>4. PostsRead'
    BY <1>1, <1>3 DEF PostsRead
  <1> QED BY <1>2, <1>4 DEF Read, RowsRead, PostsRead, MarksTold

LEMMA ReadMarks ==
    ASSUME Typed, Read, NEW j \in Jobs, MarkSent(j) PROVE Read'
  <1>1. /\ post[j] # NoPost /\ task' = Marked(post[j].msg[1], post[j].msg[2]) /\ UNCHANGED <<run, moved, told>>
        /\ post[j].state = "sent"
    BY Awaits DEF MarkSent, Of, Is
  <1> DEFINE u == post[j].msg[1]
             m == post[j].msg[2]
  <1>2. u \in Tasks /\ m \in Marks /\ post[j].msg = <<u, m, post[j].msg[3]>>
    BY <1>1, PostIs
  <1>3. \A t \in Tasks : /\ task'[t].due = task[t].due
                         /\ task'[t].marks = IF t = u THEN task[t].marks \cup {m} ELSE task[t].marks
    BY <1>1, <1>2, MarkIs
  <1>4. u \notin moved => <<u, m, task[u].due>> \in told
    BY <1>1, <1>2 DEF Read
  <1>5. MarksTold'
    BY <1>1, <1>3, <1>4, MarksToldKept, ReadIs
  <1>6. RowsRead'
    BY <1>1, <1>3, RowsReadKept, ReadIs
  <1>7. PostsRead'
    <2>1. \A i \in Jobs : post'[i] # NoPost => post[i] # NoPost /\ post'[i] = post[i]
      BY ResumeSend
    <2> QED BY <1>1, <1>3, <2>1, PostsReadKept, ReadIs
  <1> QED BY <1>5, <1>6, <1>7 DEF Read, RowsRead, PostsRead, MarksTold

LEMMA ReadEdits ==
    ASSUME Typed, Read, NEW u \in Tasks, Edits(u) PROVE Read'
  <1>1. UNCHANGED <<post, told>> /\ \A i \in Jobs : run'[i].rows = run[i].rows
    BY ActsIs DEF Edits
  <1>2. /\ \A t \in Tasks : task'[t].marks = task[t].marks /\ (t \notin moved' => task'[t].due = task[t].due)
        /\ moved \subseteq moved'
    BY EditsSet
  <1>3. RowsRead' /\ PostsRead' /\ MarksTold'
    BY <1>1, <1>2, ReadIs, RowsReadKept, PostsReadKept, MarksToldKept
  <1> QED BY <1>3 DEF Read, RowsRead, PostsRead, MarksTold

LEMMA ReadAsked ==
    ASSUME Typed, Read, NEW u \in Tasks, Asked(u) PROVE Read'
  <1>1. UNCHANGED <<post, told, moved, run>> /\ Nudge \in Marks /\ task' = Marked(u, Nudge)
    BY DEF Asked, history, Marks
  <1>2. \A t \in Tasks : /\ task'[t].due = task[t].due
                         /\ task'[t].marks = IF t = u THEN task[t].marks \cup {Nudge} ELSE task[t].marks
    BY <1>1, MarkIs
  <1>3. RowsRead' /\ PostsRead'
    BY <1>1, <1>2, ReadIs, RowsReadKept, PostsReadKept
  <1>4. MarksTold'
    BY <1>1, <1>2, ReadIs, MarksToldKept, WarningSizes
  <1> QED BY <1>3, <1>4 DEF Read, RowsRead, PostsRead, MarksTold

\* A message that comes is told.
LEMMA ComesTold == ASSUME Typed, NEW j \in Jobs, post[j] # NoPost, Comes(j) PROVE told' = told \cup {post[j].msg}
  BY ComesIs

LEMMA ReadStep == Typed /\ Typed' /\ Read /\ [Next]_vars => Read'
  <1> SUFFICES ASSUME Typed, Typed', Read, [Next]_vars PROVE Read'
    OBVIOUS
  <1>1. CASE Tick
    BY <1>1, ReadKept DEF Tick, history
  <1>2. ASSUME NEW j \in Jobs, Sends(j) PROVE Read'
    <2>1. told' = told \cup {post[j].msg} /\ UNCHANGED <<task, moved, run>>
      BY <1>2, SendsSend, ComesTold, SendsIs DEF Sends
    <2> QED BY <1>2, <2>1, SendsSend, ReadKept
  <1>3. ASSUME NEW j \in Jobs, TimesOut(j) PROVE Read'
    <2>1. told' = told \cup {post[j].msg} /\ UNCHANGED <<task, moved, run>>
      BY <1>3, TriesSend, ComesTold DEF TimesOut
    <2> QED BY <1>3, <2>1, TriesSend, ReadKept DEF TimesOut
  <1>4. ASSUME NEW j \in Jobs, Waits(j) PROVE Read'
    BY <1>4, TriesSend, ReadKept DEF Waits, history
  <1>5. ASSUME NEW j \in Jobs, IsRefused(j) PROVE Read'
    BY <1>5, RefusedSend, ReadKept DEF IsRefused, history
  <1>6. ASSUME NEW j \in Jobs, GiveUp(j) PROVE Read'
    BY <1>6, ResumeSend, ReadKept DEF GiveUp, history
  <1>7. CASE Crash
    BY <1>7, ReadKept DEF Crash, NoRun
  <1>8. CASE Restart
    BY <1>8, ReadKept DEF Restart, history
  <1>9. CASE UNCHANGED vars
    BY <1>9, ReadKept DEF vars, history
  <1> QED BY <1>1, <1>2, <1>3, <1>4, <1>5, <1>6, <1>7, <1>8, <1>9, ReadStart, ReadTake, ReadMarks, ReadEdits,
             ReadAsked, EditsAre
          DEF Next, JobStep

\* A step that leaves what the warning job awaits, and when it began.
LEMMA NearestKept ==
    ASSUME Nearest, told \subseteq told', moved \subseteq moved',
           post'["warn"] # NoPost =>
              /\ post["warn"] # NoPost /\ post'["warn"].msg = post["warn"].msg
              /\ run'["warn"].at = run["warn"].at
    PROVE  Nearest'
  BY DEF Nearest

LEMMA LastKept ==
    ASSUME LastWarningComes, told \subseteq told', moved \subseteq moved', calm' = calm PROVE LastWarningComes'
  BY DEF LastWarningComes

LEMMA LastTake ==
    ASSUME Typed, Read, Nearest, LastWarningComes, NEW j \in Jobs, NEW row \in run[j].rows, Take(j, row)
    PROVE  Nearest' /\ LastWarningComes'
  <1>1. CASE j # "warn"
    <2>1. UNCHANGED <<told, moved>> /\ run'["warn"] = run["warn"] /\ post'["warn"] = post["warn"] /\ calm' = calm
      BY <1>1, TakeSends, TakeIs DEF Jobs
    <2> QED BY <2>1, NearestKept, LastKept
  <1>2. CASE j = "warn"
    <2>1. UNCHANGED <<told, moved>> /\ run'["warn"].at = run["warn"].at
      BY <1>2, TakeSends
    <2>2. Nearest'
      <3> SUFFICES ASSUME post'["warn"] # NoPost, post'["warn"].msg[1] \notin moved,
                          post'["warn"].msg[3] - run["warn"].at <= Threshold[Last]
                   PROVE  \/ post'["warn"].msg[2] = Last
                          \/ <<post'["warn"].msg[1], Last, post'["warn"].msg[3]>> \in told
        BY <2>1 DEF Nearest
      <3>1. PICK m \in Choice("warn", row) : post'["warn"].msg = <<row[1], m, row[2]>>
        BY <1>2, TakeSends
      <3>2. post'["warn"].msg[1] = row[1] /\ post'["warn"].msg[2] = m /\ post'["warn"].msg[3] = row[2]
        BY <3>1
      <3>3. Choice("warn", row) = {Last} \/ <<row[1], Last, row[2]>> \in told
        BY <1>2, <3>2, LastTaken
      <3> QED BY <3>1, <3>2, <3>3
    <2>3. LastWarningComes'
      <3>1. CASE calm' = calm
        BY <2>1, <3>1, LastKept
      <3>2. CASE Choice("warn", row) = {} /\ calm' = calm \cup {<<row[1], row[2], run["warn"].at>>}
        BY <1>2, <2>1, <3>2, LastTaken DEF LastWarningComes
      <3> QED BY <1>2, <3>1, <3>2, TakeIs
    <2> QED BY <2>2, <2>3
  <1> QED BY <1>1, <1>2

LEMMA LastMark ==
    ASSUME Typed, Read, Nearest, LastWarningComes, NEW j \in Jobs, MarkSent(j)
    PROVE  LastWarningComes'
  <1>1. post[j] # NoPost /\ post[j].state = "sent" /\ UNCHANGED <<told, moved>>
    BY Awaits DEF MarkSent, Is
  <1>2. post[j].msg \in told /\ post[j].msg = <<post[j].msg[1], post[j].msg[2], post[j].msg[3]>>
    BY <1>1, PostIs DEF Read
  <1>3. CASE calm' = calm
    BY <1>1, <1>3, LastKept
  <1>4. CASE j = "warn" /\ calm' = calm \cup {<<post[j].msg[1], post[j].msg[3], run[j].at>>}
    <2>1. post[j].msg[1] \notin moved /\ post[j].msg[3] - run[j].at <= Threshold[Last]
            => <<post[j].msg[1], Last, post[j].msg[3]>> \in told
      BY <1>1, <1>2, <1>4 DEF Nearest
    <2> QED BY <1>1, <1>4, <2>1 DEF LastWarningComes
  <1> QED BY <1>3, <1>4 DEF MarkSent, Of

LEMMA LastStep ==
    Typed /\ OneByOne /\ Read /\ Nearest /\ LastWarningComes /\ [Next]_vars => Nearest' /\ LastWarningComes'
  <1> SUFFICES ASSUME Typed, OneByOne, Read, Nearest, LastWarningComes, [Next]_vars
               PROVE  Nearest' /\ LastWarningComes'
    OBVIOUS
  <1> "warn" \in Jobs
    BY DEF Jobs
  <1>1. CASE Tick
    BY <1>1, NearestKept, LastKept DEF Tick, history
  <1>2. ASSUME NEW j \in Jobs, Start(j) PROVE Nearest' /\ LastWarningComes'
    <2>1. UNCHANGED <<post, told, moved, calm>> /\ \A i \in Jobs \ {j} : run'[i] = run[i]
      BY <1>2, StartIs DEF history, Typed, Types
    <2>2. post[j] = NoPost
      BY <1>2, StartIs DEF OneByOne
    <2> QED BY <2>1, <2>2, NearestKept, LastKept
  <1>3. ASSUME NEW j \in Jobs, SendMoves(j) PROVE Nearest'
    <2>1. /\ UNCHANGED <<run, moved>>
          /\ \A i \in Jobs : post'[i] # NoPost => post[i] # NoPost /\ post'[i].msg = post[i].msg
      BY <1>3, SendKeeps
    <2>2. told \subseteq told'
      BY <1>3 DEF SendMoves, Sends, TimesOut, Comes, Waits, IsRefused, MarkSent, GiveUp, history
    <2> QED BY <2>1, <2>2, NearestKept
  <1>4. ASSUME NEW j \in Jobs, Sends(j) \/ TimesOut(j) \/ Waits(j) \/ IsRefused(j) \/ GiveUp(j)
        PROVE  LastWarningComes'
    BY <1>4, LastKept DEF Sends, TimesOut, Comes, Waits, IsRefused, GiveUp, history
  <1>5. CASE Crash
    BY <1>5, NearestKept, LastKept DEF Crash
  <1>6. CASE Restart
    BY <1>6, NearestKept, LastKept DEF Restart, history
  <1>7. ASSUME NEW u \in Tasks, Edits(u) PROVE Nearest' /\ LastWarningComes'
    <2>1. UNCHANGED <<post, told, calm>> /\ run'["warn"].at = run["warn"].at /\ moved \subseteq moved'
      BY <1>7, ActsIs, EditsSet DEF Edits
    <2> QED BY <2>1, NearestKept, LastKept
  <1>8. ASSUME NEW u \in Tasks, Asked(u) PROVE Nearest' /\ LastWarningComes'
    BY <1>8, NearestKept, LastKept DEF Asked, history
  <1>9. CASE UNCHANGED vars
    BY <1>9, NearestKept, LastKept DEF vars, history
  <1> QED BY <1>1, <1>2, <1>3, <1>4, <1>5, <1>6, <1>7, <1>8, <1>9, LastTake, LastMark, EditsAre
          DEF Next, JobStep, SendMoves

-----------------------------------------------------------------------------
(* The theorems *)

LEMMA InvInit == Init => Inv
  <1> SUFFICES ASSUME Init PROVE Inv
    OBVIOUS
  <1>1. Typed
    BY TypedInit
  <1>2. /\ \A j \in Jobs : post[j] = NoPost /\ run[j].rows = {}
        /\ \A t \in Tasks : late[t] = 0 /\ task[t].marks = {}
        /\ \A t \in Tasks, m \in Marks : got[t][m] = 0 /\ spare[t][m] = 0
        /\ up /\ turn = Jobs /\ calm = {}
    BY WarningSizes DEF Init, DeliveryInit, NoRun
  <1>3. OneByOne
    BY <1>2 DEF OneByOne
  <1>5. Budget
    <2>1. ASSUME NEW t \in Tasks, NEW m \in Marks
          PROVE  got[t][m] <= spare[t][m] + (IF Spent(t, m) THEN 1 ELSE 0)
      BY <1>2
    <2> QED BY <2>1 DEF Budget
  <1>6. Muting
    <2>1. ASSUME NEW t \in Tasks PROVE late[t] <= (IF Silenced(t) /\ ~Held(t) THEN 1 ELSE 0)
      BY <1>2
    <2> QED BY <2>1 DEF Muting
  <1>4. Read /\ LastWarningComes /\ Nearest
    BY <1>2 DEF Read, LastWarningComes, Nearest, Jobs
  <1> QED BY <1>1, <1>3, <1>4, <1>5, <1>6 DEF Inv

LEMMA InvStep == Inv /\ [Next]_vars => Inv'
  BY TypedStep, OneByOneStep, BudgetStep, MutingStep, ReadStep, LastStep DEF Inv

\* The jobs of main.py and the acts of the owner keep what the four properties rest on.
THEOREM Invariance == Spec => []Inv
  BY InvInit, InvStep, PTL DEF Spec


\* Every variable keeps its type, and a row is read once by a run (get_pending_deadlines,
\* TelegramSender): whatever comes of the sends.
THEOREM TypeCorrect == Spec => []TypeOK
  <1>1. Typed => TypeOK
    <2> SUFFICES ASSUME Typed PROVE TypeOK
      OBVIOUS
    <2>1. \A j \in Jobs : /\ post[j] = NoPost \/ post[j] \in Posts
                          /\ run[j].rows \subseteq Tasks \X (1 .. MaxTime) \X SUBSET Marks
      BY RunIs DEF Typed, Types, SnapRows
    <2> QED BY <2>1 DEF Typed, Types, RowsOnce, TypeOK
  <1>2. Inv => TypeOK
    BY <1>1 DEF Inv
  <1> QED BY Invariance, <1>2, PTL

\* deadline_buffer_check and priority_nudge send a warning again only for an attempt
\* that timed out after it had come, or a crash before mark_buffer_sent.
THEOREM OnceEach == Spec => []EachLevelOnce
  <1>1. Inv => EachLevelOnce
    <2> SUFFICES ASSUME Inv, NEW t \in Tasks, NEW m \in Marks PROVE got[t][m] <= 1 + spare[t][m]
      BY DEF EachLevelOnce
    <2>1. got[t][m] \in Nat /\ spare[t][m] \in Nat
      BY DEF Inv, Typed, Types
    <2>2. got[t][m] <= spare[t][m] + (IF Spent(t, m) THEN 1 ELSE 0)
      BY DEF Inv, Budget
    <2> QED BY <2>1, <2>2
  <1> QED BY Invariance, <1>1, PTL

\* "Mute buffers", done, pause and delete: one warning more at most, of a run that
\* deadline_buffer_check had under way.
THEOREM SilenceHolds == Spec => []OneAfterMute
  <1>1. Inv => OneAfterMute
    <2> SUFFICES ASSUME Inv, NEW t \in Tasks PROVE late[t] <= 1
      BY DEF OneAfterMute
    <2>1. late[t] \in Nat /\ late[t] <= (IF Silenced(t) /\ ~Held(t) THEN 1 ELSE 0)
      BY DEF Inv, Typed, Types, Muting
    <2> QED BY <2>1
  <1> QED BY Invariance, <1>1, PTL

\* The choice of the nearest stage not yet sent (deadline_buffer_check) leaves no
\* undisturbed deadline without its last warning.
THEOREM LastComes == Spec => []LastWarningComes
  BY Invariance, PTL DEF Inv
=============================================================================
