---------------------------- MODULE SyncOutbox -----------------------------
(***************************************************************************)
(* The synchronization engine of the workspace layer: handlers append      *)
(* events to the timeline, and every half minute a worker thread enqueues  *)
(* one outbox row per event and adapter and drains the pending rows        *)
(* (core/workspace/sync.py, core/workspace/app.py, database.py).           *)
(*                                                                         *)
(* JobQueue runs one pass at a time, but each call into database.py is its *)
(* own transaction: handlers on the event loop, "reset everything" among   *)
(* them, and a crash fall between any two.  The rows a pass works on are   *)
(* the ones its SELECT returned.                                           *)
(***************************************************************************)
EXTENDS Integers, FiniteSets

CONSTANTS
    Users, Owner,   \* OWNER_ID
    Adapters,       \* the registered adapters ("telegram")
    Limit,          \* events and rows one pass reads
    MaxAttempts,    \* max_attempts
    MaxEvents,      \* bound: events ever recorded
    MaxFails,       \* bound: sends that fail cleanly
    MaxSlips,       \* bound: timeouts, database errors and crashes
    MaxResets       \* bound: uses of "reset everything"

ASSUME SyncSizes ==
    /\ Owner \in Users
    /\ {Limit, MaxAttempts} \subseteq Nat \ {0}
    /\ {MaxEvents, MaxFails, MaxSlips, MaxResets} \subseteq Nat
ASSUME SyncFinite == IsFiniteSet(Users) /\ IsFiniteSet(Adapters)

VARIABLES
    events,     \* timeline_events
    rows,       \* sync_outbox
    nextEvent, nextRow,  \* sqlite_sequence of the two tables
    busy,       \* users with an open task
    worker,     \* the pass under way
    wire,       \* sends whose result nobody waits for any more
    born,       \* events recorded so far: an event's number outlives its id
    fails, slips, resets,
    posts       \* history: posts[b][a], how often event b reached adapter a

vars == <<events, rows, nextEvent, nextRow, busy, worker, wire, born,
          fails, slips, resets, posts>>

Births == 1 .. MaxEvents

Event == [id : Nat, user : Users, birth : Births, synced : BOOLEAN]

\* timeline_event_id and payload of an outbox row: the payload was rendered
\* from the event the pass had read, the id is whatever holds that id now.
OutboxRow == [id : Nat, user : Users, event : Nat, birth : Births, adapter : Adapters,
              status : {"pending", "sent", "failed"}, attempts : Nat]

Phases == {"idle", "user", "enqueue", "drain", "sent", "stamp"}

Resting == [phase |-> "idle", users |-> {}, user |-> Owner, backlog |-> {}, batch |-> {}]

-----------------------------------------------------------------------------
(* Queries *)

\* ORDER BY id ASC LIMIT n
Oldest(S, n) == {x \in S : Cardinality({y \in S : y.id < x.id}) < n}

Unsynced(u) == Oldest({e \in events : e.user = u /\ ~e.synced}, Limit)

Pending(u) == Oldest({r \in rows : r.user = u /\ r.status = "pending"}, Limit)

\* mutant: only rows that can still be sent count
Exists_PendingOnly(id, a) == \E r \in rows : r.event = id /\ r.adapter = a /\ r.status = "pending"

\* sync_outbox_exists: a row in any status counts
Exists(id, a) == \E r \in rows : r.event = id /\ r.adapter = a

\* mutant: a row that has not been tried yet is forgotten
Remaining_FailedOnly(id) == {r \in rows : r.event = id /\ r.status = "failed"}

\* sync_remaining_for_event: rows in any other status than 'sent'
Remaining(id) == {r \in rows : r.event = id /\ r.status # "sent"}

\* worker_user_ids: get_all_user_ids (users with an open task) and OWNER_ID
WorkerUsers == busy \cup {Owner}

First(S) == CHOOSE x \in S : \A y \in S : x.id <= y.id

-----------------------------------------------------------------------------

Init ==
    /\ events = {} /\ rows = {} /\ nextEvent = 1 /\ nextRow = 1
    /\ busy \in SUBSET Users
    /\ worker = Resting /\ wire = {}
    /\ born = 0 /\ fails = 0 /\ slips = 0 /\ resets = 0
    /\ posts = [b \in Births |-> [a \in Adapters |-> 0]]

(* The event loop *)

\* TimelineEngine.record
Record(u) ==
    /\ born < MaxEvents
    /\ events' = events \cup {[id |-> nextEvent, user |-> u, birth |-> born + 1, synced |-> FALSE]}
    /\ nextEvent' = nextEvent + 1 /\ born' = born + 1
    /\ UNCHANGED <<rows, nextRow, busy, worker, wire, fails, slips, resets, posts>>

\* The user's first open task, or the last one closed.
ToggleTask(u) ==
    /\ busy' = IF u \in busy THEN busy \ {u} ELSE busy \cup {u}
    /\ UNCHANGED <<events, rows, nextEvent, nextRow, worker, wire, born, fails, slips, resets, posts>>

\* reset_everything: a table's ids start again once it holds no row of anybody.
ResetEverything(u) ==
    /\ resets < MaxResets /\ resets' = resets + 1
    /\ events' = {e \in events : e.user # u}
    /\ rows' = {r \in rows : r.user # u}
    /\ nextEvent' = IF events' = {} THEN 1 ELSE nextEvent
    /\ nextRow' = IF rows' = {} THEN 1 ELSE nextRow
    /\ busy' = busy \ {u}
    /\ UNCHANGED <<worker, wire, born, fails, slips, posts>>

-----------------------------------------------------------------------------
(* One pass of the worker thread *)

StartPass ==
    /\ worker.phase = "idle"
    /\ worker' = [worker EXCEPT !.phase = "user", !.users = WorkerUsers]
    /\ UNCHANGED <<events, rows, nextEvent, nextRow, busy, wire, born, fails, slips, resets, posts>>

ReadBacklog(u) ==
    /\ worker.phase = "user" /\ u \in worker.users
    /\ worker' = [worker EXCEPT !.phase = "enqueue", !.users = @ \ {u}, !.user = u,
                                !.backlog = Unsynced(u) \X Adapters]
    /\ UNCHANGED <<events, rows, nextEvent, nextRow, busy, wire, born, fails, slips, resets, posts>>

\* One step of enqueue: exists, render and insert for one event and adapter.
Enqueue(e, a) ==
    /\ worker.phase = "enqueue" /\ <<e, a>> \in worker.backlog
    /\ \A p \in worker.backlog : e.id <= p[1].id
    /\ worker' = [worker EXCEPT !.backlog = @ \ {<<e, a>>}]
    /\ IF Exists(e.id, a) THEN UNCHANGED <<rows, nextRow>>
       ELSE /\ rows' = rows \cup {[id |-> nextRow, user |-> e.user, event |-> e.id,
                                   birth |-> e.birth, adapter |-> a,
                                   status |-> "pending", attempts |-> 0]}
            /\ nextRow' = nextRow + 1
    /\ UNCHANGED <<events, nextEvent, busy, wire, born, fails, slips, resets, posts>>

ReadPending ==
    /\ worker.phase = "enqueue" /\ worker.backlog = {}
    /\ worker' = [worker EXCEPT !.phase = "drain", !.batch = Pending(worker.user)]
    /\ UNCHANGED <<events, rows, nextEvent, nextRow, busy, wire, born, fails, slips, resets, posts>>

Posted(r) == posts' = [posts EXCEPT ![r.birth][r.adapter] = @ + 1]

\* mutant: an adapter without a sender reports success
Delivered_NotConfigured ==
    /\ worker.phase = "drain" /\ worker.batch # {}
    /\ worker' = [worker EXCEPT !.phase = "sent"]
    /\ UNCHANGED <<events, rows, nextEvent, nextRow, busy, wire, born, fails, slips, resets, posts>>

Delivered ==
    /\ worker.phase = "drain" /\ worker.batch # {}
    /\ Posted(First(worker.batch))
    /\ worker' = [worker EXCEPT !.phase = "sent"]
    /\ UNCHANGED <<events, rows, nextEvent, nextRow, busy, wire, born, fails, slips, resets>>

\* mutant: attempts counted down
MarkRow_CountsDown(id, status) ==
    rows' = {IF r.id = id THEN [r EXCEPT !.status = status, !.attempts = @ - 1] ELSE r : r \in rows}

\* UPDATE ... WHERE id: nothing, when a reset has removed the row.
MarkRow(id, status) ==
    rows' = {IF r.id = id THEN [r EXCEPT !.status = status, !.attempts = @ + 1] ELSE r : r \in rows}

MarkSent ==
    /\ worker.phase = "sent"
    /\ MarkRow(First(worker.batch).id, "sent")
    /\ worker' = [worker EXCEPT !.phase = "stamp"]
    /\ UNCHANGED <<events, nextEvent, nextRow, busy, wire, born, fails, slips, resets, posts>>

\* _maybe_mark_event_synced
Stamp ==
    /\ worker.phase = "stamp"
    /\ LET item == First(worker.batch)
       IN /\ events' = IF Remaining(item.event) = {}
                       THEN {IF e.id = item.event THEN [e EXCEPT !.synced = TRUE] ELSE e : e \in events}
                       ELSE events
          /\ worker' = [worker EXCEPT !.phase = "drain", !.batch = @ \ {item}]
    /\ UNCHANGED <<rows, nextEvent, nextRow, busy, wire, born, fails, slips, resets, posts>>

\* mutant: one attempt too few
GivesUp_Early(r) == r.attempts + 2 >= MaxAttempts
GivesUp(r) == r.attempts + 1 >= MaxAttempts

\* The rest of the loop body for an item the adapter reports as failed.
Failure ==
    /\ worker.phase = "drain" /\ worker.batch # {}
    /\ LET item == First(worker.batch)
       IN /\ MarkRow(item.id, IF GivesUp(item) THEN "failed" ELSE "pending")
          /\ worker' = [worker EXCEPT !.batch = @ \ {item}]

Fails ==
    /\ Failure
    /\ fails < MaxFails /\ fails' = fails + 1
    /\ UNCHANGED <<events, nextEvent, nextRow, busy, wire, born, slips, resets, posts>>

\* future.result(timeout=30) gives up on a send that the event loop goes on with.
TimesOut ==
    /\ Failure
    /\ slips < MaxSlips /\ slips' = slips + 1
    /\ wire' = wire \cup {First(worker.batch)}
    /\ UNCHANGED <<events, nextEvent, nextRow, busy, born, fails, resets, posts>>

ArrivesLate(r) ==
    /\ r \in wire /\ wire' = wire \ {r}
    /\ Posted(r)
    /\ UNCHANGED <<events, rows, nextEvent, nextRow, busy, worker, born, fails, slips, resets>>

UserDone ==
    /\ worker.phase = "drain" /\ worker.batch = {}
    /\ worker' = [worker EXCEPT !.phase = "user"]
    /\ UNCHANGED <<events, rows, nextEvent, nextRow, busy, wire, born, fails, slips, resets, posts>>

PassDone ==
    /\ worker.phase = "user" /\ worker.users = {}
    /\ worker' = Resting
    /\ UNCHANGED <<events, rows, nextEvent, nextRow, busy, wire, born, fails, slips, resets, posts>>

\* run_once logs an exception of the database and goes on with the next user.
UserFails ==
    /\ worker.phase \in {"enqueue", "drain", "sent", "stamp"}
    /\ slips < MaxSlips /\ slips' = slips + 1
    /\ worker' = [worker EXCEPT !.phase = "user", !.backlog = {}, !.batch = {}]
    /\ UNCHANGED <<events, rows, nextEvent, nextRow, busy, wire, born, fails, resets, posts>>

Crash ==
    /\ worker.phase # "idle" \/ wire # {}
    /\ slips < MaxSlips /\ slips' = slips + 1
    /\ worker' = Resting /\ wire' = {}
    /\ UNCHANGED <<events, rows, nextEvent, nextRow, busy, born, fails, resets, posts>>

-----------------------------------------------------------------------------

Pass ==
    \/ StartPass \/ (\E u \in Users : ReadBacklog(u))
    \/ (\E p \in worker.backlog : Enqueue(p[1], p[2]))
    \/ ReadPending \/ Delivered \/ MarkSent \/ Stamp \/ Fails \/ TimesOut
    \/ UserDone \/ PassDone

Next ==
    \/ Pass
    \/ \E u \in Users : Record(u) \/ ToggleTask(u) \/ ResetEverything(u)
    \/ \E r \in wire : ArrivesLate(r)
    \/ UserFails \/ Crash

Spec == Init /\ [][Next]_vars

\* JobQueue starts a pass every 30 seconds and the thread runs to its end.
FairSpec == Spec /\ WF_vars(Pass)
-----------------------------------------------------------------------------
(* Properties *)

\* The types of the two tables, of the pass and of the counters.
TypeOK ==
    /\ events \subseteq Event /\ rows \subseteq OutboxRow /\ wire \subseteq OutboxRow
    /\ {nextEvent, nextRow, fails, slips, resets} \subseteq Nat /\ born \in 0 .. MaxEvents
    /\ busy \subseteq Users
    /\ worker \in [phase : Phases, users : SUBSET Users, user : Users,
                   backlog : SUBSET (Event \X Adapters), batch : SUBSET OutboxRow]
    /\ worker.phase \in {"sent", "stamp"} => worker.batch # {}
    /\ posts \in [Births -> [Adapters -> Nat]]

\* An event reaches an adapter once, and once more only for each timeout,
\* database error or crash, and for a reset that falls between the reading of the
\* backlog and its enqueueing, whatever is retried and re-enqueued meanwhile
\* (sync.py enqueue: "re-enqueuing never double-posts").
NoDoublePost == \A b \in Births, a \in Adapters : posts[b][a] <= 1 + slips + resets

\* A row is marked sent only if its payload reached its adapter, although the
\* mark is written by id after the send and a reset may come between.
SentWasPosted == \A r \in rows : r.status = "sent" => posts[r.birth][r.adapter] > 0

\* An event is stamped synced_at only when it has reached every adapter, under
\* any failures, timeouts and crashes; a reset, after which ids are used again,
\* can break this (README, known divergences).
StampedAfterPost ==
    resets = 0 => \A e \in events, a \in Adapters : e.synced => posts[e.birth][a] > 0

\* The promise, read off the tables.
Promise == INSTANCE SyncPromise WITH
    Events <- Births,
    state <- [b \in Births |->
                CASE b > born -> "future"
                  [] \E e \in events : e.birth = b /\ e.synced -> "synced"
                  [] OTHER -> "open"],
    posted <- [b \in Births |-> {a \in Adapters : posts[b][a] > 0}]

\* As long as sends fail fewer than MaxAttempts times, nothing crashes and
\* nothing is reset, every event of the owner is posted to every adapter and
\* then stamped, and none is stamped before.
KeepsPromise == Promise!FairSpec
=============================================================================
