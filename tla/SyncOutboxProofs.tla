-------------------------- MODULE SyncOutboxProofs --------------------------
(***************************************************************************)
(* No event is posted twice but for a slip or a reset, a row is marked     *)
(* sent only after its message, and as long as nothing was reset an event  *)
(* is stamped only when it has reached every adapter: for any users,       *)
(* adapters, limits and bounds.                                            *)
(***************************************************************************)
EXTENDS SyncOutbox, FiniteSetTheorems, WellFoundedInduction, TLAPS

\* the item under way, and whether its message has come
Item == First(worker.batch)
Out == worker.phase \in {"sent", "stamp"}

\* What a pass holds in each phase; what it read of the backlog was not stamped.
Hands ==
    /\ worker.phase # "enqueue" => worker.backlog = {}
    /\ worker.phase \notin {"drain", "sent", "stamp"} => worker.batch = {}
    /\ \A p \in worker.backlog : ~p[1].synced
    /\ \A r \in worker.batch : r.status = "pending"

\* A number names one event, which has one id and one user for good.
Knows(b, i, u) ==
    \/ \E e \in events : e.birth = b /\ e.id = i /\ e.user = u
    \/ \E r \in rows : r.birth = b /\ r.event = i /\ r.user = u
    \/ \E p \in worker.backlog : p[1].birth = b /\ p[1].id = i /\ p[1].user = u

Named ==
    \A b \in Births, i, j \in Nat, u, v \in Users :
        Knows(b, i, u) /\ Knows(b, j, v) => i = j /\ u = v /\ b <= born

\* Nothing is known of events to come.
Past ==
    /\ \A r \in worker.batch \cup wire : r.birth <= born
    /\ \A b \in Births, a \in Adapters : posts[b][a] > 0 => b <= born

\* The ids of the outbox.  A row that a pass holds is the row of that id, as long as
\* it exists.
RowIds ==
    /\ \A r \in rows : r.id < nextRow
    /\ \A r, s \in rows : r.id = s.id => r = s
    /\ \A r, s \in worker.batch : r.id = s.id => r = s
    /\ \A r \in worker.batch, s \in rows :
          r.id = s.id => /\ r.birth = s.birth /\ r.adapter = s.adapter
                         /\ worker.phase = "stamp" /\ r = Item => s.status = "sent"

\* An event has one row for each adapter.
OneRow ==
    \A r, s \in rows \cup worker.batch :
        r.birth = s.birth /\ r.adapter = s.adapter => r.id = s.id

\* Whatever was done about an event that is still there has left its row.
Traces ==
    \A e \in events, a \in Adapters :
        \/ posts[e.birth][a] > 0
        \/ \E r \in worker.batch \cup wire : r.birth = e.birth /\ r.adapter = a
        => \E s \in rows : s.birth = e.birth /\ s.adapter = a

\* an event and adapter may be posted by a row that is still to be sent,
Live(b, a) ==
    \E r \in rows \cup worker.batch :
        /\ r.birth = b /\ r.adapter = a /\ r.status = "pending"
        /\ ~(Out /\ r.id = Item.id)

\* by a row still to be made for an event that a reset has removed,
Owed(b, a) ==
    /\ \E p \in worker.backlog : p[1].birth = b /\ p[2] = a
    /\ \A e \in events : e.birth # b

\* or by a send that timed out.
Wired(b, a) == {r \in wire : r.birth = b /\ r.adapter = a}

One(x) == IF x THEN 1 ELSE 0

BudgetOf(b, a) ==
    posts[b][a] + Cardinality(Wired(b, a)) + One(Live(b, a)) + One(Owed(b, a)) <= 1 + slips + resets

Budget == \A b \in Births, a \in Adapters : BudgetOf(b, a)

\* the mark follows the message
Sent ==
    /\ SentWasPosted
    /\ Out => posts[Item.birth][Item.adapter] > 0

\* Ids of events, and as long as nothing was reset, every row has its event.
EventIds ==
    /\ \A e \in events : e.id < nextEvent
    /\ \A d, e \in events : d.id = e.id => d = e
    /\ \A d, e \in events : d.birth = e.birth => d = e
    /\ IsFiniteSet(events)

Rooted ==
    /\ \A r \in rows \cup worker.batch : \E e \in events : e.birth = r.birth /\ e.id = r.event /\ e.user = r.user
    /\ \A p \in worker.backlog : p[1] \in Unsynced(p[1].user) /\ p[1].user = worker.user

Begun(e) == \E r \in rows : r.event = e.id
Row(e, a) == \E r \in rows : r.event = e.id /\ r.adapter = a
Full(e) == \A a \in Adapters : Row(e, a)

\* Once begun, an event stays in the window of the backlog until all its rows are made,
\* which is before any of them is sent.
Window ==
    /\ \A e \in events : Begun(e) /\ ~e.synced => e \in Unsynced(e.user)
    /\ \A e \in events : e.synced => Full(e)
    /\ worker.phase = "enqueue" =>
          \A e \in events, a \in Adapters :
              /\ e.user = worker.user /\ ~e.synced
              /\ Begun(e) \/ \E p \in worker.backlog : p[1] = e
              => Row(e, a) \/ <<e, a>> \in worker.backlog
    /\ \A r \in worker.batch, e \in events : e.id = r.event => Full(e)

Whole == resets = 0 => Rooted /\ Window /\ StampedAfterPost

Inv ==
    /\ TypeOK /\ Hands /\ Named /\ Past /\ RowIds /\ OneRow /\ Traces /\ Budget /\ Sent
    /\ EventIds /\ IsFiniteSet(wire)

-----------------------------------------------------------------------------
(* The first of a batch *)

LEMMA SmallestOf == ASSUME NEW S \in SUBSET Nat, S # {} PROVE \E x \in S : \A y \in S : x <= y
  <1>1. IsWellFoundedOn(OpToRel(<, Nat), Nat)
    BY NatLessThanWellFounded
  <1>2. PICK x \in S : \A y \in S : ~ (<<y, x>> \in OpToRel(<, Nat))
    BY <1>1, WFMin
  <1>3. \A y \in S : ~ (y < x)
    BY <1>2 DEF OpToRel
  <1> QED BY <1>3

\* ORDER BY id: there is a first row.
LEMMA FirstIs ==
    ASSUME NEW S \in SUBSET OutboxRow, S # {}
    PROVE  First(S) \in S
  <1> DEFINE N == {r.id : r \in S}
  <1>1. N \in SUBSET Nat /\ N # {}
    BY DEF OutboxRow
  <1>2. PICK n \in N : \A m \in N : n <= m
    BY <1>1, SmallestOf
  <1>3. PICK r \in S : r.id = n
    OBVIOUS
  <1>4. \A s \in S : r.id <= s.id
    BY <1>2, <1>3
  <1> QED BY <1>4 DEF First

LEMMA ItemIs == ASSUME TypeOK, worker.batch # {} PROVE Item \in worker.batch /\ Item \in OutboxRow
  BY FirstIs DEF TypeOK, Item

-----------------------------------------------------------------------------
(* What a mark does to the rows, and a stamp to the events *)

Alike(r, s) == /\ r.id = s.id /\ r.user = s.user /\ r.event = s.event
               /\ r.birth = s.birth /\ r.adapter = s.adapter

MarkAs(r, id, status) == IF r.id = id THEN [r EXCEPT !.status = status, !.attempts = @ + 1] ELSE r

LEMMA Marking ==
    ASSUME TypeOK, NEW id, NEW status \in {"pending", "sent", "failed"}, MarkRow(id, status)
    PROVE  /\ rows' \subseteq OutboxRow
           /\ \A r \in rows : \E s \in rows' : Alike(r, s)
           /\ \A s \in rows' : \E r \in rows :
                 s = MarkAs(r, id, status) /\ Alike(r, s) /\ s.status = IF r.id = id THEN status ELSE r.status
  <1>1. rows' = {MarkAs(r, id, status) : r \in rows}
    BY DEF MarkRow, MarkAs
  <1>2. ASSUME NEW r \in rows
        PROVE  /\ MarkAs(r, id, status) \in OutboxRow /\ Alike(r, MarkAs(r, id, status))
               /\ MarkAs(r, id, status).status = IF r.id = id THEN status ELSE r.status
    <2>1. r \in OutboxRow
      BY DEF TypeOK
    <2>2. CASE r.id # id
      BY <2>1, <2>2 DEF Alike, MarkAs
    <2>3. CASE r.id = id
      <3>1. PICK n \in Nat : n = r.attempts + 1
        BY <2>1 DEF OutboxRow
      <3>2. MarkAs(r, id, status) = [r EXCEPT !.status = status, !.attempts = n]
        BY <2>3, <3>1 DEF MarkAs
      <3>3. [r EXCEPT !.status = status, !.attempts = n] \in OutboxRow
        BY <2>1 DEF OutboxRow
      <3>4. /\ Alike(r, [r EXCEPT !.status = status, !.attempts = n])
            /\ [r EXCEPT !.status = status, !.attempts = n].status = status
        BY <2>1 DEF OutboxRow, Alike
      <3> QED BY <2>3, <3>2, <3>3, <3>4
    <2> QED BY <2>2, <2>3
  <1> QED BY <1>1, <1>2

\* the same event, stamped or not
SameEvent(d, e) == d.id = e.id /\ d.user = e.user /\ d.birth = e.birth

StampAs(e, id) == IF e.id = id THEN [e EXCEPT !.synced = TRUE] ELSE e

LEMMA Stamping ==
    ASSUME TypeOK, NEW id, events' = {IF e.id = id THEN [e EXCEPT !.synced = TRUE] ELSE e : e \in events}
    PROVE  /\ events' \subseteq Event
           /\ \A e \in events : \E d \in events' : SameEvent(d, e)
           /\ \A d \in events' : \E e \in events :
                 d = StampAs(e, id) /\ SameEvent(d, e) /\ (e.id # id => d = e) /\ (e.id = id => d.synced)
           /\ IsFiniteSet(events) => IsFiniteSet(events')
  <1>1. events' = {StampAs(e, id) : e \in events}
    BY DEF StampAs
  <1>2. \A e \in events : /\ StampAs(e, id) \in Event /\ SameEvent(StampAs(e, id), e)
                          /\ (e.id # id => StampAs(e, id) = e) /\ (e.id = id => StampAs(e, id).synced)
    BY DEF TypeOK, Event, SameEvent, StampAs
  <1>3. IsFiniteSet(events) => IsFiniteSet(events')
    <2> DEFINE f == [e \in events |-> StampAs(e, id)]
    <2>1. f \in Surjection(events, events')
      BY <1>1 DEF Surjection
    <2> QED BY <2>1, FS_Surjection
  <1> QED BY <1>1, <1>2, <1>3

-----------------------------------------------------------------------------
(* Types *)

LEMMA TypeStep == TypeOK /\ [Next]_vars => TypeOK'
  <1> SUFFICES ASSUME TypeOK, [Next]_vars PROVE TypeOK'
    OBVIOUS
  <1> USE DEF TypeOK
  <1> DEFINE Passes == [phase : Phases, users : SUBSET Users, user : Users,
                        backlog : SUBSET (Event \X Adapters), batch : SUBSET OutboxRow]
  <1>0. Owner \in Users /\ worker \in Passes /\ {MaxEvents, MaxFails, MaxSlips, MaxResets} \subseteq Nat
    BY SyncSizes
  <1>1. CASE StartPass
    BY <1>0, <1>1 DEF StartPass, WorkerUsers, Phases
  <1>2. ASSUME NEW u \in Users, ReadBacklog(u) PROVE TypeOK'
    <2>1. Unsynced(u) \X Adapters \subseteq Event \X Adapters
      BY DEF Unsynced, Oldest
    <2> QED BY <1>0, <1>2, <2>1 DEF ReadBacklog, Phases
  <1>3. ASSUME NEW p \in worker.backlog, Enqueue(p[1], p[2]) PROVE TypeOK'
    <2>1. p[1] \in Event /\ p[2] \in Adapters
      OBVIOUS
    <2>2. worker' \in Passes /\ worker'.phase = "enqueue"
      BY <1>0, <1>3 DEF Enqueue, Phases
    <2>3. rows' \subseteq OutboxRow /\ nextRow' \in Nat
      BY <1>3, <2>1 DEF Enqueue, OutboxRow, Event
    <2> QED BY <1>3, <2>2, <2>3 DEF Enqueue
  <1>4. CASE ReadPending
    <2>1. Pending(worker.user) \subseteq OutboxRow
      BY DEF Pending, Oldest
    <2> QED BY <1>0, <1>4, <2>1 DEF ReadPending, Phases
  <1>5. ASSUME NEW r \in OutboxRow, Posted(r) PROVE posts' \in [Births -> [Adapters -> Nat]]
    BY <1>5 DEF Posted, OutboxRow
  <1>6. CASE Delivered
    <2>1. Item \in OutboxRow
      BY <1>6, ItemIs DEF Delivered
    <2>2. posts' \in [Births -> [Adapters -> Nat]]
      BY <1>5, <1>6, <2>1 DEF Delivered, Item
    <2> QED BY <1>0, <1>6, <2>2 DEF Delivered, Phases
  <1>7. CASE MarkSent
    <2>1. rows' \subseteq OutboxRow
      BY <1>7, Marking DEF MarkSent
    <2> QED BY <1>0, <1>7, <2>1 DEF MarkSent, Phases
  <1>8. CASE Stamp
    <2>1. events' \subseteq Event
      BY <1>8, Stamping DEF Stamp
    <2> QED BY <1>0, <1>8, <2>1 DEF Stamp, Phases
  <1>9. ASSUME Failure PROVE rows' \subseteq OutboxRow /\ worker' \in Passes /\ worker'.phase = "drain"
    <2>1. rows' \subseteq OutboxRow
      BY <1>9, Marking DEF Failure
    <2> QED BY <1>0, <1>9, <2>1 DEF Failure, Phases
  <1>10. CASE Fails
    BY <1>9, <1>10, <1>0 DEF Fails
  <1>11. CASE TimesOut
    <2>1. Item \in OutboxRow
      BY <1>11, ItemIs DEF TimesOut, Failure
    <2>2. wire' \subseteq OutboxRow
      BY <1>11, <2>1 DEF TimesOut, Item
    <2> QED BY <1>9, <1>11, <2>2 DEF TimesOut
  <1>12. CASE UserDone
    BY <1>0, <1>12 DEF UserDone, Phases
  <1>13. CASE PassDone
    BY <1>0, <1>13 DEF PassDone, Resting, Phases
  <1>14. ASSUME NEW u \in Users, Record(u) PROVE TypeOK'
    <2>1. born \in Nat /\ born + 1 \in Births /\ born' \in 0 .. MaxEvents
      BY <1>0, <1>14 DEF Record, Births
    <2>2. [id |-> nextEvent, user |-> u, birth |-> born + 1, synced |-> FALSE] \in Event
      BY <2>1 DEF Event
    <2>3. events' \subseteq Event
      BY <1>14, <2>2 DEF Record
    <2>4. nextEvent' \in Nat
      BY <1>14 DEF Record
    <2> QED BY <1>14, <2>1, <2>3, <2>4 DEF Record
  <1>15. ASSUME NEW u \in Users, ToggleTask(u) PROVE TypeOK'
    BY <1>15 DEF ToggleTask
  <1>16. ASSUME NEW u \in Users, ResetEverything(u) PROVE TypeOK'
    BY <1>16 DEF ResetEverything
  <1>17. ASSUME NEW r \in wire, ArrivesLate(r) PROVE TypeOK'
    BY <1>5, <1>17 DEF ArrivesLate
  <1>18. CASE UserFails
    <2>1. worker' = [phase |-> "user", users |-> worker.users, user |-> worker.user,
                     backlog |-> {}, batch |-> {}]
      BY <1>0, <1>18 DEF UserFails
    <2>2. /\ {} \in SUBSET (Event \X Adapters) /\ {} \in SUBSET OutboxRow
          /\ worker.users \in SUBSET Users /\ worker.user \in Users /\ "user" \in Phases
      BY <1>0 DEF Phases
    <2>3. worker' \in Passes /\ worker'.phase = "user"
      BY <2>1, <2>2
    <2> QED BY <1>18, <2>3 DEF UserFails
  <1>19. CASE Crash
    BY <1>0, <1>19 DEF Crash, Resting, Phases
  <1>20. CASE UNCHANGED vars
    BY <1>20 DEF vars
  <1> QED BY <1>1, <1>2, <1>3, <1>4, <1>6, <1>7, <1>8, <1>10, <1>11, <1>12, <1>13, <1>14, <1>15, <1>16,
             <1>17, <1>18, <1>19, <1>20 DEF Next, Pass

LEMMA TypeInit == Init => TypeOK
  BY SyncSizes DEF Init, TypeOK, Resting, Phases, Births

-----------------------------------------------------------------------------
(* What steps have in common *)

LEMMA NamedKept ==
    ASSUME Inv, \A b \in Births, i \in Nat, u \in Users : Knows(b, i, u)' => Knows(b, i, u),
           born' = born
    PROVE  Named'
  BY DEF Inv, Named

\* No row is about an event to come.
LEMMA BirthsKnown ==
    ASSUME Inv
    PROVE  /\ \A r \in rows : r.birth <= born
           /\ \A e \in events : e.birth <= born
           /\ \A p \in worker.backlog : p[1].birth <= born
  <1>1. /\ \A r \in rows : Knows(r.birth, r.event, r.user)
        /\ \A e \in events : Knows(e.birth, e.id, e.user)
        /\ \A p \in worker.backlog : Knows(p[1].birth, p[1].id, p[1].user)
    BY DEF Knows
  <1>2. /\ \A r \in rows : r.birth \in Births /\ r.event \in Nat /\ r.user \in Users
        /\ \A e \in events : e.birth \in Births /\ e.id \in Nat /\ e.user \in Users
        /\ \A p \in worker.backlog : p[1].birth \in Births /\ p[1].id \in Nat /\ p[1].user \in Users
    BY DEF Inv, TypeOK, OutboxRow, Event
  <1> QED BY <1>1, <1>2 DEF Inv, Named

LEMMA WiredIsFinite ==
    ASSUME Inv, NEW b, NEW a
    PROVE  IsFiniteSet(Wired(b, a)) /\ Cardinality(Wired(b, a)) \in Nat
  BY FS_Subset, FS_CardinalityType DEF Inv, Wired

\* The budget of an event and an adapter that nothing is added to.
LEMMA BudgetKept ==
    ASSUME Inv, TypeOK', NEW b \in Births, NEW a \in Adapters,
           posts'[b][a] = posts[b][a], wire' \subseteq wire,
           Live(b, a)' => Live(b, a) \/ slips' = slips + 1,
           Owed(b, a)' => Owed(b, a) \/ resets' = resets + 1,
           \/ slips' = slips /\ resets' \in {resets, resets + 1}
           \/ slips' = slips + 1 /\ resets' = resets
    PROVE  BudgetOf(b, a)'
  <1>1. BudgetOf(b, a)
    BY DEF Inv, Budget
  <1>2. Cardinality(Wired(b, a)) \in Nat /\ Cardinality(Wired(b, a)') \in Nat
        /\ Cardinality(Wired(b, a)') <= Cardinality(Wired(b, a))
    <2>1. Wired(b, a)' \subseteq Wired(b, a)
      BY DEF Wired
    <2> QED BY <2>1, WiredIsFinite, FS_Subset, FS_CardinalityType
  <1>3. posts[b][a] \in Nat /\ slips \in Nat /\ resets \in Nat
    BY DEF Inv, TypeOK
  <1>4. One(Live(b, a)') + One(Owed(b, a)') <=
          One(Live(b, a)) + One(Owed(b, a)) + (slips' - slips) + (resets' - resets)
    BY <1>3 DEF One
  <1>5. One(Live(b, a)) \in Nat /\ One(Owed(b, a)) \in Nat /\ One(Live(b, a)') \in Nat /\ One(Owed(b, a)') \in Nat
    BY DEF One
  <1>6. slips' \in Nat /\ resets' \in Nat
    BY <1>3
  <1> HIDE DEF One, Live, Owed, Wired
  <1>7. posts'[b][a] + Cardinality(Wired(b, a)') + One(Live(b, a)') + One(Owed(b, a)') <= 1 + slips' + resets'
    BY <1>1, <1>2, <1>3, <1>4, <1>5, <1>6 DEF BudgetOf
  <1> QED BY <1>7 DEF BudgetOf

\* The pass lets go of what it holds.
LEMMA LettingGo ==
    ASSUME Inv, TypeOK', UNCHANGED <<events, rows, nextEvent, nextRow, born, posts, resets>>,
           wire' \subseteq wire, worker'.phase \in {"idle", "user"},
           worker'.backlog = {}, worker'.batch = {},
           (slips' = slips /\ ~Out) \/ slips' = slips + 1
    PROVE  Inv'
  <1> USE DEF Inv
  <1>1. Hands'
    BY DEF Hands
  <1>2. Named'
    BY NamedKept DEF Knows
  <1>3. Past'
    BY DEF Past
  <1>4. RowIds'
    BY DEF RowIds
  <1>5. OneRow'
    BY DEF OneRow
  <1>6. Traces'
    BY DEF Traces
  <1>7. Budget'
    <2> SUFFICES ASSUME NEW b \in Births, NEW a \in Adapters PROVE BudgetOf(b, a)'
      BY DEF Budget
    <2>1. ~Owed(b, a)'
      BY DEF Owed
    <2>2. Live(b, a)' => Live(b, a) \/ Out
      BY DEF Live
    <2> QED BY <2>1, <2>2, BudgetKept DEF TypeOK
  <1>8. Sent'
    BY DEF Sent, SentWasPosted, Out
  <1>9. EventIds'
    BY DEF EventIds
  <1>10. IsFiniteSet(wire)'
    BY FS_Subset
  <1> QED BY <1>1, <1>2, <1>3, <1>4, <1>5, <1>6, <1>7, <1>8, <1>9, <1>10

\* Nothing moves but the tasks.
LEMMA NothingMoves ==
    ASSUME Inv, UNCHANGED <<events, rows, nextEvent, nextRow, worker, wire, born, slips, resets, posts>>, TypeOK'
    PROVE  Inv'
  <1> USE DEF Inv
  <1>1. Hands' /\ Past' /\ RowIds' /\ OneRow' /\ Traces' /\ EventIds' /\ IsFiniteSet(wire)'
    BY DEF Hands, Past, RowIds, OneRow, Traces, EventIds, Item
  <1>2. Named'
    BY NamedKept DEF Knows
  <1>3. Budget'
    <2> SUFFICES ASSUME NEW b \in Births, NEW a \in Adapters PROVE BudgetOf(b, a)'
      BY DEF Budget
    <2>1. (Live(b, a)' => Live(b, a)) /\ (Owed(b, a)' => Owed(b, a))
      BY DEF Live, Owed, Out, Item
    <2> QED BY <2>1, BudgetKept
  <1>4. Sent'
    BY DEF Sent, SentWasPosted, Out, Item
  <1> QED BY <1>1, <1>2, <1>3, <1>4

-----------------------------------------------------------------------------
(* The steps of a pass *)

LEMMA ReadBacklogStep ==
    ASSUME Inv, TypeOK', NEW u \in Users, ReadBacklog(u)
    PROVE  Inv'
  <1> USE DEF Inv
  <1>1. /\ worker'.phase = "enqueue" /\ worker'.batch = {} /\ worker.batch = {}
        /\ worker'.backlog = Unsynced(u) \X Adapters /\ worker.backlog = {} /\ worker.phase = "user"
        /\ UNCHANGED <<events, rows, nextEvent, nextRow, wire, born, slips, resets, posts>>
    BY DEF ReadBacklog, TypeOK, Hands
  <1>2. \A e \in Unsynced(u) : e \in events /\ ~e.synced
    BY DEF Unsynced, Oldest
  <1>3. Hands'
    BY <1>1, <1>2 DEF Hands
  <1>4. Named'
    BY <1>1, <1>2, NamedKept DEF Knows
  <1>5. Past' /\ RowIds' /\ OneRow' /\ Traces' /\ EventIds' /\ IsFiniteSet(wire)'
    BY <1>1 DEF Past, RowIds, OneRow, Traces, EventIds
  <1>6. Budget'
    <2> SUFFICES ASSUME NEW b \in Births, NEW a \in Adapters PROVE BudgetOf(b, a)'
      BY DEF Budget
    <2>1. ~Owed(b, a)'
      BY <1>1, <1>2 DEF Owed
    <2>2. Live(b, a)' => Live(b, a)
      BY <1>1 DEF Live, Out
    <2> QED BY <1>1, <2>1, <2>2, BudgetKept DEF TypeOK
  <1>7. Sent'
    BY <1>1 DEF Sent, SentWasPosted, Out
  <1> QED BY <1>3, <1>4, <1>5, <1>6, <1>7

LEMMA ReadPendingStep ==
    ASSUME Inv, TypeOK', ReadPending
    PROVE  Inv'
  <1> USE DEF Inv
  <1>1. /\ worker'.phase = "drain" /\ worker.batch = {} /\ worker'.backlog = {}
        /\ worker'.batch = Pending(worker.user) /\ worker.phase = "enqueue" /\ worker.backlog = {}
        /\ UNCHANGED <<events, rows, nextEvent, nextRow, wire, born, slips, resets, posts>>
    BY DEF ReadPending, TypeOK, Hands
  <1>2. \A r \in worker'.batch : r \in rows /\ r.status = "pending"
    BY <1>1 DEF Pending, Oldest
  <1>3. Hands'
    BY <1>1, <1>2 DEF Hands
  <1>4. Named'
    BY <1>1, NamedKept DEF Knows
  <1>5. Past'
    <2> QED BY <1>1, <1>2, BirthsKnown DEF Past
  <1>6. RowIds' /\ OneRow' /\ Traces' /\ EventIds' /\ IsFiniteSet(wire)'
    BY <1>1, <1>2 DEF RowIds, OneRow, Traces, EventIds
  <1>7. Budget'
    <2> SUFFICES ASSUME NEW b \in Births, NEW a \in Adapters PROVE BudgetOf(b, a)'
      BY DEF Budget
    <2>1. ~Owed(b, a)'
      BY <1>1 DEF Owed
    <2>2. Live(b, a)' => Live(b, a)
      BY <1>1, <1>2 DEF Live, Out
    <2> QED BY <1>1, <2>1, <2>2, BudgetKept DEF TypeOK
  <1>8. Sent'
    BY <1>1 DEF Sent, SentWasPosted, Out
  <1> QED BY <1>3, <1>4, <1>5, <1>6, <1>7, <1>8

\* An item is sent: what was live is posted.
LEMMA DeliveredStep ==
    ASSUME Inv, TypeOK', Delivered
    PROVE  Inv'
  <1> USE DEF Inv
  <1>1. /\ worker'.phase = "sent" /\ worker.phase = "drain" /\ worker'.backlog = {} /\ worker.backlog = {}
        /\ worker'.batch = worker.batch
        /\ UNCHANGED <<events, rows, nextEvent, nextRow, wire, born, slips, resets>>
    BY DEF Delivered, TypeOK, Hands
  <1>2. Item \in worker.batch /\ Item \in OutboxRow /\ Item' = Item
    BY <1>1, ItemIs DEF Delivered, Item
  <1>3. PICK b0 \in Births, a0 \in Adapters : b0 = Item.birth /\ a0 = Item.adapter
    BY <1>2 DEF OutboxRow
  <1>4. /\ posts'[b0][a0] = posts[b0][a0] + 1
        /\ \A b \in Births, a \in Adapters : b # b0 \/ a # a0 => posts'[b][a] = posts[b][a]
    BY <1>3 DEF Delivered, Posted, Item, TypeOK
  <1>5. Hands'
    BY <1>1, <1>2 DEF Hands
  <1>6. Named'
    BY <1>1, NamedKept DEF Knows
  <1>7. Past'
    BY <1>1, <1>2, <1>3, <1>4 DEF Past
  <1>8. RowIds' /\ OneRow' /\ EventIds' /\ IsFiniteSet(wire)'
    BY <1>1 DEF RowIds, OneRow, EventIds
  <1>9. Traces'
    <2> SUFFICES ASSUME NEW e \in events, NEW a \in Adapters,
                        \/ posts'[e.birth][a] > 0
                        \/ \E r \in worker.batch \cup wire : r.birth = e.birth /\ r.adapter = a
                 PROVE  \E s \in rows : s.birth = e.birth /\ s.adapter = a
      BY <1>1 DEF Traces
    <2>1. e.birth \in Births
      BY DEF TypeOK, Event
    <2>2. CASE e.birth = b0 /\ a = a0
      BY <1>2, <1>3, <2>2 DEF Traces
    <2>3. CASE ~(e.birth = b0 /\ a = a0)
      BY <1>4, <2>1, <2>3 DEF Traces
    <2> QED BY <2>2, <2>3
  <1>10. Budget'
    <2> SUFFICES ASSUME NEW b \in Births, NEW a \in Adapters PROVE BudgetOf(b, a)'
      BY DEF Budget
    <2>1. ~Owed(b, a)' /\ ~Owed(b, a)
      BY <1>1 DEF Owed
    <2>2. CASE b = b0 /\ a = a0
      <3>1. Live(b, a)
        BY <1>1, <1>2, <1>3, <2>2 DEF Live, Out, Hands
      <3>2. ~Live(b, a)'
        BY <1>1, <1>2, <1>3, <2>2 DEF Live, Out, OneRow
      <3>3. Wired(b, a)' = Wired(b, a)
        BY <1>1 DEF Wired
      <3>4. posts'[b][a] + Cardinality(Wired(b, a)') <= 1 + slips' + resets'
        <4>1. posts[b][a] + Cardinality(Wired(b, a)) + 1 + 0 <= 1 + slips + resets
          BY <2>1, <3>1 DEF Budget, BudgetOf, One
        <4> QED BY <1>1, <1>4, <2>2, <3>3, <4>1, WiredIsFinite DEF TypeOK
      <3> HIDE DEF Live, Owed, Wired
      <3>5. One(Live(b, a)') = 0 /\ One(Owed(b, a)') = 0
        BY <2>1, <3>2 DEF One
      <3>6. posts'[b][a] \in Nat /\ Cardinality(Wired(b, a)') \in Nat
        BY <3>3, WiredIsFinite DEF TypeOK
      <3> QED BY <1>1, <3>4, <3>5, <3>6 DEF BudgetOf
    <2>3. CASE ~(b = b0 /\ a = a0)
      <3>1. Live(b, a)' => Live(b, a)
        BY <1>1, <1>2 DEF Live, Out
      <3> QED BY <1>1, <1>4, <2>1, <2>3, <3>1, BudgetKept DEF TypeOK
    <2> QED BY <2>2, <2>3
  <1>11. Sent'
    <2>1. \A r \in rows : r.birth \in Births /\ r.adapter \in Adapters
      BY DEF TypeOK, OutboxRow
    <2>2. posts'[b0][a0] > 0 /\ \A b \in Births, a \in Adapters : posts[b][a] > 0 => posts'[b][a] > 0
      BY <1>4 DEF TypeOK
    <2> QED BY <1>1, <1>2, <1>3, <2>1, <2>2 DEF Sent, SentWasPosted, Out
  <1> QED BY <1>5, <1>6, <1>7, <1>8, <1>9, <1>10, <1>11

\* The rows keep who they are when they are marked.
LEMMA Marked ==
    ASSUME Inv, TypeOK', NEW status \in {"pending", "sent", "failed"}, MarkRow(Item.id, status),
           events' = events, nextEvent' = nextEvent, nextRow' = nextRow, born' = born, posts' = posts,
           worker.batch # {}, worker'.backlog = worker.backlog,
           worker'.batch \in {worker.batch, worker.batch \ {Item}},
           worker'.phase = "stamp" => worker'.batch = worker.batch /\ status = "sent",
           wire' \subseteq wire \cup {Item}
    PROVE  Named' /\ Past' /\ RowIds' /\ OneRow' /\ Traces' /\ EventIds'
  <1> USE DEF Inv
  <1> DEFINE id == Item.id
  <1>1. Item \in worker.batch /\ (worker'.phase = "stamp" => Item' = Item)
    BY ItemIs DEF Item
  <1>2. /\ \A r \in rows : \E s \in rows' : Alike(r, s)
        /\ \A s \in rows' : \E r \in rows :
              s = MarkAs(r, id, status) /\ Alike(r, s) /\ s.status = IF r.id = id THEN status ELSE r.status
    BY Marking
  <1>3. Named'
    <2>1. \A b \in Births, i \in Nat, u \in Users : Knows(b, i, u)' => Knows(b, i, u)
      BY <1>2 DEF Knows, Alike
    <2> QED BY <2>1, NamedKept
  <1>4. Past'
    BY <1>1 DEF Past
  <1>5. RowIds'
    <2>1. \A r \in rows' : r.id < nextRow'
      BY <1>2 DEF RowIds, Alike
    <2>2. \A r, s \in rows' : r.id = s.id => r = s
      BY <1>2 DEF RowIds, Alike
    <2>3. \A r, s \in worker'.batch : r.id = s.id => r = s
      BY DEF RowIds
    <2>4. \A r \in worker'.batch, s \in rows' :
             r.id = s.id => /\ r.birth = s.birth /\ r.adapter = s.adapter
                            /\ worker'.phase = "stamp" /\ r = Item => s.status = "sent"
      BY <1>2 DEF RowIds, Alike
    <2> QED BY <1>1, <2>1, <2>2, <2>3, <2>4 DEF RowIds
  <1>6. OneRow'
    BY <1>2 DEF OneRow, Alike
  <1>7. Traces'
    BY <1>1, <1>2 DEF Traces, Alike
  <1>8. EventIds'
    BY DEF EventIds
  <1> QED BY <1>3, <1>4, <1>5, <1>6, <1>7, <1>8

LEMMA MarkSentStep ==
    ASSUME Inv, TypeOK', MarkSent
    PROVE  Inv'
  <1> USE DEF Inv
  <1>1. /\ worker'.phase = "stamp" /\ worker.phase = "sent" /\ worker'.backlog = {} /\ worker.backlog = {}
        /\ worker'.batch = worker.batch /\ worker.batch # {} /\ MarkRow(Item.id, "sent")
        /\ UNCHANGED <<events, nextEvent, nextRow, wire, born, slips, resets, posts>>
    BY DEF MarkSent, TypeOK, Hands, Item
  <1>2. Item \in worker.batch /\ Item' = Item
    BY <1>1, ItemIs DEF Item
  <1>3. Named' /\ Past' /\ RowIds' /\ OneRow' /\ Traces' /\ EventIds'
    <2>1. /\ worker'.backlog = worker.backlog /\ wire' \subseteq wire \cup {Item}
          /\ "sent" \in {"pending", "sent", "failed"}
          /\ events' = events /\ nextEvent' = nextEvent /\ nextRow' = nextRow /\ born' = born
          /\ posts' = posts /\ worker'.batch \in {worker.batch, worker.batch \ {Item}}
      BY <1>1
    <2> HIDE DEF Inv
    <2> QED BY <1>1, <2>1, Marked
  <1>4. Hands' /\ IsFiniteSet(wire)'
    BY <1>1, <1>2 DEF Hands
  <1>5. \A s \in rows' : \E r \in rows : Alike(r, s) /\ s.status = IF r.id = Item.id THEN "sent" ELSE r.status
    BY <1>1, Marking
  <1>6. Budget'
    <2> SUFFICES ASSUME NEW b \in Births, NEW a \in Adapters PROVE BudgetOf(b, a)'
      BY DEF Budget
    <2>1. ~Owed(b, a)'
      BY <1>1 DEF Owed
    <2>2. Live(b, a)' => Live(b, a)
      BY <1>1, <1>2, <1>5 DEF Live, Out, Alike
    <2> QED BY <1>1, <2>1, <2>2, BudgetKept DEF TypeOK
  <1>7. Sent'
    <2>1. posts[Item.birth][Item.adapter] > 0
      BY <1>1 DEF Sent, Out
    <2>2. \A r \in rows : r.id = Item.id => r.birth = Item.birth /\ r.adapter = Item.adapter
      BY <1>2 DEF RowIds
    <2>3. SentWasPosted'
      BY <1>1, <1>5, <2>1, <2>2 DEF Sent, SentWasPosted, Alike
    <2> QED BY <1>1, <1>2, <2>1, <2>3 DEF Sent
  <1> QED BY <1>3, <1>4, <1>6, <1>7

LEMMA StampStep ==
    ASSUME Inv, TypeOK', Stamp
    PROVE  Inv'
  <1> USE DEF Inv
  <1>1. /\ worker'.phase = "drain" /\ worker.phase = "stamp" /\ worker'.backlog = {} /\ worker.backlog = {}
        /\ worker'.batch = worker.batch \ {Item} /\ worker.batch # {}
        /\ UNCHANGED <<rows, nextEvent, nextRow, wire, born, slips, resets, posts>>
    BY DEF Stamp, TypeOK, Hands, Item
  <1>2. Item \in worker.batch
    BY <1>1, ItemIs
  <1>3. /\ IsFiniteSet(events')
        /\ \A e \in events : \E d \in events' : SameEvent(d, e)
        /\ \A d \in events' : \E e \in events :
              SameEvent(d, e) /\ (events' # events => d = StampAs(e, Item.event))
                              /\ (events' = events => d = e)
    <2>1. CASE events' = events
      BY <2>1 DEF SameEvent, EventIds
    <2>2. CASE events' = {IF e.id = Item.event THEN [e EXCEPT !.synced = TRUE] ELSE e : e \in events}
      <3>1. /\ IsFiniteSet(events')
            /\ \A e \in events : \E d \in events' : SameEvent(d, e)
            /\ \A d \in events' : \E e \in events : SameEvent(d, e) /\ d = StampAs(e, Item.event)
        BY <2>2, Stamping DEF EventIds
      <3>2. CASE events' = events
        BY <3>2, <2>1
      <3> QED BY <3>1, <3>2
    <2> QED BY <2>1, <2>2 DEF Stamp, Item
  <1>4. Hands'
    BY <1>1 DEF Hands
  <1>5. Named'
    BY <1>1, <1>3, NamedKept DEF Knows, SameEvent
  <1>6. Past' /\ OneRow' /\ IsFiniteSet(wire)'
    BY <1>1 DEF Past, OneRow
  <1>7. RowIds'
    BY <1>1 DEF RowIds
  <1>8. Traces'
    BY <1>1, <1>3 DEF Traces, SameEvent
  <1>9. EventIds'
    BY <1>1, <1>3 DEF EventIds, SameEvent
  <1>10. Budget'
    <2> SUFFICES ASSUME NEW b \in Births, NEW a \in Adapters PROVE BudgetOf(b, a)'
      BY DEF Budget
    <2>1. ~Owed(b, a)'
      BY <1>1 DEF Owed
    <2>2. \A r \in rows \cup worker'.batch : r.status = "pending" => r.id # Item.id
      BY <1>1, <1>2 DEF RowIds
    <2>3. Live(b, a)' => Live(b, a)
      BY <1>1, <2>2 DEF Live, Out
    <2> QED BY <1>1, <2>1, <2>3, BudgetKept DEF TypeOK
  <1>11. Sent'
    BY <1>1 DEF Sent, SentWasPosted, Out
  <1> QED BY <1>4, <1>5, <1>6, <1>7, <1>8, <1>9, <1>10, <1>11

\* A send fails: the item is put back or given up, and what was live is less.
LEMMA FailureShape ==
    ASSUME Inv, TypeOK', Failure,
           events' = events, nextEvent' = nextEvent, nextRow' = nextRow, born' = born, posts' = posts,
           wire' = wire \/ wire' = wire \cup {Item}
    PROVE  /\ Hands' /\ Named' /\ Past' /\ RowIds' /\ OneRow' /\ Traces' /\ EventIds' /\ Sent'
           /\ IsFiniteSet(wire)'
           /\ Item \in worker.batch /\ worker.phase = "drain"
           /\ \A b \in Births, a \in Adapters : (Live(b, a)' => Live(b, a)) /\ ~Owed(b, a)'
  <1> USE DEF Inv
  <1>1. /\ worker'.phase = "drain" /\ worker.phase = "drain" /\ worker'.backlog = {} /\ worker.backlog = {}
        /\ worker'.batch = worker.batch \ {Item} /\ worker.batch # {}
    BY DEF Failure, TypeOK, Hands, Item
  <1>2. Item \in worker.batch
    BY <1>1, ItemIs
  <1>3. PICK status \in {"failed", "pending"} : MarkRow(Item.id, status)
    BY DEF Failure, Item
  <1>4. /\ status \in {"pending", "sent", "failed"} /\ worker'.backlog = worker.backlog
        /\ worker'.batch \in {worker.batch, worker.batch \ {Item}} /\ worker'.phase # "stamp"
        /\ wire' \subseteq wire \cup {Item}
    BY <1>1
  <1>5. Named' /\ Past' /\ RowIds' /\ OneRow' /\ Traces' /\ EventIds'
    <2> HIDE DEF Inv
    <2> QED BY <1>1, <1>3, <1>4, Marked
  <1>6. \A s \in rows' : \E r \in rows : Alike(r, s) /\ s.status = IF r.id = Item.id THEN status ELSE r.status
    BY <1>3, <1>4, Marking
  <1>7. Hands'
    BY <1>1 DEF Hands
  <1>8. IsFiniteSet(wire)'
    BY FS_AddElement
  <1>9. Sent'
    BY <1>1, <1>3, <1>6 DEF Sent, SentWasPosted, Alike, Out
  <1>10. ASSUME NEW b \in Births, NEW a \in Adapters
         PROVE  (Live(b, a)' => Live(b, a)) /\ ~Owed(b, a)'
    <2>1. \A s \in rows' : s.status = "pending" =>
             \E r \in rows \cup worker.batch :
                /\ r.id = s.id /\ r.birth = s.birth /\ r.adapter = s.adapter /\ r.status = "pending"
      <3> SUFFICES ASSUME NEW s \in rows', s.status = "pending"
                   PROVE  \E r \in rows \cup worker.batch :
                /\ r.id = s.id /\ r.birth = s.birth /\ r.adapter = s.adapter /\ r.status = "pending"
        OBVIOUS
      <3>1. PICK r \in rows : Alike(r, s) /\ s.status = IF r.id = Item.id THEN status ELSE r.status
        BY <1>6
      <3>2. CASE r.id # Item.id
        BY <3>1, <3>2 DEF Alike
      <3>3. CASE r.id = Item.id
        <4>1. Item.status = "pending" /\ Item.birth = r.birth /\ Item.adapter = r.adapter
          BY <1>2, <3>3 DEF Hands, RowIds
        <4> QED BY <1>2, <3>1, <3>3, <4>1 DEF Alike
      <3> QED BY <3>2, <3>3
    <2>2. Live(b, a)' => Live(b, a)
      BY <1>1, <2>1 DEF Live, Out, Alike
    <2> QED BY <1>1, <2>2 DEF Owed
  <1> QED BY <1>1, <1>2, <1>5, <1>7, <1>8, <1>9, <1>10

LEMMA FailsStep ==
    ASSUME Inv, TypeOK', Fails
    PROVE  Inv'
  <1>1. /\ Failure /\ events' = events /\ nextEvent' = nextEvent /\ nextRow' = nextRow /\ born' = born
        /\ posts' = posts /\ wire' = wire /\ slips' = slips /\ resets' = resets
    BY DEF Fails
  <1>2. Budget'
    <2> SUFFICES ASSUME NEW b \in Births, NEW a \in Adapters PROVE BudgetOf(b, a)'
      BY DEF Budget
    <2> QED BY <1>1, FailureShape, BudgetKept
  <1> QED BY <1>1, <1>2, FailureShape DEF Inv

LEMMA OneMore ==
    ASSUME NEW S, NEW x, IsFiniteSet(S)
    PROVE  Cardinality(S \cup {x}) \in Nat /\ Cardinality(S \cup {x}) <= Cardinality(S) + 1
  <1>1. Cardinality(S) \in Nat
    BY FS_CardinalityType
  <1>2. Cardinality(S \cup {x}) = IF x \in S THEN Cardinality(S) ELSE Cardinality(S) + 1
    BY FS_AddElement
  <1> QED BY <1>1, <1>2

\* A send that timed out may still arrive, and the item is tried again as well.
LEMMA TimesOutStep ==
    ASSUME Inv, TypeOK', TimesOut
    PROVE  Inv'
  <1>1. /\ Failure /\ events' = events /\ nextEvent' = nextEvent /\ nextRow' = nextRow /\ born' = born
        /\ posts' = posts /\ wire' = wire \cup {Item} /\ slips' = slips + 1 /\ resets' = resets
    BY DEF TimesOut, Item
  <1>2. Budget'
    <2> SUFFICES ASSUME NEW b \in Births, NEW a \in Adapters PROVE BudgetOf(b, a)'
      BY DEF Budget
    <2>1. Cardinality(Wired(b, a)') \in Nat /\ Cardinality(Wired(b, a)') <= Cardinality(Wired(b, a)) + 1
      <3>1. Wired(b, a)' = Wired(b, a) \/ Wired(b, a)' = Wired(b, a) \cup {Item}
        BY <1>1 DEF Wired
      <3>2. IsFiniteSet(Wired(b, a)) /\ Cardinality(Wired(b, a)) \in Nat
        BY WiredIsFinite
      <3>3. /\ Cardinality(Wired(b, a) \cup {Item}) \in Nat
            /\ Cardinality(Wired(b, a) \cup {Item}) <= Cardinality(Wired(b, a)) + 1
        BY <3>2, OneMore
      <3> QED BY <3>1, <3>2, <3>3
    <2>2. (Live(b, a)' => Live(b, a)) /\ ~Owed(b, a)'
      BY <1>1, FailureShape
    <2>3. One(Live(b, a)') <= One(Live(b, a)) /\ One(Owed(b, a)') = 0
          /\ One(Live(b, a)) \in Nat /\ One(Owed(b, a)) \in Nat /\ One(Live(b, a)') \in Nat
      BY <2>2 DEF One
    <2>4. BudgetOf(b, a) /\ posts[b][a] \in Nat /\ slips \in Nat /\ resets \in Nat /\ Cardinality(Wired(b, a)) \in Nat
      BY WiredIsFinite DEF Inv, Budget, TypeOK
    <2> HIDE DEF One, Live, Owed, Wired
    <2> QED BY <1>1, <2>1, <2>3, <2>4 DEF BudgetOf
  <1> QED BY <1>1, <1>2, FailureShape DEF Inv

\* A row is made for an event that has none, or for one that a reset has removed.
LEMMA EnqueueStep ==
    ASSUME Inv, TypeOK', NEW p \in worker.backlog, Enqueue(p[1], p[2])
    PROVE  Inv'
  <1> USE DEF Inv
  <1>1. /\ worker'.phase = "enqueue" /\ worker.phase = "enqueue" /\ worker'.batch = {} /\ worker.batch = {}
        /\ worker'.backlog = worker.backlog \ {p} /\ p = <<p[1], p[2]>> /\ p[1] \in Event /\ p[2] \in Adapters
        /\ UNCHANGED <<events, nextEvent, wire, born, slips, resets, posts>>
    BY DEF Enqueue, TypeOK, Hands
  <1>2. Hands'
    BY <1>1 DEF Hands
  <1>3. Past' /\ EventIds' /\ IsFiniteSet(wire)'
    BY <1>1 DEF Past, EventIds
  <1>4. CASE Exists(p[1].id, p[2])
    <2>1. UNCHANGED <<rows, nextRow>>
      BY <1>4 DEF Enqueue
    <2>2. Named'
      BY <1>1, <2>1, NamedKept DEF Knows
    <2>3. RowIds' /\ OneRow' /\ Traces' /\ Sent'
      BY <1>1, <2>1 DEF RowIds, OneRow, Traces, Sent, SentWasPosted, Out
    <2>4. Budget'
      <3> SUFFICES ASSUME NEW b \in Births, NEW a \in Adapters PROVE BudgetOf(b, a)'
        BY DEF Budget
      <3>1. (Live(b, a)' => Live(b, a)) /\ (Owed(b, a)' => Owed(b, a))
        BY <1>1, <2>1 DEF Live, Owed, Out
      <3> QED BY <1>1, <3>1, BudgetKept DEF TypeOK
    <2> QED BY <1>2, <1>3, <2>2, <2>3, <2>4
  <1>5. CASE ~Exists(p[1].id, p[2])
    <2> DEFINE new == [id |-> nextRow, user |-> p[1].user, event |-> p[1].id, birth |-> p[1].birth,
                       adapter |-> p[2], status |-> "pending", attempts |-> 0]
    <2>1. rows' = rows \cup {new} /\ nextRow' = nextRow + 1
      BY <1>5 DEF Enqueue
    <2>2. /\ p[1].birth \in Births /\ p[1].id \in Nat /\ p[1].user \in Users /\ nextRow \in Nat
          /\ \A r \in rows : r.id \in Nat /\ r.birth \in Births /\ r.event \in Nat /\ r.user \in Users
          /\ \A e \in events : e.id \in Nat /\ e.birth \in Births /\ e.user \in Users
      BY <1>1 DEF Event, TypeOK, OutboxRow
    <2>3. Knows(p[1].birth, p[1].id, p[1].user)
      BY DEF Knows
    <2>4. \A r \in rows : ~(r.birth = p[1].birth /\ r.adapter = p[2])
      <3> SUFFICES ASSUME NEW r \in rows, r.birth = p[1].birth, r.adapter = p[2] PROVE FALSE
        OBVIOUS
      <3>1. Knows(r.birth, r.event, r.user)
        BY DEF Knows
      <3>2. r.event = p[1].id
        BY <2>2, <2>3, <3>1 DEF Named
      <3> QED BY <1>5, <3>2 DEF Exists
    <2>5. Named'
      BY <1>1, <2>1, NamedKept DEF Knows
    <2>6. RowIds'
      BY <1>1, <2>1, <2>2 DEF RowIds
    <2>7. OneRow'
      BY <1>1, <2>1, <2>4 DEF OneRow
    <2>8. Traces'
      BY <1>1, <2>1 DEF Traces
    <2>9. Sent'
      BY <1>1, <2>1 DEF Sent, SentWasPosted, Out
    <2>10. Budget'
      <3> SUFFICES ASSUME NEW b \in Births, NEW a \in Adapters PROVE BudgetOf(b, a)'
        BY DEF Budget
      <3>1. CASE ~(b = p[1].birth /\ a = p[2])
        <4>1. (Live(b, a)' => Live(b, a)) /\ (Owed(b, a)' => Owed(b, a))
          BY <1>1, <2>1, <3>1 DEF Live, Owed, Out
        <4> QED BY <1>1, <4>1, BudgetKept DEF TypeOK
      <3>2. CASE b = p[1].birth /\ a = p[2]
        <4>1. ~Live(b, a) /\ Wired(b, a)' = Wired(b, a)
          BY <1>1, <2>4, <3>2 DEF Live, Wired
        <4>2. One(Live(b, a)') \in 0 .. 1 /\ One(Owed(b, a)') \in 0 .. 1
          BY DEF One
        <4>3. posts[b][a] \in Nat /\ slips \in Nat /\ resets \in Nat /\ Cardinality(Wired(b, a)) \in Nat
          BY WiredIsFinite DEF TypeOK
        <4>4. CASE \E e \in events : e.birth = b
          <5>1. ~Owed(b, a)'
            BY <1>1, <4>4 DEF Owed
          <5>2. posts[b][a] = 0 /\ Wired(b, a) = {}
            BY <2>4, <3>2, <4>3, <4>4 DEF Traces, Wired
          <5>3. Cardinality(Wired(b, a)) = 0 /\ One(Owed(b, a)') = 0
            BY <5>1, <5>2, FS_EmptySet DEF One
          <5> HIDE DEF Live, Owed, Wired, One
          <5> QED BY <1>1, <4>1, <4>2, <4>3, <5>2, <5>3 DEF BudgetOf
        <4>5. CASE \A e \in events : e.birth # b
          <5>1. Owed(b, a)
            BY <3>2, <4>5 DEF Owed
          <5>2. \A q \in worker.backlog : q[1].birth = b /\ q[2] = a => q = p
            <6> SUFFICES ASSUME NEW q \in worker.backlog, q[1].birth = b, q[2] = a PROVE q = p
              OBVIOUS
            <6>1. Knows(q[1].birth, q[1].id, q[1].user)
              BY DEF Knows
            <6>2. q = <<q[1], q[2]>> /\ q[1] \in Event /\ p[1] \in Event
              BY DEF TypeOK
            <6>3. q[1].id = p[1].id /\ q[1].user = p[1].user /\ q[1].birth = p[1].birth
              BY <2>2, <2>3, <3>2, <6>1, <6>2 DEF Named, Event
            <6>4. q[1].synced = FALSE /\ p[1].synced = FALSE
              BY <6>2 DEF Hands, Event
            <6>5. q[1] = p[1]
              BY <6>2, <6>3, <6>4 DEF Event
            <6> QED BY <1>1, <3>2, <6>2, <6>5
          <5>3. ~Owed(b, a)'
            BY <1>1, <5>2 DEF Owed
          <5>4. One(Owed(b, a)) = 1 /\ One(Live(b, a)) = 0 /\ One(Owed(b, a)') = 0
            BY <4>1, <5>1, <5>3 DEF One
          <5>5. BudgetOf(b, a)
            BY DEF Budget
          <5> HIDE DEF Live, Owed, Wired, One
          <5> QED BY <1>1, <4>1, <4>2, <4>3, <5>4, <5>5 DEF BudgetOf
        <4> QED BY <4>4, <4>5
      <3> QED BY <3>1, <3>2
    <2> QED BY <1>2, <1>3, <2>5, <2>6, <2>7, <2>8, <2>9, <2>10
  <1> QED BY <1>4, <1>5

-----------------------------------------------------------------------------
(* The event loop *)

LEMMA RecordStep ==
    ASSUME Inv, TypeOK', NEW u \in Users, Record(u)
    PROVE  Inv'
  <1> USE DEF Inv
  <1> DEFINE new == [id |-> nextEvent, user |-> u, birth |-> born + 1, synced |-> FALSE]
  <1>1. /\ events' = events \cup {new} /\ nextEvent' = nextEvent + 1 /\ born' = born + 1
        /\ UNCHANGED <<rows, nextRow, worker, wire, slips, resets, posts>>
    BY DEF Record
  <1>2. born \in Nat /\ born + 1 \in Births /\ nextEvent \in Nat
    BY SyncSizes DEF Record, TypeOK, Births
  <1>3. Hands' /\ OneRow' /\ IsFiniteSet(wire)'
    BY <1>1 DEF Hands, OneRow
  <1>4. RowIds'
    BY <1>1 DEF RowIds, Item
  <1>5. Past'
    <2>1. \A r \in worker.batch \cup wire : r.birth \in Nat
      BY DEF TypeOK, OutboxRow, Births
    <2> QED BY <1>1, <1>2, <2>1 DEF Past, Births
  <1>6. Named'
    <2>1. \A b, i, v : Knows(b, i, v)' => Knows(b, i, v) \/ (b = born + 1 /\ i = nextEvent /\ v = u)
      BY <1>1 DEF Knows
    <2>2. \A b \in Births, i \in Nat, v \in Users : Knows(b, i, v) => b <= born
      BY DEF Named
    <2> QED BY <1>1, <1>2, <2>1, <2>2 DEF Named, Births
  <1>7. Traces'
    <2> SUFFICES ASSUME NEW e \in events', NEW a \in Adapters,
                        \/ posts[e.birth][a] > 0
                        \/ \E r \in worker.batch \cup wire : r.birth = e.birth /\ r.adapter = a
                 PROVE  \E s \in rows : s.birth = e.birth /\ s.adapter = a
      BY <1>1 DEF Traces
    <2>1. CASE e \in events
      BY <2>1 DEF Traces
    <2>2. CASE e = new
      <3>1. e.birth = born + 1 /\ e.birth \in Births /\ ~(e.birth <= born)
        BY <1>2, <2>2
      <3> QED BY <3>1 DEF Past
    <2> QED BY <1>1, <2>1, <2>2
  <1>8. EventIds'
    <2>1. \A e \in events : e.birth <= born /\ e.birth \in Nat /\ e.id \in Nat /\ e.id < nextEvent
      <3>1. \A e \in events : e.birth <= born
        <4> HIDE DEF Inv
        <4> QED BY BirthsKnown
      <3> QED BY <3>1 DEF TypeOK, Event, Births, EventIds
    <2>2. IsFiniteSet(events')
      BY <1>1, FS_AddElement DEF EventIds
    <2>3. new.id = nextEvent /\ new.birth = born + 1
      OBVIOUS
    <2>4. \A e \in events' : e.id < nextEvent'
      BY <1>1, <1>2, <2>1, <2>3
    <2>5. \A d, e \in events : (d.id = e.id \/ d.birth = e.birth) => d = e
      BY DEF EventIds
    <2>6. \A e \in events : e.id # new.id /\ e.birth # new.birth
      BY <1>2, <2>1, <2>3
    <2> HIDE DEF new
    <2>7. \A d, e \in events' : (d.id = e.id \/ d.birth = e.birth) => d = e
      BY <1>1, <2>5, <2>6
    <2> QED BY <2>2, <2>4, <2>7 DEF EventIds
  <1>9. Budget'
    <2> SUFFICES ASSUME NEW b \in Births, NEW a \in Adapters PROVE BudgetOf(b, a)'
      BY DEF Budget
    <2>1. (Live(b, a)' => Live(b, a)) /\ (Owed(b, a)' => Owed(b, a))
      BY <1>1 DEF Live, Owed, Out, Item
    <2> QED BY <1>1, <2>1, BudgetKept DEF TypeOK
  <1>10. Sent'
    BY <1>1 DEF Sent, SentWasPosted, Out, Item
  <1> QED BY <1>3, <1>4, <1>5, <1>6, <1>7, <1>8, <1>9, <1>10

\* Events and rows of a user go together.
LEMMA ResetStep ==
    ASSUME Inv, TypeOK', NEW u \in Users, ResetEverything(u)
    PROVE  Inv'
  <1> USE DEF Inv
  <1>1. /\ events' = {e \in events : e.user # u} /\ rows' = {r \in rows : r.user # u}
        /\ resets' = resets + 1
        /\ UNCHANGED <<worker, wire, born, slips, posts>>
        /\ nextEvent' = IF events' = {} THEN 1 ELSE nextEvent
        /\ nextRow' = IF rows' = {} THEN 1 ELSE nextRow
    BY DEF ResetEverything
  <1>2. Hands' /\ Past' /\ IsFiniteSet(wire)'
    BY <1>1 DEF Hands, Past
  <1>3. Named'
    <2>1. \A b, i, v : Knows(b, i, v)' => Knows(b, i, v)
      BY <1>1 DEF Knows
    <2> QED BY <1>1, <2>1, NamedKept
  <1>4. RowIds'
    BY <1>1 DEF RowIds, Item
  <1>5. OneRow'
    BY <1>1 DEF OneRow
  <1>6. Traces'
    <2> SUFFICES ASSUME NEW e \in events', NEW a \in Adapters,
                        \/ posts[e.birth][a] > 0
                        \/ \E r \in worker.batch \cup wire : r.birth = e.birth /\ r.adapter = a
                 PROVE  \E s \in rows' : s.birth = e.birth /\ s.adapter = a
      BY <1>1 DEF Traces
    <2>1. e \in events /\ e.user # u
      BY <1>1
    <2>2. PICK s \in rows : s.birth = e.birth /\ s.adapter = a
      BY <2>1 DEF Traces
    <2>3. Knows(e.birth, e.id, e.user) /\ Knows(s.birth, s.event, s.user)
      BY <2>1 DEF Knows
    <2>4. e.birth \in Births /\ e.id \in Nat /\ e.user \in Users /\ s.event \in Nat /\ s.user \in Users
      BY <2>1 DEF TypeOK, Event, OutboxRow
    <2>5. s.user = e.user
      BY <2>2, <2>3, <2>4 DEF Named
    <2> QED BY <1>1, <2>1, <2>2, <2>5
  <1>7. EventIds'
    BY <1>1, FS_Subset DEF EventIds
  <1>8. Budget'
    <2> SUFFICES ASSUME NEW b \in Births, NEW a \in Adapters PROVE BudgetOf(b, a)'
      BY DEF Budget
    <2>1. Live(b, a)' => Live(b, a)
      BY <1>1 DEF Live, Out, Item
    <2>2. posts'[b][a] = posts[b][a] /\ wire' \subseteq wire /\ slips' = slips /\ resets' = resets + 1
      BY <1>1
    <2>3. Owed(b, a)' => Owed(b, a) \/ resets' = resets + 1
      BY <1>1
    <2>4. \/ slips' = slips /\ resets' \in {resets, resets + 1}
          \/ slips' = slips + 1 /\ resets' = resets
      BY <2>2
    <2> HIDE DEF Inv
    <2> QED BY <2>1, <2>2, <2>3, <2>4, BudgetKept
  <1>9. Sent'
    BY <1>1 DEF Sent, SentWasPosted, Out, Item
  <1> QED BY <1>2, <1>3, <1>4, <1>5, <1>6, <1>7, <1>8, <1>9

\* A send that timed out was paid for then.
LEMMA ArrivesLateStep ==
    ASSUME Inv, TypeOK', NEW r \in wire, ArrivesLate(r)
    PROVE  Inv'
  <1> USE DEF Inv
  <1>1. /\ wire' = wire \ {r}
        /\ UNCHANGED <<events, rows, nextEvent, nextRow, worker, born, slips, resets>>
    BY DEF ArrivesLate
  <1>2. PICK b0 \in Births, a0 \in Adapters : b0 = r.birth /\ a0 = r.adapter
    BY DEF TypeOK, OutboxRow
  <1>3. /\ posts'[b0][a0] = posts[b0][a0] + 1
        /\ \A b \in Births, a \in Adapters : b # b0 \/ a # a0 => posts'[b][a] = posts[b][a]
    BY <1>2 DEF ArrivesLate, Posted, TypeOK
  <1>4. Hands' /\ OneRow' /\ EventIds'
    BY <1>1 DEF Hands, OneRow, EventIds
  <1>5. RowIds'
    BY <1>1 DEF RowIds, Item
  <1>6. Named'
    BY <1>1, NamedKept DEF Knows
  <1>7. Past'
    BY <1>1, <1>2, <1>3 DEF Past
  <1>8. Traces'
    <2> SUFFICES ASSUME NEW e \in events, NEW a \in Adapters,
                        \/ posts'[e.birth][a] > 0
                        \/ \E s \in worker.batch \cup wire' : s.birth = e.birth /\ s.adapter = a
                 PROVE  \E s \in rows : s.birth = e.birth /\ s.adapter = a
      BY <1>1 DEF Traces
    <2>1. e.birth \in Births
      BY DEF TypeOK, Event
    <2>2. CASE e.birth = b0 /\ a = a0
      BY <1>2, <2>2 DEF Traces
    <2>3. CASE ~(e.birth = b0 /\ a = a0)
      BY <1>1, <1>3, <2>1, <2>3 DEF Traces
    <2> QED BY <2>2, <2>3
  <1>9. IsFiniteSet(wire)'
    BY <1>1, FS_RemoveElement
  <1>10. Budget'
    <2> SUFFICES ASSUME NEW b \in Births, NEW a \in Adapters PROVE BudgetOf(b, a)'
      BY DEF Budget
    <2>1. (Live(b, a)' <=> Live(b, a)) /\ (Owed(b, a)' <=> Owed(b, a))
      BY <1>1 DEF Live, Owed, Out, Item
    <2>2. CASE b = b0 /\ a = a0
      <3>1. Wired(b, a)' = Wired(b, a) \ {r} /\ r \in Wired(b, a)
        BY <1>1, <1>2, <2>2 DEF Wired
      <3>2. Cardinality(Wired(b, a)') = Cardinality(Wired(b, a)) - 1 /\ Cardinality(Wired(b, a)) \in Nat
        BY <3>1, WiredIsFinite, FS_RemoveElement
      <3>3. One(Live(b, a)') = One(Live(b, a)) /\ One(Owed(b, a)') = One(Owed(b, a))
            /\ One(Live(b, a)) \in Nat /\ One(Owed(b, a)) \in Nat
        BY <2>1 DEF One
      <3>4. BudgetOf(b, a) /\ posts[b][a] \in Nat /\ slips \in Nat /\ resets \in Nat
        BY DEF Budget, TypeOK
      <3> HIDE DEF One, Live, Owed, Wired
      <3> QED BY <1>1, <1>3, <2>2, <3>2, <3>3, <3>4 DEF BudgetOf
    <2>3. CASE ~(b = b0 /\ a = a0)
      BY <1>1, <1>3, <2>1, <2>3, BudgetKept DEF TypeOK
    <2> QED BY <2>2, <2>3
  <1>11. Sent'
    <2>1. \A s \in rows : s.birth \in Births /\ s.adapter \in Adapters
      BY DEF TypeOK, OutboxRow
    <2>2. Out => Item \in OutboxRow
      BY ItemIs DEF Out, TypeOK
    <2>3. \A b \in Births, a \in Adapters : posts[b][a] > 0 => posts'[b][a] > 0
      BY <1>3 DEF TypeOK
    <2> QED BY <1>1, <2>1, <2>2, <2>3 DEF Sent, SentWasPosted, Out, Item, OutboxRow
  <1> QED BY <1>4, <1>5, <1>6, <1>7, <1>8, <1>9, <1>10, <1>11

-----------------------------------------------------------------------------
(* The invariant *)

LEMMA InvInit == Init => Inv
  <1> SUFFICES ASSUME Init PROVE Inv
    OBVIOUS
  <1> USE DEF Init, Resting
  <1>1. TypeOK
    BY TypeInit
  <1>2. Hands /\ Past /\ RowIds /\ OneRow /\ Traces /\ EventIds /\ IsFiniteSet(wire)
    BY FS_EmptySet DEF Hands, Past, RowIds, OneRow, Traces, EventIds
  <1>3. Named
    BY DEF Named, Knows
  <1>4. Budget
    <2> SUFFICES ASSUME NEW b \in Births, NEW a \in Adapters PROVE BudgetOf(b, a)
      BY DEF Budget
    <2>1. ~Live(b, a) /\ ~Owed(b, a) /\ Wired(b, a) = {} /\ posts[b][a] = 0
      BY DEF Live, Owed, Wired
    <2>2. One(Live(b, a)) = 0 /\ One(Owed(b, a)) = 0 /\ Cardinality(Wired(b, a)) = 0
      BY <2>1, FS_EmptySet DEF One
    <2> HIDE DEF Live, Owed, Wired
    <2> QED BY <2>1, <2>2 DEF BudgetOf
  <1>5. Sent
    BY DEF Sent, SentWasPosted, Out
  <1> QED BY <1>1, <1>2, <1>3, <1>4, <1>5 DEF Inv

LEMMA InvStep == Inv /\ [Next]_vars => Inv'
  <1> SUFFICES ASSUME Inv, [Next]_vars PROVE Inv'
    OBVIOUS
  <1>0. TypeOK /\ TypeOK'
    BY TypeStep DEF Inv
  <1>1. CASE StartPass
    <2>1. /\ worker'.phase = "user" /\ worker'.backlog = {} /\ worker'.batch = {} /\ ~Out
      BY <1>0, <1>1 DEF StartPass, Inv, TypeOK, Hands, Out
    <2> QED BY <1>0, <1>1, <2>1, LettingGo DEF StartPass
  <1>2. CASE UserDone
    <2>1. /\ worker'.phase = "user" /\ worker'.backlog = {} /\ worker'.batch = {} /\ ~Out
      BY <1>0, <1>2 DEF UserDone, Inv, TypeOK, Hands, Out
    <2> QED BY <1>0, <1>2, <2>1, LettingGo DEF UserDone
  <1>3. CASE PassDone
    <2>1. /\ worker'.phase = "idle" /\ worker'.backlog = {} /\ worker'.batch = {} /\ ~Out
      BY <1>0, <1>3 DEF PassDone, Resting, Out
    <2> QED BY <1>0, <1>3, <2>1, LettingGo DEF PassDone
  <1>4. CASE UserFails
    <2>1. /\ worker'.phase = "user" /\ worker'.backlog = {} /\ worker'.batch = {}
      BY <1>0, <1>4 DEF UserFails, TypeOK
    <2> QED BY <1>0, <1>4, <2>1, LettingGo DEF UserFails
  <1>5. CASE Crash
    <2>1. /\ worker'.phase = "idle" /\ worker'.backlog = {} /\ worker'.batch = {}
      BY <1>5 DEF Crash, Resting
    <2> QED BY <1>0, <1>5, <2>1, LettingGo DEF Crash
  <1>6. ASSUME NEW u \in Users, ToggleTask(u) PROVE Inv'
    BY <1>0, <1>6, NothingMoves DEF ToggleTask
  <1>7. CASE UNCHANGED vars
    BY <1>0, <1>7, NothingMoves DEF vars
  <1> QED BY <1>0, <1>1, <1>2, <1>3, <1>4, <1>5, <1>6, <1>7, ReadBacklogStep, ReadPendingStep, EnqueueStep,
             DeliveredStep, MarkSentStep, StampStep, FailsStep, TimesOutStep, RecordStep, ResetStep,
             ArrivesLateStep DEF Next, Pass

LEMMA AlwaysInv == Spec => []Inv
  BY InvInit, InvStep, PTL DEF Spec

-----------------------------------------------------------------------------
(* While nothing is reset *)

Unbroken == resets = 0 /\ Rooted /\ Window /\ StampedAfterPost

\* The rows stay, but for their status, and nothing new is read.
LEMMA RowsStay ==
    ASSUME Inv, Inv', Unbroken, events' = events, resets' = resets,
           \A r \in rows : \E s \in rows' : Alike(r, s),
           \A s \in rows' : \E r \in rows : Alike(r, s),
           worker'.batch \subseteq worker.batch,
           worker'.backlog = {}, worker'.phase # "enqueue",
           \A b \in Births, a \in Adapters : posts[b][a] > 0 => posts'[b][a] > 0
    PROVE  Unbroken'
  <1> USE DEF Unbroken
  <1>1. \A u \in Users : Unsynced(u)' = Unsynced(u)
    BY DEF Unsynced
  <1>2. \A e \in events : e \in Event /\ e.user \in Users /\ e.birth \in Births
    BY DEF Inv, TypeOK, Event
  <1>3. \A e, a : (Begun(e)' <=> Begun(e)) /\ (Row(e, a)' <=> Row(e, a)) /\ (Full(e) => Full(e)')
    BY DEF Begun, Row, Full, Alike
  <1>4. Rooted'
    BY DEF Rooted, Alike
  <1>5. Window'
    BY <1>1, <1>2, <1>3 DEF Window
  <1>6. StampedAfterPost'
    BY <1>2 DEF StampedAfterPost
  <1> QED BY <1>4, <1>5, <1>6

\* An event in the window that is begun gets all its rows in the same pass.
LEMMA ReadBacklogWhole ==
    ASSUME Inv, Inv', Unbroken, NEW u \in Users, ReadBacklog(u)
    PROVE  Unbroken'
  <1> USE DEF Unbroken
  <1>1. /\ worker'.phase = "enqueue" /\ worker'.batch = {} /\ worker'.user = u
        /\ worker'.backlog = Unsynced(u) \X Adapters
        /\ UNCHANGED <<events, rows, posts, resets>>
    BY DEF ReadBacklog, Inv, TypeOK, Hands
  <1>2. \A v : Unsynced(v)' = Unsynced(v)
    BY <1>1 DEF Unsynced
  <1>3. \A e \in Unsynced(u) : e \in events /\ ~e.synced /\ e.user = u
    BY DEF Unsynced, Oldest
  <1>4. \A e, a : (Begun(e)' <=> Begun(e)) /\ (Row(e, a)' <=> Row(e, a)) /\ (Full(e) => Full(e)')
    BY <1>1 DEF Begun, Row, Full
  <1>5. Rooted'
    BY <1>1, <1>2, <1>3 DEF Rooted
  <1>6. Window'
    <2>1. \A e \in events : Begun(e)' /\ ~e.synced => e \in Unsynced(e.user)'
      BY <1>2, <1>4 DEF Window
    <2>2. \A e \in events : e.synced => Full(e)'
      BY <1>4 DEF Window
    <2>3. \A e \in events, a \in Adapters :
             /\ e.user = u /\ ~e.synced
             /\ Begun(e)' \/ \E p \in worker'.backlog : p[1] = e
             => <<e, a>> \in worker'.backlog
      BY <1>1, <1>3, <1>4 DEF Window
    <2> QED BY <1>1, <2>1, <2>2, <2>3 DEF Window
  <1>7. StampedAfterPost'
    BY <1>1 DEF StampedAfterPost
  <1> QED BY <1>1, <1>5, <1>6, <1>7

LEMMA EnqueueWhole ==
    ASSUME Inv, Inv', Unbroken, NEW p \in worker.backlog, Enqueue(p[1], p[2])
    PROVE  Unbroken'
  <1> USE DEF Unbroken
  <1>1. /\ worker'.phase = "enqueue" /\ worker.phase = "enqueue" /\ worker'.batch = {}
        /\ worker'.user = worker.user
        /\ worker'.backlog = worker.backlog \ {p} /\ p = <<p[1], p[2]>> /\ p[1] \in Event /\ p[2] \in Adapters
        /\ UNCHANGED <<events, posts, resets>>
    BY DEF Enqueue, Inv, TypeOK, Hands
  <1>2. \A v : Unsynced(v)' = Unsynced(v)
    BY <1>1 DEF Unsynced
  <1>3. p[1] \in Unsynced(p[1].user) /\ p[1] \in events /\ p[1].user = worker.user
    BY DEF Rooted, Unsynced, Oldest
  <1>4. /\ rows \subseteq rows'
        /\ \A r \in rows' : r \in rows \/ (/\ r.event = p[1].id /\ r.adapter = p[2] /\ r.birth = p[1].birth
                                           /\ r.user = p[1].user)
        /\ \E r \in rows' : r.event = p[1].id /\ r.adapter = p[2]
    <2>1. CASE Exists(p[1].id, p[2])
      BY <2>1 DEF Enqueue, Exists
    <2>2. CASE ~Exists(p[1].id, p[2])
      <3> DEFINE new == [id |-> nextRow, user |-> p[1].user, event |-> p[1].id, birth |-> p[1].birth,
                         adapter |-> p[2], status |-> "pending", attempts |-> 0]
      <3>1. rows' = rows \cup {new}
        BY <2>2 DEF Enqueue
      <3>2. new.event = p[1].id /\ new.adapter = p[2] /\ new.birth = p[1].birth /\ new.user = p[1].user
        OBVIOUS
      <3> HIDE DEF new
      <3> QED BY <3>1, <3>2
    <2> QED BY <2>1, <2>2
  <1>5. \A e, a : (Row(e, a) => Row(e, a)') /\ (Full(e) => Full(e)')
    BY <1>4 DEF Row, Full
  <1>6. \A e \in events : Begun(e)' => Begun(e) \/ e = p[1]
    BY <1>3, <1>4 DEF Begun, Inv, EventIds
  <1>7. Rooted'
    BY <1>1, <1>2, <1>3, <1>4 DEF Rooted
  <1>8. Window'
    <2>1. \A e \in events : Begun(e)' /\ ~e.synced => e \in Unsynced(e.user)'
      BY <1>2, <1>3, <1>6 DEF Window
    <2>2. \A e \in events : e.synced => Full(e)'
      BY <1>5 DEF Window
    <2>3. ASSUME NEW e \in events, NEW a \in Adapters, e.user = worker.user, ~e.synced,
                 Begun(e)' \/ \E q \in worker'.backlog : q[1] = e
          PROVE  Row(e, a)' \/ <<e, a>> \in worker'.backlog
      <3>1. Begun(e) \/ \E q \in worker.backlog : q[1] = e
        BY <1>1, <1>6, <2>3
      <3>2. Row(e, a) \/ <<e, a>> \in worker.backlog
        BY <1>1, <2>3, <3>1 DEF Window
      <3>3. CASE <<e, a>> = p
        BY <1>4, <3>3 DEF Row
      <3>4. CASE <<e, a>> # p
        BY <1>1, <1>5, <3>2, <3>4
      <3> QED BY <3>3, <3>4
    <2> QED BY <1>1, <2>1, <2>2, <2>3 DEF Window
  <1>9. StampedAfterPost'
    BY <1>1 DEF StampedAfterPost
  <1> QED BY <1>1, <1>7, <1>8, <1>9

LEMMA ReadPendingWhole ==
    ASSUME Inv, Inv', Unbroken, ReadPending
    PROVE  Unbroken'
  <1> USE DEF Unbroken
  <1>1. /\ worker'.phase = "drain" /\ worker'.backlog = {} /\ worker.phase = "enqueue" /\ worker.backlog = {}
        /\ worker'.batch = Pending(worker.user)
        /\ UNCHANGED <<events, rows, posts, resets>>
    BY DEF ReadPending, Inv, TypeOK, Hands
  <1>2. \A r \in worker'.batch : r \in rows /\ r.user = worker.user
    BY <1>1 DEF Pending, Oldest
  <1>3. \A v : Unsynced(v)' = Unsynced(v)
    BY <1>1 DEF Unsynced
  <1>4. \A e, a : (Begun(e)' <=> Begun(e)) /\ (Row(e, a)' <=> Row(e, a)) /\ (Full(e) <=> Full(e)')
    BY <1>1 DEF Begun, Row, Full
  <1>5. Rooted'
    BY <1>1, <1>2 DEF Rooted
  <1>6. ASSUME NEW r \in worker'.batch, NEW e \in events, e.id = r.event
        PROVE  Full(e)
    <2>1. PICK d \in events : d.id = r.event /\ d.user = r.user
      BY <1>2 DEF Rooted
    <2>2. d = e /\ e.user = worker.user /\ Begun(e)
      BY <1>2, <1>6, <2>1 DEF Inv, EventIds, Begun
    <2>3. CASE e.synced
      BY <2>3 DEF Window
    <2>4. CASE ~e.synced
      BY <1>1, <2>2, <2>4 DEF Window, Full
    <2> QED BY <2>3, <2>4
  <1>7. Window'
    BY <1>1, <1>3, <1>4, <1>6 DEF Window
  <1>8. StampedAfterPost'
    BY <1>1 DEF StampedAfterPost
  <1> QED BY <1>1, <1>5, <1>7, <1>8

\* The window moves on only.
LEMMA StampWhole ==
    ASSUME Inv, Inv', Unbroken, Stamp, Remaining(Item.event) = {}
    PROVE  Unbroken'
  <1> USE DEF Unbroken
  <1>1. /\ worker'.phase = "drain" /\ worker'.backlog = {} /\ worker.batch # {}
        /\ worker'.batch = worker.batch \ {Item}
        /\ UNCHANGED <<rows, posts, resets>>
        /\ events' = {IF e.id = Item.event THEN [e EXCEPT !.synced = TRUE] ELSE e : e \in events}
    BY DEF Stamp, Inv, TypeOK, Hands, Item
  <1>2. Item \in worker.batch
    BY <1>1, ItemIs DEF Inv
  <1>3. /\ \A e \in events : \E d \in events' : SameEvent(d, e)
        /\ \A d \in events' : \E e \in events :
              SameEvent(d, e) /\ (e.id # Item.event => d = e) /\ (e.id = Item.event => d.synced)
    BY <1>1, Stamping DEF Inv
  <1>4. \A d, e : SameEvent(d, e) => (Begun(d)' <=> Begun(e)) /\ (Full(e) => Full(d)')
    BY <1>1 DEF Begun, Full, Row, SameEvent
  <1>5. Rooted'
    <2>1. ASSUME NEW r \in rows \cup worker.batch
          PROVE  \E d \in events' : d.birth = r.birth /\ d.id = r.event /\ d.user = r.user
      <3>1. PICK e \in events : e.birth = r.birth /\ e.id = r.event /\ e.user = r.user
        BY DEF Rooted
      <3>2. PICK d \in events' : SameEvent(d, e)
        BY <1>3
      <3> QED BY <3>1, <3>2 DEF SameEvent
    <2> QED BY <1>1, <2>1 DEF Rooted
  <1>6. Window'
    <2>1. ASSUME NEW d \in events', Begun(d)', ~d.synced PROVE d \in Unsynced(d.user)'
      <3>1. d \in events /\ Begun(d)
        BY <1>3, <1>4, <2>1
      <3>2. d \in Unsynced(d.user)
        BY <2>1, <3>1 DEF Window
      <3> DEFINE S == {e \in events : e.user = d.user /\ ~e.synced}
                 T == {y \in S : y.id < d.id}
      <3>3. S' \subseteq S
        BY <1>3
      <3>4. IsFiniteSet(T) /\ T' \subseteq T
        BY <3>3, FS_Subset DEF Inv, EventIds
      <3>5. Cardinality(T') <= Cardinality(T) /\ Cardinality(T) \in Nat /\ Cardinality(T') \in Nat
        BY <3>4, FS_Subset, FS_CardinalityType
      <3>6. Cardinality(T) < Limit /\ Limit \in Nat
        BY <3>2, SyncSizes DEF Unsynced, Oldest
      <3>7. d \in S' /\ Cardinality(T') < Limit
        <4> HIDE DEF T
        <4> QED BY <2>1, <3>5, <3>6
      <3> QED BY <3>7 DEF Unsynced, Oldest
    <2>2. ASSUME NEW d \in events', d.synced PROVE Full(d)'
      <3>1. PICK e \in events : SameEvent(d, e) /\ (e.id # Item.event => d = e)
        BY <1>3
      <3>2. Full(e)
        BY <1>2, <2>2, <3>1 DEF Window
      <3> QED BY <1>4, <3>1, <3>2
    <2>3. ASSUME NEW r \in worker'.batch, NEW d \in events', d.id = r.event PROVE Full(d)'
      <3>1. PICK e \in events : SameEvent(d, e)
        BY <1>3
      <3>2. Full(e)
        BY <1>1, <2>3, <3>1 DEF Window, SameEvent
      <3> QED BY <1>4, <3>1, <3>2
    <2> QED BY <1>1, <2>1, <2>2, <2>3 DEF Window
  <1>7. StampedAfterPost'
    <2> SUFFICES ASSUME NEW d \in events', NEW a \in Adapters, d.synced PROVE posts[d.birth][a] > 0
      BY <1>1 DEF StampedAfterPost
    <2>1. PICK e \in events : SameEvent(d, e) /\ (e.id # Item.event => d = e)
      BY <1>3
    <2>2. CASE e.id # Item.event
      BY <2>1, <2>2 DEF StampedAfterPost
    <2>3. CASE e.id = Item.event
      <3>1. PICK r \in rows : r.event = e.id /\ r.adapter = a
        BY <1>2, <2>3 DEF Window, Full, Row
      <3>2. r.status = "sent"
        BY <2>3, <3>1 DEF Remaining
      <3>3. posts[r.birth][a] > 0
        BY <3>1, <3>2 DEF Inv, Sent, SentWasPosted
      <3>4. r.birth = e.birth
        BY <3>1 DEF Rooted, Inv, EventIds
      <3> QED BY <2>1, <3>3, <3>4 DEF SameEvent
    <2> QED BY <2>2, <2>3
  <1> QED BY <1>1, <1>5, <1>6, <1>7

\* A new event is the last in its window, and nothing was done about it.
LEMMA RecordWhole ==
    ASSUME Inv, Inv', Unbroken, NEW u \in Users, Record(u)
    PROVE  Unbroken'
  <1> USE DEF Unbroken
  <1> DEFINE new == [id |-> nextEvent, user |-> u, birth |-> born + 1, synced |-> FALSE]
  <1>1. /\ events' = events \cup {new}
        /\ UNCHANGED <<rows, worker, posts, resets>>
        /\ new.id = nextEvent /\ new.synced = FALSE
    BY DEF Record
  <1> HIDE DEF new
  <1>2. \A e \in events : e.id < nextEvent /\ e.id \in Nat
    BY DEF Inv, TypeOK, EventIds, Event
  <1>3. nextEvent \in Nat /\ new \notin events
    BY <1>1, <1>2 DEF Inv, TypeOK
  <1>4. \A r \in rows \cup worker.batch : r.event # nextEvent
    BY <1>2, <1>3 DEF Rooted
  <1>5. ASSUME NEW e \in events, e \in Unsynced(e.user) PROVE e \in Unsynced(e.user)'
    <2> DEFINE S == {x \in events : x.user = e.user /\ ~x.synced}
    <2>1. {y \in S : y.id < e.id}' = {y \in S : y.id < e.id}
      BY <1>1, <1>2, <1>3
    <2>2. e \in S /\ e \in S' /\ Cardinality({y \in S : y.id < e.id}) < Limit
      BY <1>1, <1>5 DEF Unsynced, Oldest
    <2>3. Cardinality({y \in S : y.id < e.id}') < Limit
      BY <2>1, <2>2
    <2> QED BY <2>2, <2>3 DEF Unsynced, Oldest
  <1>6. \A e, a : (Begun(e)' <=> Begun(e)) /\ (Row(e, a)' <=> Row(e, a)) /\ (Full(e) <=> Full(e)')
    BY <1>1 DEF Begun, Row, Full
  <1>7. ~Begun(new)
    BY <1>1, <1>4 DEF Begun
  <1>8. \A p \in worker.backlog : p[1] \in events /\ p[1] \in Unsynced(p[1].user) /\ p[1].user = worker.user
    BY DEF Rooted, Unsynced, Oldest
  <1>9. Rooted'
    BY <1>1, <1>5, <1>8 DEF Rooted
  <1>10. Window'
    <2>1. \A e \in events' : Begun(e)' /\ ~e.synced => e \in Unsynced(e.user)'
      BY <1>1, <1>5, <1>6, <1>7 DEF Window
    <2>2. \A e \in events' : e.synced => Full(e)'
      BY <1>1, <1>6 DEF Window
    <2>3. worker.phase = "enqueue" =>
            \A e \in events', a \in Adapters :
              /\ e.user = worker.user /\ ~e.synced
              /\ Begun(e)' \/ \E p \in worker.backlog : p[1] = e
              => Row(e, a)' \/ <<e, a>> \in worker.backlog
      BY <1>1, <1>3, <1>6, <1>7, <1>8 DEF Window
    <2>4. \A r \in worker.batch, e \in events' : e.id = r.event => Full(e)'
      BY <1>1, <1>4, <1>6 DEF Window
    <2> QED BY <1>1, <2>1, <2>2, <2>3, <2>4 DEF Window
  <1>11. StampedAfterPost'
    BY <1>1 DEF StampedAfterPost
  <1> QED BY <1>1, <1>9, <1>10, <1>11

LEMMA WorkerStays ==
    ASSUME Inv, Inv', Unbroken, UNCHANGED <<events, rows, worker, resets>>,
           \A b \in Births, a \in Adapters : posts[b][a] > 0 => posts'[b][a] > 0
    PROVE  Unbroken'
  <1> USE DEF Unbroken
  <1>1. \A v : Unsynced(v)' = Unsynced(v)
    BY DEF Unsynced
  <1>2. \A e, a : (Begun(e)' <=> Begun(e)) /\ (Row(e, a)' <=> Row(e, a)) /\ (Full(e) <=> Full(e)')
    BY DEF Begun, Row, Full
  <1>3. \A e \in events : e.birth \in Births
    BY DEF Inv, TypeOK, Event
  <1>4. Rooted'
    BY <1>1 DEF Rooted
  <1>5. Window'
    BY <1>1, <1>2 DEF Window
  <1>6. StampedAfterPost'
    BY <1>3 DEF StampedAfterPost
  <1> QED BY <1>4, <1>5, <1>6

\* what a send adds
LEMMA PostsGrow ==
    ASSUME TypeOK, NEW r \in OutboxRow, Posted(r)
    PROVE  \A b \in Births, a \in Adapters : posts[b][a] > 0 => posts'[b][a] > 0
  BY DEF Posted, TypeOK, OutboxRow

LEMMA AlikeSelf == \A r : Alike(r, r)
  BY DEF Alike

LEMMA WholeStep == Inv /\ Inv' /\ Whole /\ [Next]_vars => Whole'
  <1> SUFFICES ASSUME Inv, Inv', Whole, [Next]_vars, resets' = 0 PROVE Unbroken'
    BY DEF Whole, Unbroken
  <1>0. TypeOK /\ resets \in Nat
    BY DEF Inv, TypeOK
  <1>1. ASSUME NEW u \in Users, ResetEverything(u) PROVE FALSE
    BY <1>0, <1>1 DEF ResetEverything
  <1>2. resets = 0 /\ resets' = resets
    BY <1>0, <1>1 DEF Next, Pass, StartPass, ReadBacklog, Enqueue, ReadPending, Delivered, MarkSent, Stamp,
       Fails, TimesOut, UserDone, PassDone, Record, ToggleTask, ArrivesLate, UserFails, Crash, vars
  <1>3. Unbroken
    BY <1>2 DEF Whole, Unbroken
  <1>4. CASE StartPass \/ UserDone \/ PassDone \/ UserFails \/ Crash
    <2>1. /\ UNCHANGED <<events, rows, posts>>
          /\ worker'.batch \subseteq worker.batch /\ worker'.backlog = {} /\ worker'.phase # "enqueue"
      <3>1. CASE StartPass \/ UserDone
        BY <1>0, <3>1 DEF StartPass, UserDone, Inv, TypeOK, Hands
      <3>2. CASE PassDone \/ Crash
        BY <3>2 DEF PassDone, Crash, Resting
      <3>3. CASE UserFails
        BY <1>0, <3>3 DEF UserFails, TypeOK
      <3> QED BY <1>4, <3>1, <3>2, <3>3
    <2> QED BY <1>2, <1>3, <2>1, AlikeSelf, RowsStay
  <1>5. CASE Delivered
    <2>1. /\ UNCHANGED <<events, rows>>
          /\ worker'.batch \subseteq worker.batch /\ worker'.backlog = {} /\ worker'.phase # "enqueue"
      BY <1>0, <1>5 DEF Delivered, Inv, TypeOK, Hands
    <2>2. \A b \in Births, a \in Adapters : posts[b][a] > 0 => posts'[b][a] > 0
      BY <1>0, <1>5, ItemIs, PostsGrow DEF Delivered, Item
    <2> QED BY <1>2, <1>3, <2>1, <2>2, AlikeSelf, RowsStay
  <1>6. ASSUME NEW status \in {"pending", "sent", "failed"}, MarkRow(Item.id, status),
               events' = events, posts' = posts,
               worker'.batch \subseteq worker.batch, worker'.backlog = {}, worker'.phase # "enqueue"
        PROVE  Unbroken'
    <2>1. /\ \A r \in rows : \E s \in rows' : Alike(r, s)
          /\ \A s \in rows' : \E r \in rows : Alike(r, s)
      BY <1>0, <1>6, Marking
    <2> QED BY <1>2, <1>3, <1>6, <2>1, RowsStay
  <1>7. CASE MarkSent
    <2>1. /\ MarkRow(Item.id, "sent") /\ events' = events /\ posts' = posts
          /\ worker'.batch \subseteq worker.batch /\ worker'.backlog = {} /\ worker'.phase # "enqueue"
      BY <1>0, <1>7 DEF MarkSent, Inv, TypeOK, Hands, Item
    <2> QED BY <1>6, <2>1
  <1>8. CASE Fails \/ TimesOut
    <2>1. PICK status \in {"pending", "sent", "failed"} : MarkRow(Item.id, status)
      BY <1>8 DEF Fails, TimesOut, Failure, Item
    <2>2. /\ events' = events /\ posts' = posts
          /\ worker'.batch \subseteq worker.batch /\ worker'.backlog = {} /\ worker'.phase # "enqueue"
      BY <1>0, <1>8 DEF Fails, TimesOut, Failure, Inv, TypeOK, Hands
    <2> QED BY <1>6, <2>1, <2>2
  <1>9. CASE Stamp
    <2>1. CASE Remaining(Item.event) = {}
      BY <1>3, <1>9, <2>1, StampWhole
    <2>2. CASE Remaining(Item.event) # {}
      <3>1. /\ events' = events /\ rows' = rows /\ posts' = posts
            /\ worker'.batch \subseteq worker.batch /\ worker'.backlog = {} /\ worker'.phase # "enqueue"
        BY <1>0, <1>9, <2>2 DEF Stamp, Inv, TypeOK, Hands, Item
      <3> QED BY <1>2, <1>3, <3>1, AlikeSelf, RowsStay
    <2> QED BY <2>1, <2>2
  <1>10. ASSUME NEW r \in wire, ArrivesLate(r) PROVE Unbroken'
    <2>1. \A b \in Births, a \in Adapters : posts[b][a] > 0 => posts'[b][a] > 0
      BY <1>0, <1>10, PostsGrow DEF ArrivesLate, TypeOK
    <2> QED BY <1>3, <1>10, <2>1, WorkerStays DEF ArrivesLate
  <1>11. ASSUME NEW u \in Users, ToggleTask(u) PROVE Unbroken'
    BY <1>3, <1>11, WorkerStays DEF ToggleTask
  <1>12. CASE UNCHANGED vars
    BY <1>3, <1>12, WorkerStays DEF vars
  <1> QED BY <1>1, <1>3, <1>4, <1>5, <1>7, <1>8, <1>9, <1>10, <1>11, <1>12, ReadBacklogWhole, EnqueueWhole,
             ReadPendingWhole, RecordWhole DEF Next, Pass

LEMMA WholeInit == Init => Whole
  BY DEF Init, Resting, Whole, Rooted, Window, StampedAfterPost, Begun, Unsynced, Oldest

-----------------------------------------------------------------------------
(* The promise *)

Stamped(b) == \E e \in events : e.birth = b /\ e.synced
StateOf(b) == CASE b > born -> "future" [] Stamped(b) -> "synced" [] OTHER -> "open"
Reached(b) == {a \in Adapters : posts[b][a] > 0}

PromiseStep == [Promise!Next]_(Promise!vars)

\* The state of each event follows from what is known of it.
LEMMA StatesAre ==
    ASSUME Inv, NEW b \in Births
    PROVE  /\ b > born => StateOf(b) = "future"
           /\ Stamped(b) => StateOf(b) = "synced"
           /\ b <= born /\ ~Stamped(b) => StateOf(b) = "open"
  <1>1. Stamped(b) => b <= born
    BY BirthsKnown DEF Stamped
  <1>2. b \in Nat /\ born \in Nat
    BY SyncSizes DEF Inv, TypeOK, Births
  <1> QED BY <1>1, <1>2 DEF StateOf

\* A step that stamps nothing and posts nothing is none of the promise's.
LEMMA Stutters ==
    ASSUME \A b \in Births : StateOf(b)' = StateOf(b) /\ Reached(b)' = Reached(b)
    PROVE  PromiseStep
  BY DEF PromiseStep, Promise!vars, StateOf, Stamped, Reached

LEMMA PostStep ==
    ASSUME Inv, NEW r \in OutboxRow, r.birth <= born, Posted(r), UNCHANGED <<events, born>>
    PROVE  PromiseStep
  <1>1. PICK b0 \in Births, a0 \in Adapters : b0 = r.birth /\ a0 = r.adapter
    BY DEF OutboxRow
  <1>2. /\ posts'[b0][a0] = posts[b0][a0] + 1
        /\ \A b \in Births, a \in Adapters : b # b0 \/ a # a0 => posts'[b][a] = posts[b][a]
        /\ \A b \in Births, a \in Adapters : posts[b][a] \in Nat
    BY <1>1 DEF Posted, Inv, TypeOK
  <1>3. \A b \in Births : StateOf(b)' = StateOf(b)
    BY DEF StateOf, Stamped
  <1>4. \A b \in Births : Reached(b)' = IF b = b0 THEN Reached(b) \cup {a0} ELSE Reached(b)
    BY <1>1, <1>2 DEF Reached
  <1>5. CASE a0 \in Reached(b0)
    BY <1>3, <1>4, <1>5, Stutters
  <1>6. CASE a0 \notin Reached(b0)
    <2>1. StateOf(b0) # "future"
      BY <1>1, StatesAre DEF Inv, TypeOK, StateOf, Births
    <2>2. Promise!Post(b0, a0)
      BY <1>3, <1>4, <1>6, <2>1 DEF Promise!Post, StateOf, Stamped, Reached
    <2> QED BY <2>2 DEF PromiseStep, Promise!Next
  <1> QED BY <1>5, <1>6

LEMMA StampKept ==
    ASSUME Inv, Inv', Unbroken, Unbroken', Stamp
    PROVE  PromiseStep
  <1>1. UNCHANGED <<born, posts>> /\ Item \in worker.batch
    BY ItemIs DEF Stamp, Inv, TypeOK
  <1>2. \A b \in Births : Reached(b)' = Reached(b)
    BY <1>1 DEF Reached
  <1>3. CASE events' = events
    BY <1>1, <1>2, <1>3, Stutters DEF StateOf, Stamped
  <1>4. CASE events' = {IF e.id = Item.event THEN [e EXCEPT !.synced = TRUE] ELSE e : e \in events}
    <2>1. PICK e0 \in events : e0.birth = Item.birth /\ e0.id = Item.event
      BY <1>1 DEF Unbroken, Rooted
    <2>2. /\ \A e \in events : \E d \in events' : SameEvent(d, e)
          /\ \A d \in events' : \E e \in events :
                SameEvent(d, e) /\ (e.id # Item.event => d = e) /\ (e.id = Item.event => d.synced)
      BY <1>4, Stamping DEF Inv
    <2>3. PICK b0 \in Births : b0 = e0.birth
      BY DEF Inv, TypeOK, Event
    <2>4. \A e \in events : e.birth = b0 <=> e.id = Item.event
      BY <2>1, <2>3 DEF Inv, EventIds
    <2>5. Stamped(b0)'
      <3>1. PICK d \in events' : SameEvent(d, e0)
        BY <2>2
      <3>2. PICK e \in events : SameEvent(d, e) /\ (e.id = Item.event => d.synced)
        BY <2>2
      <3> QED BY <2>1, <2>3, <3>1, <3>2 DEF Stamped, SameEvent
    <2>6. \A b \in Births : b # b0 => (Stamped(b)' <=> Stamped(b))
      <3> SUFFICES ASSUME NEW b \in Births, b # b0 PROVE Stamped(b)' <=> Stamped(b)
        OBVIOUS
      <3>1. \A e \in events : e.birth = b => e \in events'
        <4> SUFFICES ASSUME NEW e \in events, e.birth = b PROVE e \in events'
          OBVIOUS
        <4>1. e.id # Item.event
          BY <2>4
        <4> QED BY <1>4, <4>1
      <3>2. \A d \in events' : d.birth = b => d \in events
        BY <2>2, <2>4 DEF SameEvent
      <3> QED BY <3>1, <3>2 DEF Stamped
    <2>7. \A b \in Births : b # b0 => StateOf(b)' = StateOf(b)
      BY <1>1, <2>6 DEF StateOf
    <2>8. StateOf(b0)' = "synced"
      <3>1. ~(b0 > born) /\ born' = born
        <4>1. b0 <= born
          BY <2>3, BirthsKnown
        <4>2. b0 \in Nat /\ born \in Nat
          BY SyncSizes DEF Inv, TypeOK, Births
        <4> QED BY <1>1, <4>1, <4>2
      <3> QED BY <2>5, <3>1 DEF StateOf
    <2>9. CASE Stamped(b0)
      <3>1. StateOf(b0) = "synced"
        BY <2>9, StatesAre
      <3> QED BY <1>2, <2>7, <2>8, <3>1, Stutters
    <2>10. CASE ~Stamped(b0)
      <3>1. StateOf(b0) = "open"
        BY <2>3, <2>10, StatesAre, BirthsKnown
      <3>2. Reached(b0) = Adapters
        BY <1>1, <2>5 DEF Unbroken, StampedAfterPost, Stamped, Reached
      <3>3. Promise!Stamp(b0)
        BY <1>2, <2>7, <2>8, <3>1, <3>2 DEF Promise!Stamp, StateOf, Stamped, Reached
      <3> QED BY <3>3 DEF PromiseStep, Promise!Next
    <2> QED BY <2>9, <2>10
  <1> QED BY <1>3, <1>4 DEF Stamp, Item

LEMMA RecordKept ==
    ASSUME Inv, Inv', NEW u \in Users, Record(u)
    PROVE  PromiseStep
  <1>1. PICK b0 \in Births : b0 = born + 1 /\ born \in Nat
    BY SyncSizes DEF Record, Inv, TypeOK, Births
  <1> DEFINE new == [id |-> nextEvent, user |-> u, birth |-> born + 1, synced |-> FALSE]
  <1>2. /\ events' = events \cup {new} /\ new.birth = b0 /\ ~new.synced /\ born' = b0 /\ posts' = posts
    BY <1>1 DEF Record
  <1> HIDE DEF new
  <1>3. \A b \in Births : Stamped(b)' <=> Stamped(b)
    BY <1>2 DEF Stamped
  <1>4. ~Stamped(b0)
    BY <1>1, BirthsKnown DEF Stamped
  <1>5. StateOf(b0) = "future" /\ StateOf(b0)' = "open"
    <2>1. b0 > born /\ b0 \in Nat
      BY <1>1
    <2>2. ~(b0 > born') /\ ~Stamped(b0)'
      BY <1>2, <1>3, <1>4, <2>1
    <2> QED BY <1>4, <2>1, <2>2 DEF StateOf
  <1>6. \A b \in Births : b # b0 => StateOf(b)' = StateOf(b)
    <2> SUFFICES ASSUME NEW b \in Births, b # b0 PROVE StateOf(b)' = StateOf(b)
      OBVIOUS
    <2>1. b \in Nat /\ (b > b0 <=> b > born)
      BY <1>1 DEF Births
    <2> QED BY <1>2, <1>3, <2>1 DEF StateOf
  <1>7. \A b \in Births : Reached(b)' = Reached(b)
    BY <1>2 DEF Reached
  <1>8. Promise!Record(b0)
    BY <1>5, <1>6, <1>7 DEF Promise!Record, StateOf, Stamped, Reached
  <1> QED BY <1>8 DEF PromiseStep, Promise!Next

LEMMA PromiseHolds ==
    ASSUME Inv, Inv', Whole, Whole', resets = 0, resets' = 0, [Next]_vars
    PROVE  PromiseStep
  <1>0. TypeOK /\ Unbroken /\ Unbroken'
    BY DEF Inv, Whole, Unbroken
  <1>1. CASE UNCHANGED <<events, born, posts>>
    BY <1>1, Stutters DEF StateOf, Stamped, Reached
  <1>2. CASE Delivered
    <2>1. Item \in OutboxRow /\ Item.birth <= born /\ Posted(Item) /\ UNCHANGED <<events, born>>
      BY <1>0, <1>2, ItemIs DEF Delivered, Item, Inv, Past
    <2> QED BY <2>1, PostStep
  <1>3. ASSUME NEW r \in wire, ArrivesLate(r) PROVE PromiseStep
    <2>1. r \in OutboxRow /\ r.birth <= born /\ Posted(r) /\ UNCHANGED <<events, born>>
      BY <1>3 DEF ArrivesLate, Inv, TypeOK, Past
    <2> QED BY <2>1, PostStep
  <1>4. ASSUME NEW u \in Users, ResetEverything(u) PROVE FALSE
    BY <1>4 DEF ResetEverything
  <1> QED BY <1>0, <1>1, <1>2, <1>3, <1>4, StampKept, RecordKept
          DEF Next, Pass, StartPass, ReadBacklog, Enqueue, ReadPending, MarkSent,
              Fails, TimesOut, UserDone, PassDone, ToggleTask, UserFails, Crash, vars

LEMMA PromiseInit == Init => Promise!Init
  BY SyncSizes DEF Init, Promise!Init, Births

-----------------------------------------------------------------------------
(* Theorems *)

\* The two tables, the pass and the counters hold what they are declared to hold, for
\* any users, adapters and bounds (database.py, sync_outbox; sync.py, drain).
THEOREM TypeCorrect == Spec => []TypeOK
  <1>1. Inv => TypeOK
    BY DEF Inv
  <1> QED BY <1>1, AlwaysInv, PTL

\* sync.py enqueue: "re-enqueuing never double-posts".  An event reaches an adapter once,
\* and once more for each time-out, database error, crash or reset, whatever is retried.
THEOREM NeverPostedTwice == Spec => []NoDoublePost
  <1>1. Inv => NoDoublePost
    <2> SUFFICES ASSUME Inv, NEW b \in Births, NEW a \in Adapters
                 PROVE  posts[b][a] <= 1 + slips + resets
      BY DEF NoDoublePost
    <2>1. BudgetOf(b, a) /\ posts[b][a] \in Nat /\ slips \in Nat /\ resets \in Nat
      BY DEF Inv, Budget, TypeOK
    <2>2. Cardinality(Wired(b, a)) \in Nat /\ One(Live(b, a)) \in Nat /\ One(Owed(b, a)) \in Nat
      BY WiredIsFinite DEF One
    <2> HIDE DEF One, Live, Owed, Wired
    <2> QED BY <2>1, <2>2 DEF BudgetOf
  <1> QED BY <1>1, AlwaysInv, PTL

\* A row is marked sent only if its message reached its adapter, although the mark is
\* written by id after the send (sync.py drain; database.py mark_sync_sent).
THEOREM MarksAreTrue == Spec => []SentWasPosted
  <1>1. Inv => SentWasPosted
    BY DEF Inv, Sent
  <1> QED BY <1>1, AlwaysInv, PTL

\* _maybe_mark_event_synced: as long as nothing is reset, an event is stamped only when
\* it has reached every adapter, for any failures, time-outs and crashes.
THEOREM StampsAreTrue == Spec => []StampedAfterPost
  <1>1. Whole => StampedAfterPost
    BY DEF Whole, StampedAfterPost
  <1> QED BY <1>1, InvInit, InvStep, WholeInit, WholeStep, PTL DEF Spec

\* As long as nothing is reset, the engine takes steps of SyncPromise only: an event is
\* recorded, then reaches its adapters, and is stamped only after all of them, whatever
\* fails, times out or crashes (sync.py).  That it does so in the end is for TLC.
THEOREM PromiseKeptSafely == Spec /\ [](resets = 0) => Promise!Spec
  <1>1. Init => Promise!Init
    BY PromiseInit
  <1>2. Inv /\ Inv' /\ Whole /\ Whole' /\ resets = 0 /\ (resets = 0)' /\ [Next]_vars
          => [Promise!Next]_(Promise!vars)
    BY PromiseHolds DEF PromiseStep
  <1> QED BY <1>1, <1>2, InvInit, InvStep, WholeInit, WholeStep, PTL DEF Spec, Promise!Spec

=============================================================================
