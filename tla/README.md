# A verification of the BAKA planner bot

TLA+ models of the parts of this Telegram planner whose behaviour depends on the
order in which things happen: the reminder jobs and the warnings of deadlines, the
outbox that mirrors the timeline to Telegram, the conversation in which everything
is confirmed, the AI worker and what its references reach, the control plane, the
knowledge tables with their links, the forum topics, habits and their streaks, and
the lock that keeps a second process out. TLC checks them on small instances;
TLAPS proves some of the results for every value of the constants. Paths below are
relative to `src/`.

## 1. The system

One Python process (`main.py`, started again by `run.sh` when it dies), one
SQLite file, one Telegram bot.

| Part | Code | State | Operations |
|---|---|---|---|
| Reminder scheduler | `scheduler.py`, the jobs at `main.py` 5380-6040 | the reminder columns of `tasks`: due_date, due_time, recurrence, paused, snooze_until, last_reminded, reminder_count, followup_sent | three polling jobs, the nightly carry-forward, the user's actions |
| Tasks table | `database.py` | `tasks`, `habit_log`, `sqlite_sequence` | add, update, delete, done, resets |
| Timeline, outbox, sync worker | `core/workspace/timeline.py`, `sync.py`, `app.py`, `adapters/` | `timeline`, `sync_outbox` | record, enqueue the backlog, drain, stamp |
| Conversation | `conversation_state.py`, `handle_message` and `handle_callback` in `main.py`, `core/offline`, `core/actions` | one state and one context per user, in memory | a proposal, a reply, a command, a button, a photo |
| Deadline warnings | `main.py` 5600-5640 and 5738-5822, `database.py` 1890-1930 | buffer_sent, followup_count | two half-hourly jobs, the owner's acts |
| Habits and streaks | `database.py` 948-1085 | `habit_log`, streak columns | log, skip, delete, resets |
| Workspace entities | `core/workspace/engine.py`, `repository.py`, `lifecycle.py`, `core/retrieval/service.py` | workspaces, milestones, notes, tags, media, links | create, transition, link, label, soft delete, search |
| Groups and topics | `core/workspace/groups_app.py`, `adapters/projection.py` | the active workspace, topic ids | open, add, back-fill, repair |
| AI worker and tools | `core/ai/worker.py`, `tools.py`, `tool_adapters.py`, `entity_manager.py` | the steps of one run, a pending destructive call | decide, run a tool, stop for a confirmation, pass the message on |
| References | `core/ai/reference_resolver.py`, `reference_context.py`, `typed_referents.py` | what was last listed, mentioned or touched, twice | resolve "the last one", "it", a name |
| Control plane | `core/control/` | one pending confirmation per user, gathering, search filters | pages, buttons, answers, yes and no |
| Delivery and retries | `notification_service.py`, `core/ai/reliability.py` | counters | send or call with retries |
| Instance lock | `instance_lock.py` | a lock file | acquire, release |
| Intents, routing, dates | `core/intent`, `core/routing`, `date_parser.py` | none | classify, parse |
| Language model, UI, storage facade, diagnostics | `baka_brain.py`, `core/ai/*`, `ui.py`, `core/storage`, `debug_system.py`, `core/selftest`, `core/regression` | none that matters here | |

How they interact. Telegram updates are handled one at a time (the application is
built without `concurrent_updates`), so a handler runs to its end before the next
update begins. The jobs of the JobQueue are tasks of the same event loop, each
with `max_instances` 1: a job and a handler, or two jobs, interleave at their
awaits, that is at every send. `run_blocking` and `asyncio.to_thread` run model
calls, the worker, the tools and the sync pass in threads, which share only the
database. Every function of `database.py` opens its own connection and commits
on its own, so whatever spans two calls can be cut in two by another actor or by
the end of the process. Conversation state, `_PENDING` of the control plane and
the admin flags are dictionaries in memory; updates that arrive while the bot is
down are dropped (`drop_pending_updates=True`, `main.py:6041`).

What is hard about each part, and what makes it correct:

* **Reminders** poll. Each job reads a list, then awaits a send for each entry,
  and marks the row after (or before) the send. Meanwhile the user edits the very
  rows, the process may die, and a send may fail. Correct means: none missed,
  none repeated, silence after "done", follow-ups within their cap.
* **The outbox** is drained by a worker thread. Its tables are changed in separate
  transactions, a send can fail, time out or arrive late, and the owner can reset
  everything meanwhile. Correct means: every event on every adapter, once, and
  stamped only then.
* **The conversation** has one slot for what the next "yes" will do and any number
  of ways to fill it, while the messages that asked stay on the screen. Correct
  means: a yes does what the user was asked, at most once, and old buttons and ids
  reach what they were made for.
* **Warnings** are sent by two jobs that read rows once and mark each after its send.
  Correct means: each stage once, nothing but what is under way after the task is
  muted, and the last warning reaches an undisturbed owner.
* **Habits** keep a log in one table and streaks derived from it in another, and only
  the first knows days. Correct means: a streak counts the days of this habit, also
  after deletions and resets that start the ids again.
* **Knowledge**: links and labels of soft-deleted rows, in transactions of one call
  each. Correct means: no link to a deleted entity or into another workspace, a
  timeline that can be replayed, a search that finds what it is asked for.
* **Topics**: one topic for each entity, made for it and found again, whatever
  Telegram or the process does in between.
* **The worker** may do half of a message before it fails; the entity manager and
  the old paths then get the whole of it. Correct means: nothing destructive without
  a yes, no row twice, and a reference reaches the row it means.
* **The control plane** leaves keyboards on the screen while rows change. Correct
  means: a yes runs what its message shows and changes the row it names, and fresh
  buttons find their rows.
* **The instance lock**: one process.

`PROJECT.json` lists every component and every hazard with its line.

## 2. The modules

### Reminders (with MCReminders, RemindersProofs)

The reminder columns of the tasks table, and four jobs: `check_reminders`
(Case 1 to 5 of `scheduler.get_due_tasks`), `check_followups`,
`check_did_you_finish` and the carry-forward. `now` counts minutes; a day has
`DayLen` of them, and a date or time is a number.

| State | Code |
|---|---|
| `db[t]` | the row of `t`: live, done, paused, date, time, recur, rday, snooze, lastRem, count, asked |
| `job[j]` | where the coroutine is: the list it read, the entry whose send is awaited, the batch |
| `lastRun` | the last minute the process was up; only the bounds read it |
| `acts, late, sent, chased, armed, owed` | history: acts of the user, pings after an act, pings, follow-ups, reminders and snoozes owed. `sent` counts the pings of what was read today |

A run of a job is the steps the event loop can interleave: `Fetch...` is everything
up to the first await (the query, and for expired snoozes the update it makes);
`Arrive` is the arrival of a message and `Returned` what follows the await, so
that a crash can come between the send and the mark; `SendFails` is the exception
path; `StartBatch`, `BatchArrives` and `BatchFails` are the batched follow-up,
which counts before it sends. User actions are single steps: `AddTask`, `MarkDone`, `DeleteTask`,
`SnoozeTask`, `PostponeTask`, `PauseTask`, `ResumeTask`, `StopReminders`,
`EditTask`. `Crash` loses the coroutines and keeps the rows; `Tick` moves the clock
and lets the process be away for at most `MaxAway`.

### SyncOutbox (with SyncPromise, SyncOutboxProofs, MCSyncOutbox)

`SyncPromise` says what the engine promises of an event: recorded, posted to every
adapter, stamped only after that, and all of it in the end. `SyncOutbox` is the
engine: the two tables, one pass of the worker (`StartPass`, then for each user
`ReadBacklog`, `Enqueue`, `ReadPending`, a delivery, `MarkSent`, `Stamp`,
`UserDone`), failures (`Fails`), time-outs whose send arrives later
(`TimesOut`, `ArrivesLate`), a database error (`UserFails`), the
end of the process (`Crash`) and a reset in the middle (`ResetEverything`, after
which ids start again; `birth` tells rows of the same id apart and is no column).
A time-out and an error are `slips`, a plain failure is a `fail`.

### Conversation (with MCConversation, ConversationProofs)

One user. `chat` is `_states` and `_context`: the mode (idle, confirming,
gathering, editing), the pending action with its data, the row being edited and
what has been gathered. `tasks` and `nextId` are the table and its sequence.
`shown` is what the last message asks a yes for; `ran` and `dropped` count what
became of each prompt; `last` is the last thing done, with the rows it was meant
for and the rows it reached. A handler is one step, since updates are handled
one at a time.

`EditIntent` is the edit in words, which writes at once and asks for nothing.

`Reply` is the confirming branch with its four parts, and a reply is one of ten
representatives of what its substring tests can find. "no thanks" is a yes as
well as a no, "change it to 5pm" a yes as well as a time: both contain "ha".
The `Ask...` actions are the intents that ask for a confirmation, `Gather...`
and `Edit...` the other two states, and `Template`, `Breakdown`, `Plan`, `Photo`,
`ResetTasks`, `ResetAll`, `DeleteCommand`, `DoneButton`, `EditButton`,
`VisionSave`, `AddTask` and `Cancel` the commands and buttons, possible in every
state and, the buttons, with any id ever shown. `Tell` is a reply that arrives or
one Telegram refuses, after the state was set. What the language model makes of a
message is any intent. The flags of the offline engine and of the worker choose
between paths of the same shape; the model has both.

### Topics (with MCTopics, TopicsProofs)

Workspaces, their entities (rows of `milestones`) and the forum topics of the
linked groups. A handler is a list of steps: `handler.todo` is what it still has
to do, and `Crash` forgets it, `Raise` ends it or, inside a `try`, goes on.

| State | Code |
|---|---|
| `workspaces`, `entities`, `nextWs`, `nextEnt` | the two tables and their sequences |
| `group`, `bound` | `tg_workspace_bindings`, `tg_entity_topics` with the lock |
| `active` | `tg_active_context`: the open workspace and entity |
| `forum` | Telegram's topics: chat, the entity each was made for, whether it is still there |
| `born`, `slips`, `hands`, `resets` | history: births of entities, faults, deletions by hand, resets |

The handlers are the commands and tools: `NewWorkspace` (seeded or not, opened or
not), `AddEntity` (`/add` and `create_entity`: row, topic, active), `NLCreate` (row,
active, topic if possible), `AddMilestone` (the orchestrator: row only), `AdoptKind`,
`UpdateEntity`, `LogProgress`, `EnsureTopic`, `BackfillTopics`, `RepairTopics`,
`DeleteTopic`, `DeleteEntity`, `HideMilestone`, `SetLocked`, `LinkGroup`, `Shelve`,
the three that open and close, and `ResetEverything`. The steps are `Activate`,
`CreateTopic` and then `BindTopic`, `DeleteForumTopic` and then `Unbind`, and so on;
`Refused` is an exception of the live client, `TimesOut` one after which the call
had its effect all the same. An id names different entities before and after a
reset, so a topic remembers the birth of the entity it was made for.

### Warnings (with Delivery, MCWarnings, WarningsProofs)

`Delivery` is `TelegramSender`: one `post` per sender, trying, sent or failed, with
its attempt; `TryAgain` is a time-out or network error, after which the message may
have come, and flood control, after which it has not; `Refused` is any other
exception. `Warnings` sends through it. Its clock counts the half hours of the two
jobs. `run[j].rows` are the rows a run has read and not yet handled, `task[t]` the
row as it is now, `marks` both `buffer_sent` and the one warning that
`followup_count` stands for. `Start` reads, `Take` chooses the stage, `Sends`,
`TimesOut`, `Waits` and `IsRefused` are what comes of an attempt, `MarkSent` what
follows it, `GiveUp` the exception path. `Close`, `Reopen`, `Flag` and `Move` are the
owner's acts, `Asked` the mark of the did-you-finish job. `got, spare, late, told,
calm, moved` are history.

### Habits (with MCHabits; proofs in ControlProofs)

`rows` is the tasks table as the habits see it, `log` is `habit_log`, `seq` the
counter of the ids. `LogHabitCompletion` is the transaction that inserts a day and
computes the streak by counting back; `Complete` is every path to it, and
`CompleteAnothers` the worker's tool, which does not ask whose habit it is. `Skip`,
`DeleteTask`, `ResetAllTasks`, `ResetAllHabits` and `ResetEverything` are the other
writers. `stray` remembers the ids of habits deleted by themselves or logged by
another: there the log and the rows part, as "known divergences" says.

### Knowledge (with KnowledgePromise, MCKnowledge, KnowledgeProofs)

Entities (milestones), notes and media with the same shape of row, links, tags and
labels, and `story`, the last event of the timeline about each. An operation of
`core/workspace/engine.py` is a chain of transactions: its first one is the action
of its name (`CreateNote`, `DeleteEntity`, `LinkNoteTag`...), `handler` is what it
has still to do, and the steps after it are `Tell` (the event), `LinkNext`,
`MakeTag`, `LabelNext`, `UnlinkNext`, `Drop`; `Refuse` is a reference that resolves
to nothing, `Slip` a crash or a database error between two steps. `FindAll` and
`FindAny` are the and/or searches of `core/retrieval/service.py`, with their limits.
`todo` and `in_progress` lead to the same states and are one here.

`KnowledgePromise` says the same with every operation one step, and no handler, no
event and no fault: `PromiseKept` is the refinement.

### Worker (with MCWorker, WorkerProofs)

One message at a time: `turn.at` is where it is (the worker's loop, the entity
manager, the old paths), `turn.calls` how many tools have run. `Tool` is any call
the model may decide on, `Final` and `Unhandled` the ends of the loop, `CallGated` a
destructive tool, whose run waits in `asked` for `Yes` or `No`; `Manager` is
`EntityManager`, `Legacy` what follows it. `Between` are commands, a restart and a reset
of everything, which leaves the active context as it was.

| State | Code |
|---|---|
| `rows` | milestones, goals and tasks: name, workspace, open, done or gone |
| `active` | `tg_active_context` |
| `typed` | `TypedReferentStore` |
| `heard`, `listed` | `ReferenceContext` of the worker and of the manager |
| `reached` | history: the row the last step reached is the one meant, a twin, one found through a pronoun in a name, one under the placeholder title of a done goal, or another |

`ResolveEntity`, `ResolveGoal`, `Reference`, `Ordinal` and `Pronoun` are the
resolvers. A spelling is a model value; `Within` says which words it contains, since
several tests look for words inside names.

### Control (with Pages, MCControl, ControlProofs)

`Pages` is `core/control/pages.py` as functions: for stored rows and a callback,
`Render` gives the buttons of the page, or the error page when there would be more
than `MaxButtons`. `Control` adds the state: `pending` (`PendingConfirm`), `gather`
(the data entry), `search` (the filters), and `shown`, the questions whose message
still has its buttons. `Tap` is any button of any page ever shown, for any row ever
made; `Yes` and `No` are the buttons of a question; `Answer` the text that ends an
entry; `Beside` the commands, photos, the worker's calls, a restart and `HideInChat`,
the chat orchestrator's archiving or deletion of an entity (`main.py:749-763`,
`orchestrator.py:318-329`): unlike the tool it leaves the active context as it is, and an
archiving leaves the links too. `Effect` is what each tool makes of the rows. The set
`hidden` in `db` is history: the entities the orchestrator took away. `AsksHidden` names
the buttons of fresh pages that lead to one of them, the only exception of
`FreshButtonsLead` besides tag pages. A full reset is not in this module: it empties the
tables and leaves the active context, as in `Topics` and `Worker`.

### InstanceLock (with MCInstanceLock; proof in ControlProofs)

Several `run.sh` loops; a lock belongs to a file, and a file outlives its name while
it is open. `Open`, `Lock`, `Blocked`, `Unlock`, `Remove` and `Dies` are the system
calls and deaths of one process each. `CrashSpec` is the same without an orderly end.

## 3. The runs

| Run | Bounds | States | What it shows |
|---|---|---|---|
| `reminders_pair` | two tasks of one user, one day of three minutes, two acts on one task and one on the other, one fault | 2,070,566 | `SilenceAfterOnePing`, `FollowupBudget`: after "done" each job pings at most once more; the cap of the follow-ups holds, batched or not |
| `reminders_steady` | one task, two days of five minutes, three acts, times early and late in the day or none, every kind of recurrence, no faults, outages up to two minutes | 4,268,451 | `NoReminderMissed`, `SnoozeRefires`, `OnePingPerAct`, with quiet hours over midnight |
| `sync_tables` | two users, two adapters, two events, one failure, one slip, one reset, window 2, two attempts | 5,576,008 | `NoDoublePost`, `SentWasPosted`, `StampedAfterPost` |
| `sync_promise` | the owner, two adapters, three events, two failures, three attempts | 24,214 | `SyncOutbox` implements `SyncPromise`, liveness included |
| `conversation_chat` | one draft, three prompts, three rows, one fault, one reset | 1,985,863 | `NoSurprise`, `SettledOnce`, `ReferencesHold` |
| `topics_daily` | two workspaces, one chat, two entities of one name, two topics, one fault, one reset | 5,235,505 | `OrphansPaidFor`, `DeadPaidFor`, `TopicBelongs`, `RepairHeals`, `DeletedIsNotActive`: topics and rows part only where a fault is to blame, and a repair brings every linked workspace up to date |
| `knowledge_links` | two workspaces, one entity, two notes, one media record, one tag, two references given with a row, one fault | 1,298,053 | `NoGhosts`, `StoryHolds`, `SearchIsRight`; `PromiseKept`: every chain of transactions, cut anywhere, is a sequence of whole steps of `KnowledgePromise` |
| `worker_messages` | one workspace, two names, one of them spelt with a pronoun, two entities, one goal, one task, three messages of two calls, one reset | 2,225,021 | `ReferencesMeet`, `OneRowPerName` (of the tools and the manager), `GateHolds` |
| `control_taps` | two workspaces, two tags of one name, three entities, a note, a photo, two open questions, five taps, answers, commands and deletions in the chat | 1,570,607 | `PendingIsShown`, `FreshButtonsLead`, `YesReachesItsRow`, `LockHolds` |
| `habits_days` | two users, two ids at a time, four days | 709,128 | `LogsHaveOwners`, `StreakMatchesLog` |
| `warnings_ahead` | one deadline, three stages, four half hours, one retry, two faults, one act | 5,474,759 | `EachLevelOnce`, `OneAfterMute`, `LastWarningComes` |
| `lock_standby` | two loops, expected to fail | | `OneInstance` does not hold, see below |

Why the bounds are enough. A ping that comes too late needs one entry read before an
act and sent after it; a second entry is needed only for a batch and for the
order of two sends. The lookback, the escalation and the quiet hours compare two
times, so days of three to five minutes with a lookback of one have an inside, an
edge and an outside of each. Two attempts and two adapters are the least for
which "retried", "given up", "sent here and not there" differ, and two events
the least for which a window of the backlog can pass one by. Three prompts are one
on the screen, one that replaces it and one after a reset or a cancellation; three
rows let a row be deleted and two be added in its stead. `MaxFaults`, `MaxSlips` and
`MaxResets` are 1 where a property mentions them, which is then one fault away from
failing. Two entities of the same name are a pair of namesakes for the repair, and
with a reset an old and a new holder of one id; two topics let one entity get a
second. One entity with three items has every link and label, and one item of every
kind is left over when an operation is cut off. Two calls of the worker make one row and refer
to it, three messages are one that makes, one that refers and one that answers a
question. Five taps open two dialogues, change what they are about and answer both.
Two ids let one habit go and another come, and four days hold a run, a gap and a run.
Of the five stages three are enough for a nearest, a middle and a farthest one; two
faults are the retries of one send, or one retry and one crash.

One run expects a violation:

* `lock_standby`: "prevents more than one BAKA process from running at once"
  (`instance_lock.py`), with a second loop as "an automatic standby"
  (`ARCHITECTURE.md:280`). `release` unlocks first and removes the file afterwards
  (`instance_lock.py:140-149`): the standby locks the file in between, the name
  disappears from under it, and the next start locks a new file. Both run.

Fairness. Only `sync_promise` states any. It uses `FairSpec`: weak
fairness of `Pass`, any step of a pass. The JobQueue starts a pass every thirty
seconds for as long as the process lives and `run.sh` restarts it, and a thread
that has begun a pass runs to its end, since every call in it has a time-out.
Nothing obliges a send to succeed, a user to act or Telegram to come back; what
holds in the end holds because failures are fewer than attempts. The other
modules state no liveness: what a job owes the user is put into history
variables (`armed`, `owed`, `calm`) and bounded by the clock, which is stronger than
"eventually". Deadlock is checked but where the bounds end a behaviour: the last day
of `Reminders`, the last half hour of `Warnings`, the last rows of `Knowledge`, the
last tap of `Control`, and the `InstanceLock` run, whose files are bounded.

## 4. The proofs

`RemindersProofs`, for any finite or infinite set of tasks, any owners, lengths and
limits the assumptions of `Reminders` admit:

* `TypeCorrect`: `Spec => []TypeOK`. The type invariant is inductive.
* `Silence`: `Spec => []SilenceAfterOnePing`. The invariant says that a task that
  is silent and has already been pinged by a job is no longer in that job's list
  or in its hands, and that no job can pick it up again while it stays silent; an
  act of the user starts the count again.
* `Budget`: `Spec => []FollowupBudget`. The message and `reminder_count` are two
  steps apart, so the invariant counts what is sent and not yet counted, what a
  batch has counted and not yet sent, and the faults that lost the difference.
* `OnePing`: `Spec => []OnePingPerAct`. Each act on a task pays for one ping a day.
  The invariant (`PingInv`) adds to the pings sent those that the row and the run under way
  can still cause before midnight: an entry read and not sent, a reminder that is
  still due or will be, a snooze that is running or has just been cleared. A stamp takes
  the ping of the row away, since the lookback is no longer than the 20 hours
  (`WindowAssumption`; 5 minutes in the code), and midnight starts the pings again.
  The proof is why `sent` counts by the day of the reading: a reading of
  23:59 that is sent at 00:00 belongs to the day before, and a daily task would
  otherwise have two pings on the new day for no act.
* `SnoozesRefire`: `Spec => []SnoozeRefires`. What is owed is in the list the job read
  until the ping goes out, and the entry in its hand is not owed.
* `NoneMissed`: `Spec => []NoReminderMissed`, if `MaxAway <= Lookback + 1`: the process
  may be away as long as the lookback reaches, and one minute later it is too late. The
  invariant says that a reminder that is armed is still that of an active one-time task
  without a snooze, has not been stamped on its day, and came due after `lastRun`, which
  is never further back than `MaxAway`.

`ConversationProofs`:

* `Settlement`: `Spec => []SettledOnce`. The invariant says that the prompt in the
  slot has neither run nor been dropped and that prompts not yet asked for are
  fresh. Every action has one of four shapes, each a lemma: it keeps the
  slot, opens a new prompt, closes the slot, or runs what is in it.
* `TypeCorrect`, `References` and `NoSurprises`: `[]TypeOK`, `[]ReferencesHold` and
  `[]NoSurprise`, from one invariant (`Invariance`). Until a reset, an id counts the rows
  ever inserted, since nothing takes an id back, so every id held anywhere names one
  birth (`Ids`). While a yes is awaited and nothing has failed, what is in the slot is
  what the last message described (`Presented`): every action that changes one of
  the two changes the other, or leaves the mode in which a yes counts.

`KnowledgeProofs`, for any workspaces, tag names, numbers of rows and faults:

* `TypeCorrect`, `NoGhostReferences`: `[]TypeOK` and `[]NoGhosts`. The invariant has two
  parts. The tables are sound: ids have no gaps, links lead to living entities of the
  same workspace, labels stay in theirs. And the handler holds what it may still write:
  the row and the entities it will link are alive and of one workspace, and a deletion
  holds every link of its entity, so that none is left when the row goes. The second
  part is why it matters that one user's operations do not interleave, and why a crash,
  which only empties the handler, does no harm.
* `EngineKeepsPromise`: `Spec => PromiseKept`. Each step changes the tables in one of ten
  ways or not at all; a lemma for each says that the tables stay sound and which step of
  `KnowledgePromise` it is. `Tell`, `Refuse`, `Slip` and the openings of a chain are none.
* `TimelineIsTrue`: `[]StoryHolds`. What is about to be recorded is true of the rows at
  that moment (`StoryInv`), since a handler changes no row between a change and its
  event; so recording it takes an item off the missing ones, and only a fault, which
  drops one event at most, adds one.
* `SearchFindsNewest`: `[]SearchIsRight`. It needs no more of a state than that it is
  well typed: the newest of the newest of each filter is the newest of all (`NewestOfAny`,
  by the well-foundedness of the numbers), and a filter of two rows is not cut by a
  limit of two (`NewestFew`).

`SyncOutboxProofs`, for any users, adapters, limits, attempts and bounds:

* `TypeCorrect`, `NeverPostedTwice` and `MarksAreTrue`: `[]TypeOK`, `[]NoDoublePost` and
  `[]SentWasPosted`. The invariant is a budget for each event and adapter: what has been
  posted, what is still on the wire, a row that may yet be sent, and a row still to be
  made for an event a reset has removed come to at most one, and one more for each slip
  and reset. It holds because an event that is still there has left a row for
  whatever was done about it, so that `enqueue` finds the row and skips; because an
  event and adapter have one row; and because the row of an id a pass holds is the row
  it read, as long as that exists.
* `StampsAreTrue`: `Spec => []StampedAfterPost`. "No row remains" means "all were sent"
  only if all were made. While nothing is reset, an event of which one row exists stays
  in the window of `enqueue_backlog` until it has a row for every adapter, and a pass
  makes them before it reads what to send; a reset breaks this, which is why the property
  excepts it.
* `PromiseKeptSafely`: `Spec /\ [](resets = 0) => Promise!Spec`, the refinement without
  its fairness.

`TopicsProofs`, for any chats, names, templates and numbers of workspaces, entities,
topics, faults and resets:

* `TypeCorrect`, `OrphansPaid`, `DeadPaid`, `Belongs`, `RepairsHeal` and
  `DeletedNotActive`: the six properties of `topics_daily`. The invariant says where a
  handler may be between its steps. A bind step stands first, right after its topic was
  made, for an entity without a topic and with a topic no row names, and no two rows
  share one; so binding takes an orphan away and gives no topic twice. A row is deleted
  only after its topic, by a handler that stops at the first error. Before a reset every
  step is about an entity that exists. What a handler will open is not deleted, and if
  what is open is deleted, the step that closes it is next. A repair still holds every
  first-of-its-name entity it has not given a topic, and holds the bind step of a topic
  it has made.
* The two counts are budgets: the set grows by one element at most, and only in a step
  that is itself counted (`OrphansOne`, `DeadOne`); in every other step it stays or
  shrinks. For `DeadPaidFor` the set is taken larger by the row that a topic deleted by
  hand is about to get.

`WarningsProofs`, for any tasks, owners, stages, thresholds, times, quiet hours, retries,
faults and acts:

* `TypeCorrect`: `[]TypeOK`; a job handles the rows it has read one by one, and starts
  again only when it has handled them all.
* `OnceEach`: `[]EachLevelOnce`. A warning is spent when its job has sent it and not yet
  marked it, or when it is marked and no run under way read the row before the mark. The
  invariant is a budget: it has come once if it is spent, not at all if it is not, and
  once more for each spare send. A mark makes the message in hand a spent one; a crash
  loses exactly the marks whose messages were sent.
* `SilenceHolds`: `[]OneAfterMute`. Of a silenced task one warning is held at most, in the
  rows of the run or in its hands, and once none is held none follows, since a new run
  does not read a silenced row.
* `LastComes`: `[]LastWarningComes`. What a run has read is true of a deadline that has
  not been moved, a stage is marked only after its warning came, and the stage a run
  chooses in the last stage is the last, or the last one has come already.

`WorkerProofs`, for any names and spellings, workspaces, limits, numbers of rows and
resets, all from one invariant (`Invariance`):

* `TitlesStayUnique`, `DestroyedByYes`: `[]OneRowPerName` and `GateHolds`. What the chat
  orchestrator adds (ADD_MILESTONE), before a message reaches either, is outside. `RowsStep`
  says what any action does to the rows: nothing, all go, one comes under a title that was
  free or by `/add`, or one changes, and then it is an entity only if it goes. The
  invariant is the numbering of the rows without a gap (`Numbered`), without which the
  newer of two rows might not have the higher id, and `Unique`.
* `TypeCorrect`: `[]TypeOK`. The memories are lists out of which an old entry is taken
  before the new one is put at the end, and whole lists are noted one by one. `KeptIs`,
  `NoteAllIs` and `MentionAllIs` say what the recursive functions that do so leave. The
  library's induction takes an operator, which the provers cannot instantiate, so
  the two facts it is needed for are proved for sets from the least counterexample:
  `Climb` (a set that has 0 and the successors of its members has all) and
  `Recursion` (a function defined by its predecessor exists).
* `ReferencesHold`: `[]ReferencesMeet`. `Remembered` says of every referent held that
  what it tells is true (`IsTold`): one noted since the last reset names a row that
  exists and the title that row has, except a done goal, which is noted under a placeholder;
  a goal of before a reset has no row, since the referent of a new goal of that id takes
  its place. `ToldKept` is why it stays true: titles of goals and entities do not
  change, and what adds a goal notes it. A lemma for each tool and each answer of the
  manager then says that the row reached has that id or title.

`ControlProofs` is about three modules that share no state: it extends `Control` and
`Habits` and has `InstanceLock` (`Lock!`) as an instance.

* `AskedIsShown`, `YesReaches`, `LocksHold`: `[]PendingIsShown`, `YesReachesItsRow` and
  `LockHolds` of `Control`, for any names, linked workspaces and bounds, from any stored
  state that is in order (`Stored`: rows of each table numbered without a gap, a deleted one
  keeping its number, and a topic field for each entity) and sound (`Sound`, which only the
  next theorem needs); the instance of the run is checked to be one.
  What is said once of every tool is `Proper`: it leaves the tables in order, changes no
  row and no link but of the call's row, and takes no locked topic away without force;
  there is a lemma for each kind of tool, and `EffectProper` puts them together. What is said once of every step is `OneCall`: it runs at most one call,
  which is the pending one if that is gone afterwards, and asks nothing that is not on the
  screen. The numbering is needed since otherwise a creation could overwrite a row.
* `EveryPageLeads`: `[]PagesLead`, in every state, for lists of any length and each of
  their pages; `ButtonsLead`, `[]FreshButtonsLead`, is what follows of it for the states the
  run looks at. Excepted are tag pages, which still list deleted notes and media, and what
  the chat orchestrator has hidden (`AsksHidden`): the Identity button of an active entity
  it left active, and the button that takes an archived entity off a note or a photo. So the
  theorem says that the tools' deletions leave nothing behind, and the orchestrator's
  nothing but these two. The invariant
  is `Sound`: no workspace is deleted, an entity is of a kind that has a list, labels lead to
  living tags, links to entities that live or are in `hidden`, and the active entity is found
  in the active workspace or is in `hidden`;
  with it `Apt` and `EntryApt`, that what is asked or entered names rows of the table its
  tool is for. `EffectSound` says it of each tool: the deletion of an entity has to clear the
  active context and its links, and that of a tag its labels; `HideMilestoneSound` says it of
  the orchestrator, which has to note what it hides. `RenderGood` says of each page drawn from a
  sound state that its keyboard is a list of callbacks that find their row; below it,
  `AscendingIs` says that rows by number are a list of those rows, from the least
  counterexample as in `WorkerProofs`, and `AnyPage` that a page of a list is a part of it.
* `HabitsTypeCorrect`, `NoLogWithoutOwner` and `StreaksAreEarned`: `[]TypeOK`,
  `[]LogsHaveOwners` and `[]StreakMatchesLog`. The three together are inductive and
  none of the last two is alone: a completion needs an empty log for a new id, which
  is what `LogsHaveOwners` gives, and ids that are new need the counter of `TypeOK`.
  Only an empty table starts the ids again, and then the log of its rows is gone or
  they have been declared stray; lemmas say of runs of days that a day added after
  all others lengthens one run and no other.
* `DeathsAreSafe`: `Lock!CrashSpec => []Lock!OneInstance` for any number of loops and
  files. While nobody removes the name there is one file, and one holder of it. Together
  with `lock_standby` this says that the order of `release` is all that is wrong.

Only model-checked: the liveness of the refinement of `SyncOutbox` (`KeepsPromise`), since
liveness and ENABLED are beyond the provers.

## 5. What is not modelled

The parts without a module: intents, routing and dates are functions of one text;
prompts and replies of the language model are arbitrary wherever a module needs one;
diagnostics keep nothing the planner reads. Memories, observations, projects, work
sessions and materials are single-row reads and writes without a protocol. Inside
the modelled parts:

* `Reminders`: the reports, the briefing, the wellness and project nudges, the
  text of messages, dates and times as strings (they are numbers here), and users
  with different preferences. `check_deadlines` repeats every hour by design.
* `Warnings`: recurring tasks, which get no such warnings; minutes within a half hour;
  the token buckets, which only delay; `call_with_retry` of model calls.
* `Habits`: how often a habit recurs and whether it is paused, which change nothing
  here; `get_missed_days` and the reports, which read.
* `SyncOutbox`: payloads, rendering, the creation of topics, adapters that are
  registered later, several processes.
* `Knowledge`: text, times and kinds; links as sets, although a table may hold a pair
  twice; workspaces themselves, which are in `Topics`; the merge of notes and media
  by time.
* `Topics`: notes and photos themselves, kinds and fields of entities, the message
  that fails after its topic is ensured, other users (whose rows would keep the ids
  from starting again).
* `Worker`: fields, deadlines, progress and wording; topics and notes, which are in
  `Topics` and `Knowledge`; what the old paths do to rows, which is in `Conversation`;
  the chat orchestrator, whose ADD_MILESTONE adds a second row of a name.
* `Control`: titles and contents; the stepwise opening of pages, which changes
  nothing, so that any button of any row may be tapped at any time; the full reset.
* `Conversation`: commands that only read; intents and commands that write at once
  and touch neither slot nor ids (settings, memories, goals, snooze, pause); the
  tool a worker confirmation runs, which acts on other tables; times and dates
  beyond "given or not"; several users, whose slots are separate.
* `InstanceLock`: the pid in the file, read for messages only.

Known divergences without a run of their own, met while reading. Reminders:

* A stopped task "stays but never pings again" (`database.py:875`); once its date has
  passed it is followed up (`scheduler.py:193`). "Use /resume" (`main.py:2376`) does not
  bring its time back.
* A snooze "re-fires once that time passes" (`docs/reminders.md:21`); it is cleared
  before the send, so a failed send loses it (`scheduler.py:164`).
* A reminder due in the last `LOOKBACK_MINUTES` of a day is not caught up after
  midnight, since only times of day are compared (`scheduler.py:84-105`;
  `docs/scheduler.md:24`). The cutoff of the did-you-finish question wraps in the
  same way before 00:15 (`database.py:1402`), and the priority nudge's three hours in
  the evening (`database.py:1551`).
* `docs/reminders.md:16` says three or more overdue tasks are batched; two are
  (`main.py:5415`). One failing send in `check_followups` ends the job for all
  later users. An edit between a send and `mark_reminded` is stamped as reminded.
* "Largest buffer fires first" (`main.py:5738`): the nearest stage does, and the larger
  ones follow in later runs. A deadline that is moved keeps `buffer_sent` and gets no
  warning for the stages already sent. The hourly `check_deadlines` keeps no memory and
  no quiet hours, which `docs/scheduler.md` says it does.
* A weekly task asked for in words is saved without a weekday (`main.py:556-569`)
  and matches no day (`scheduler.py:130`).

The outbox:

* "drains the backlog in order. No data loss" (`docs/v15/TWID.md:79`): after five failed
  passes an event is given up for good (`core/workspace/sync.py:204`). A retried
  event is posted after later ones; failed events fill the window of
  100 (`core/workspace/sync.py:173`); the worker visits users with an open task
  and the owner only (`database.py:865`); a reset in the middle of a pass can
  stamp the first event recorded after it.
* An event whose rows are all sent when the process dies before the stamp is never
  stamped (`core/workspace/sync.py:201-203`; the docstring at 184 says it is).

The conversation:

* "Say yes to save, no to cancel, or tell me what to change" (`main.py:1092`): "no
  thanks" and "change it to 5pm" save, since both contain "ha" (`main.py:1058`).
* A deadline becomes an ordinary task when the bot had to ask back (`main.py:1692`,
  `1185`; `docs/reminders.md:50` "either one triggering is enough").
* A reply that is not understood shows a delete, a plan, subtasks or several tasks
  as an untitled new task (`build_summary`), and a yes then does the old thing.
  `NoSurprise` leaves these kinds out. "skip" carries out any pending action
  (`main.py:1086`). `set_pending_action` precedes a reply that Telegram may refuse;
  a yes then carries out a prompt nobody has seen (`NoSurprise` is about chats in which
  nothing is refused, `SettledOnce` says of such a prompt only that it is settled once).
  "Save as tasks" under an older photo saves the newest. Several tasks, subtasks and
  plans are written row by row, and an error in the middle leaves a part
  (`main.py:545`).
* Corrections while gathering are ignored when a value is already known
  (`main.py:1153`). `task_exists` never finds a task without a date. Editing a task
  deleted meanwhile raises (`main.py:1124`, and in words `main.py:1808`).

Habits:

* `habit_log` outlives a habit that is deleted by itself; when the ids start again a
  new habit has its streak. The worker's `complete_habit` logs another user's habit
  under the owner's name (`core/ai/tool_adapters.py:463`), whose log can then refuse
  the day to the habit's owner.
* `current_streak` does not decay on missed days (`DEBUGGING.md:792`); a weekly habit
  never exceeds one; "start fresh tomorrow" after a skip is undone by the next
  completion, which counts back over the log.
* `/approve` passes a parameter `add_habit` does not have (`main.py:4853`), so an
  approved habit is never applied, and already marked approved.

Topics and knowledge:

* New rows must not "inherit an old, unrelated record's history" (`database.py:1274`):
  the `tg_` tables are not reset, and the new entity #1 has the old topic. Work logs
  and links of notes survive a reset in the same way.
* `delete_topic` says the row goes even if Telegram refuses (`projection.py:232`);
  the live client raises instead (`core/workspace/app.py:176`), and the row stays.
  A topic deleted by hand is therefore never replaced: `ensure_entity_topic` believes
  the row, and deleting it fails for good.
* After a repair two entities of one name can have two topics: the first row gets
  one although a later row has one, and topics that exist are not joined
  (`main.py:4276` "one normalized title = ONE entity = ONE topic").
* The orchestrator deletes or archives an entity and leaves it active
  (`orchestrator.py:320-329`); the next note goes to it, and to a new topic named "Entity"
  (`groups_app.py:281-309`). The control home still offers "Identity" for it, which answers
  "Entity not found" (`pages.py:568-585`), and notes and photos still offer to take an
  archived entity off, which finds no such entity either (`pages.py:850`, `980`).
* Locking a topic that does not exist yet has no effect
  (`projection.py:214`, "a future ensure honors it"). Linking a workspace to another
  group keeps the topic ids of the old one. `link_group` links an id whose
  workspace is gone.
* Links are "idempotent" (`database.py:3331`, `3687`), but nothing keeps a pair from
  being there twice. `update_media` records no event. A rename can make a tag of the
  same name in another case.
* A search drops names and tags it does not find; "and" loses matches beyond twice
  the limit; 199 of 200 milestones are "100%".

Worker and references:

* `handled=False` "only on DECLINED" (`worker_contract.py:131`): a time-out or a failed
  tool has it too (`worker.py:152`), so that a message already half carried out goes to
  the manager and the old paths.
* A name with a pronoun in its spelling ("Citlali" has "it") is taken for the pronoun
  (`typed_referents.py:141`; its comment at 39 and `reference_resolver.py:71` compare
  whole words). Titles updated by name reach the first twin.
* A done goal is no longer listed, and its referent is noted under "goal" and its id
  (`core/ai/tool_adapters.py`, `_goal_title`), which may be the title of another goal; that
  title then means the done one (`"untitled"` in the model).
* A confirmation names no row and resolves its reference again at the yes. Words for
  yes are looked for before words for no (`main.py:1011-1020`). Typed referents outlive
  a reset.

Control plane:

* "keeps every keyboard ≤ 12 buttons" (`pages.py:60`): the lengths are overridden
  (`pages.py:701-703`), and more than five photos, eight tags or a middle page of notes
  give an error page.
* A tag of another workspace is found by its number and renamed or deleted by its name
  in the active one (`router.py:501-508`, `pages.py:1011`). A search in all workspaces
  raises. The pagers of topics, workspaces and search results lead nowhere. Deleted
  notes and media stay as buttons of a tag (`database.py:3246` "excluded from every read").
* "Yes" under an older question runs the newest pending tool; `YesReachesItsRow` is
  about the row that tool names. `ws:close` closes whatever is active.

## 6. Plan

What the user relies on most came first; every component with a protocol now has a
module. Left to do:

1. Projects with their goals, work sessions and materials, where ids that do not exist
   yet are accepted and inherited later.
2. The observation engine and `/approve`, once approving applies anything.
