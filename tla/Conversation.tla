--------------------------- MODULE Conversation ----------------------------
(***************************************************************************)
(* The conversation of one user with the bot: what is asked, what a reply  *)
(* to it does, and what commands, photos and buttons do in between         *)
(* (main.py, conversation_state.py, core/offline, core/actions,            *)
(* database.py).                                                           *)
(*                                                                         *)
(* Updates are handled one at a time, so a handler is one step.  There is  *)
(* one slot for what the next yes will do, in memory; the messages that    *)
(* asked for it stay in the chat.  What a language model makes of a        *)
(* message is any of the intents the handler tells apart.                  *)
(***************************************************************************)
EXTENDS Integers, FiniteSets, SequencesExt

CONSTANTS
    Titles,
    Drafts,      \* the tasks the user asks for, as understood
    MaxPrompts,  \* bound: confirmations asked for
    MaxRows,     \* bound: rows ever inserted
    MaxFaults,   \* bound: replies that do not arrive, restarts
    MaxResets    \* bound: resets carried out

ASSUME ConversationSizes == {MaxPrompts, MaxRows, MaxFaults, MaxResets} \subseteq Nat
ASSUME DraftsTyped ==
    /\ IsFiniteSet(Drafts)
    /\ Drafts \subseteq [title : Titles, dated : BOOLEAN, timed : BOOLEAN,
                         deadline : BOOLEAN, phrased : BOOLEAN]

VARIABLES
    chat,      \* _states and _context: mode, pending, editing, partial
    tasks,     \* the tasks table
    nextId,    \* its sqlite_sequence
    born,      \* rows inserted so far
    seen,      \* rows ever shown: their buttons and ids stay in the chat
    shown,     \* what the last message asked the user to confirm
    asked,     \* prompts so far
    ran,       \* history: ran[n], how often prompt n was carried out
    dropped,   \* history: prompts cancelled or replaced
    faults, resets,
    last       \* history: the last thing done: to what card, to which rows

db == <<tasks, nextId, born, seen>>
vars == <<chat, db, shown, asked, ran, dropped, faults, resets, last>>

Prompts == 1 .. MaxPrompts
Ref == [id : 1 .. MaxRows, birth : 1 .. MaxRows]
Draft == [title : Titles, dated : BOOLEAN, timed : BOOLEAN, deadline : BOOLEAN, phrased : BOOLEAN]
Row == [id : 1 .. MaxRows, birth : 1 .. MaxRows, title : Titles, dated : BOOLEAN,
        timed : BOOLEAN, deadline : BOOLEAN, phrased : BOOLEAN, done : BOOLEAN,
        kind : {"task", "habit", "subtask"}, parent : 0 .. MaxRows]

\* The pending actions that describe themselves again when a reply is not
\* understood, and the ones build_summary shows as an untitled task.
Described == {"create", "habit", "offline_add", "offline_delete", "worker", "reset", "nuke"}
Kinds == Described \cup {"multiple", "plan", "subtasks", "delete", "vision"}
Legacy == {"create", "habit", "multiple", "plan", "subtasks", "delete", "vision"}

\* pending_action and pending_data; "none" is an empty slot
Action == [kind : Kinds \cup {"none"}, drafts : SUBSET Draft, targets : SUBSET Ref, no : 0 .. MaxPrompts]
Nothing == [kind |-> "none", drafts |-> {}, targets |-> {}, no |-> 0]

\* What a message presents for a yes: an action, an open question or nothing.
Card == [kind : Kinds \cup {"none", "question"}, drafts : SUBSET Draft, targets : SUBSET Ref]
CardOf(p) == [kind |-> p.kind, drafts |-> p.drafts, targets |-> p.targets]
NoCard == CardOf(Nothing)
Question == [NoCard EXCEPT !.kind = "question"]
Untitled == [NoCard EXCEPT !.kind = "create"]

Partial == [title : SUBSET Titles, dated : BOOLEAN, timed : BOOLEAN, phrased : BOOLEAN]
NoPartial == [title |-> {}, dated |-> FALSE, timed |-> FALSE, phrased |-> FALSE]

Idle == [mode |-> "idle", pending |-> Nothing, editing |-> {}, partial |-> NoPartial]

-----------------------------------------------------------------------------
(* Replies, by what the substring tests of the confirming branch find in them *)

Replies == {"yes", "no", "no thanks", "change it to 5pm", "at 5pm", "timing", "skip", "hmm",
            "YES RESET", "YES NUKE EVERYTHING"}

\* "thanks" and "change" contain "ha", one of the words for yes.
Positive == {"yes", "no thanks", "change it to 5pm", "YES RESET", "YES NUKE EVERYTHING"}
Negative == {"no", "no thanks"}

-----------------------------------------------------------------------------
(* The tasks table *)

\* AUTOINCREMENT; mutant: the lowest id above the rows that are left
NewId_AboveTheRest == 1 + Cardinality({i \in 1 .. MaxRows : \E r \in tasks : r.id >= i})
NewId == nextId

\* task_exists: an open row of that title and date; NULL equals nothing
Exists(d) == d.dated /\ \E r \in tasks : r.title = d.title /\ r.dated /\ ~r.done

\* add_task, add_habit, add_subtask
Insert(drafts, kind, parent) ==
    LET new == SetToSeq(drafts)
        n == Len(new)
    IN /\ born + n <= MaxRows /\ born' = born + n
       /\ tasks' = tasks \cup
            {[id |-> NewId + i - 1, birth |-> born + i, title |-> new[i].title,
              dated |-> new[i].dated, timed |-> new[i].timed, deadline |-> new[i].deadline,
              phrased |-> new[i].phrased, done |-> FALSE, kind |-> kind, parent |-> parent] :
             i \in 1 .. n}
       /\ nextId' = NewId + n
       /\ seen' = seen \cup {[id |-> NewId + i - 1, birth |-> born + i] : i \in 1 .. n}

Hit(refs) == {r \in tasks : \E t \in refs : t.id = r.id}

Rewrite(refs, Op(_)) ==
    /\ tasks' = (tasks \ Hit(refs)) \cup {Op(r) : r \in Hit(refs)}
    /\ UNCHANGED <<nextId, born, seen>>

Forget(rows) == tasks' = tasks \ rows /\ UNCHANGED <<nextId, born, seen>>

\* mutant: ids start again although habits are left
WipeTasks_RestartsIds ==
    /\ tasks' = {r \in tasks : r.kind = "habit"}
    /\ nextId' = 1 /\ UNCHANGED <<born, seen>>

\* reset_all_tasks keeps the habits; ids start again once the table is empty.
WipeTasks ==
    /\ tasks' = {r \in tasks : r.kind = "habit"}
    /\ nextId' = IF tasks' = {} THEN 1 ELSE nextId
    /\ UNCHANGED <<born, seen>>

WipeEverything == tasks' = {} /\ nextId' = 1 /\ UNCHANGED <<born, seen>>

\* execute_task_action, offline_engine.execute_pending, the two resets; the tool
\* of a worker confirmation acts on other tables.
Carry(p) ==
    CASE p.kind \in {"create", "offline_add", "multiple"} ->
            Insert({d \in p.drafts : ~Exists(d)}, "task", 0)
      [] p.kind = "habit" -> Insert(p.drafts, "habit", 0)
      [] p.kind = "subtasks" -> Insert(p.drafts, "subtask", (CHOOSE t \in p.targets : TRUE).id)
      [] p.kind = "plan" -> Rewrite(p.targets, LAMBDA r : [r EXCEPT !.timed = TRUE])
      [] p.kind \in {"delete", "offline_delete"} -> Forget(Hit(p.targets))
      [] p.kind = "reset" -> WipeTasks
      [] p.kind = "nuke" -> WipeEverything
      [] p.kind \in {"worker", "vision"} -> UNCHANGED db

-----------------------------------------------------------------------------
(* What a step does to the slot and says in the chat *)

Open == IF chat.pending.no = 0 THEN {} ELSE {chat.pending.no}

\* mutant: only the state is reset, not the context
ClearState_KeepsContext(prompts) == chat' = [chat EXCEPT !.mode = "idle"] /\ dropped' = dropped \cup prompts
ClearState(prompts) == chat' = Idle /\ dropped' = dropped \cup prompts

\* A reply arrives, or Telegram refuses it and the error handler apologises.
Tell(card) ==
    \/ shown' = card /\ UNCHANGED faults
    \/ faults < MaxFaults /\ faults' = faults + 1 /\ shown' = NoCard

Note(did, refs) ==
    last' = [shown |-> shown, did |-> CardOf(did),
             aim |-> {t.birth : t \in refs}, hit |-> {r.birth : r \in Hit(refs)}]
Silence == [shown |-> NoCard, did |-> NoCard, aim |-> {}, hit |-> {}]
Quietly == last' = Silence

\* set_pending_action, and then the message that asks.
Ask(kind, drafts, targets, card) ==
    /\ asked < MaxPrompts /\ asked' = asked + 1
    /\ chat' = [chat EXCEPT !.mode = "confirming",
                            !.pending = [kind |-> kind, drafts |-> drafts,
                                         targets |-> targets, no |-> asked + 1]]
    /\ dropped' = dropped \cup Open
    /\ Tell(card)
    /\ Quietly
    /\ UNCHANGED <<db, ran, resets>>

Propose(kind, drafts, targets) ==
    Ask(kind, drafts, targets, [kind |-> kind, drafts |-> drafts, targets |-> targets])

-----------------------------------------------------------------------------
(* A message in the confirming state *)

\* clear_state, and then the pending action
Run ==
    /\ ClearState({})
    /\ ran' = [ran EXCEPT ![chat.pending.no] = @ + 1]
    /\ Carry(chat.pending)
    /\ resets' = resets + (IF chat.pending.kind \in {"reset", "nuke"} THEN 1 ELSE 0)
    /\ resets' <= MaxResets
    /\ shown' = NoCard
    /\ Note(chat.pending, chat.pending.targets)
    /\ UNCHANGED <<asked, faults>>

Drop ==
    /\ ClearState(Open)
    /\ shown' = NoCard
    /\ Quietly
    /\ UNCHANGED <<db, asked, ran, faults, resets>>

Again(p, card) ==
    /\ chat' = [chat EXCEPT !.pending = p]
    /\ Tell(card)
    /\ Quietly
    /\ UNCHANGED <<db, asked, ran, dropped, resets>>

\* build_summary
Summary(p) == IF p.kind \in {"create", "habit"} THEN CardOf(p) ELSE Untitled

Timed(p) == [p EXCEPT !.drafts = {[d EXCEPT !.timed = TRUE] : d \in @}]

\* What update_context leaves in the slot; mutant: a copy got the time
Stored_Unchanged(p) == chat.pending
Stored(p) == p

ReplyToReset(said) ==
    /\ chat.pending.kind \in {"reset", "nuke"}
    /\ IF said = (IF chat.pending.kind = "reset" THEN "YES RESET" ELSE "YES NUKE EVERYTHING")
       THEN Run ELSE Drop

ReplyToOffline(said) ==
    /\ chat.pending.kind \in {"offline_add", "offline_delete", "worker"}
    /\ CASE said \in Positive -> Run
         [] said \in Negative \ Positive -> Drop
         [] OTHER -> IF chat.pending.kind = "offline_delete" /\ Hit(chat.pending.targets) = {}
                     THEN Drop
                     ELSE Again(chat.pending, CardOf(chat.pending))

\* A photo's analysis is not an action: a yes to it only clears the slot.
ReplyToLegacy(said) ==
    /\ chat.pending.kind \in Legacy
    /\ CASE said \in Positive \cup {"skip"} ->
               IF chat.pending.kind = "vision" THEN Drop ELSE Run
         [] said \in Negative \ Positive -> Drop
         [] said = "at 5pm" ->
               Again(Stored(Timed(chat.pending)), Summary(Timed(chat.pending)))
         [] said = "timing" -> Again(chat.pending, Question)
         [] OTHER -> Again(chat.pending, Summary(chat.pending))

Reply(said) ==
    /\ chat.mode = "confirming"
    /\ ReplyToReset(said) \/ ReplyToOffline(said) \/ ReplyToLegacy(said)

-----------------------------------------------------------------------------
(* A message in the idle, gathering and editing states *)

Phrased(d) == [d EXCEPT !.deadline = d.phrased]
Plain(d) == [d EXCEPT !.phrased = FALSE]
RefTo(r) == [id |-> r.id, birth |-> r.birth]

\* The TASK intent, complete
AskCreate(d) == chat.mode = "idle" /\ Propose("create", {Phrased(d)}, {})

\* The TASK intent with a time that may be AM or PM: neither is_deadline nor the
\* recurrence is put into the pending data.
AskAmPm(d) == chat.mode = "idle" /\ Ask("create", {[d EXCEPT !.timed = FALSE]}, {}, Question)

AskMultiple(D) == chat.mode = "idle" /\ Propose("multiple", {Plain(d) : d \in D}, {})
AskHabit(d) == chat.mode = "idle" /\ Propose("habit", {Plain(d)}, {})
AskDelete(r) == chat.mode = "idle" /\ Propose("delete", {}, {RefTo(r)})
AskOfflineAdd(d) == chat.mode = "idle" /\ ~Exists(d) /\ Propose("offline_add", {Phrased(d)}, {})
AskOfflineDelete(r) == chat.mode = "idle" /\ Propose("offline_delete", {}, {RefTo(r)})
AskWorker == chat.mode = "idle" /\ Propose("worker", {}, {})

\* set_gathering
Gather(partial) ==
    /\ chat' = [chat EXCEPT !.mode = "gathering", !.partial = partial]
    /\ Tell(Question)
    /\ Quietly
    /\ UNCHANGED <<db, asked, ran, dropped, resets>>

\* The TASK intent with something missing
AskMissing(d, titled) ==
    /\ chat.mode = "idle"
    /\ Gather([title |-> IF titled THEN {d.title} ELSE {}, dated |-> FALSE,
               timed |-> d.timed, phrased |-> d.phrased])

\* What is known already is kept, whatever the reply says of it.
Merged(d) ==
    [chat.partial EXCEPT !.title = IF @ = {} THEN {d.title} ELSE @,
                         !.dated = @ \/ d.dated, !.timed = @ \/ d.timed]

GatherReply(d) ==
    /\ chat.mode = "gathering"
    /\ \E title \in Merged(d).title :
         Propose("create", {[title |-> title, dated |-> Merged(d).dated, timed |-> Merged(d).timed,
                             deadline |-> FALSE, phrased |-> chat.partial.phrased]}, {})

\* Still no title, or a date or time that is not valid
GatherAgain(d) ==
    /\ chat.mode = "gathering"
    /\ Gather([Merged(d) EXCEPT !.title = chat.partial.title])

\* The change is written whatever has become of the task meanwhile; "cancel" and
\* a message without a change leave it as it is.
EditReply(t) ==
    /\ chat.mode = "editing"
    /\ Rewrite(chat.editing, LAMBDA r : [r EXCEPT !.title = t, !.dated = TRUE])
    /\ ClearState(Open)
    /\ shown' = NoCard
    /\ Note(Nothing, chat.editing)
    /\ UNCHANGED <<asked, ran, faults, resets>>

EditLeave == chat.mode = "editing" /\ Drop

-----------------------------------------------------------------------------
(* Commands, menu and inline buttons: in every state *)

\* /cancel, /start
Cancel == Drop

\* The menu's Add Task: clear_state and set_gathering
AddTask ==
    /\ chat' = [Idle EXCEPT !.mode = "gathering"]
    /\ dropped' = dropped \cup Open
    /\ shown' = Question
    /\ Quietly
    /\ UNCHANGED <<db, asked, ran, faults, resets>>

Directly(ref) ==
    /\ Note(Nothing, {ref})
    /\ UNCHANGED <<chat, shown, asked, ran, dropped, faults, resets>>

\* /delete <id> asks for no confirmation.
DeleteCommand(ref) == Forget(Hit({ref})) /\ Directly(ref)

\* Done, under a reminder or a dashboard card; a habit stays open.
DoneButton(ref) ==
    /\ Rewrite({ref}, LAMBDA r : [r EXCEPT !.done = r.kind # "habit"])
    /\ Directly(ref)

\* The EDIT intent writes at once what the message says of the task.
EditIntent(ref) ==
    /\ chat.mode = "idle"
    /\ Rewrite({ref}, LAMBDA r : [r EXCEPT !.dated = TRUE])
    /\ Directly(ref)

\* The Edit button of a card; /edit <id> looks the task up first.
EditButton(ref) ==
    /\ chat' = [chat EXCEPT !.mode = "editing", !.editing = {ref}]
    /\ Tell(Question)
    /\ Quietly
    /\ UNCHANGED <<db, asked, ran, dropped, resets>>

Template(d) == Propose("create", {Plain(d)}, {})
Breakdown(r, D) == Propose("subtasks", {Plain(d) : d \in D}, {RefTo(r)})
Plan(T) == Propose("plan", {}, {RefTo(r) : r \in T})
Photo(D) == Propose("vision", {Plain(d) : d \in D}, {})
ResetTasks == Propose("reset", {}, {})
ResetAll == Propose("nuke", {}, {})

\* vision_save_tasks takes the slot, whatever the state and the photo.
VisionSave ==
    /\ chat.pending.kind = "vision" /\ chat.pending.drafts # {}
    /\ Insert({d \in chat.pending.drafts : ~Exists(d)}, "task", 0)
    /\ ClearState({})
    /\ ran' = [ran EXCEPT ![chat.pending.no] = @ + 1]
    /\ shown' = NoCard
    /\ Quietly
    /\ UNCHANGED <<asked, faults, resets>>

\* The conversation is kept in memory only.
Restart ==
    /\ faults < MaxFaults /\ faults' = faults + 1
    /\ ClearState(Open)
    /\ Quietly
    /\ UNCHANGED <<db, shown, asked, ran, resets>>

-----------------------------------------------------------------------------

Init ==
    /\ chat = Idle /\ shown = NoCard
    /\ tasks = {} /\ nextId = 1 /\ born = 0 /\ seen = {}
    /\ asked = 0 /\ ran = [n \in Prompts |-> 0] /\ dropped = {}
    /\ faults = 0 /\ resets = 0
    /\ last = Silence

Lists == SUBSET Drafts \ {{}}

Message ==
    \/ \E said \in Replies : Reply(said)
    \/ \E d \in Drafts :
         \/ AskCreate(d) \/ AskAmPm(d) \/ AskHabit(d) \/ AskOfflineAdd(d)
         \/ (\E titled \in BOOLEAN : AskMissing(d, titled))
         \/ GatherReply(d) \/ GatherAgain(d)
    \/ \E D \in Lists : AskMultiple(D)
    \/ \E r \in tasks : AskDelete(r) \/ AskOfflineDelete(r)
    \/ \E ref \in seen : EditIntent(ref)
    \/ AskWorker
    \/ (\E t \in Titles : EditReply(t)) \/ EditLeave

Command ==
    \/ Cancel \/ AddTask \/ ResetTasks \/ ResetAll
    \/ \E d \in Drafts : Template(d)
    \/ \E r \in tasks, D \in Lists : Breakdown(r, D)
    \/ \E T \in SUBSET {r \in tasks : ~r.done /\ r.dated} \ {{}} : Plan(T)
    \/ \E D \in Lists : Photo(D)
    \/ \E ref \in seen : DeleteCommand(ref) \/ DoneButton(ref) \/ EditButton(ref)
    \/ VisionSave

Next == Message \/ Command \/ Restart

Spec == Init /\ [][Next]_vars
-----------------------------------------------------------------------------
(* Properties *)

\* The types of the slot, of the table and of the history; ids are unique and
\* the next one is above them all.
TypeOK ==
    /\ chat.mode \in {"idle", "confirming", "gathering", "editing"}
    /\ chat.pending \in Action /\ chat.partial \in Partial /\ chat.editing \subseteq Ref
    /\ tasks \subseteq Row /\ seen \subseteq Ref /\ born \in 0 .. MaxRows
    /\ \A r \in tasks : r.id < nextId /\ \A s \in tasks : r.id = s.id => r = s
    /\ shown \in Card /\ {asked, faults, resets} \subseteq Nat
    /\ ran \in [Prompts -> Nat] /\ dropped \subseteq Prompts
    /\ chat.mode = "confirming" => chat.pending.no > 0

\* Unless a message was refused by Telegram, a yes does what the last message
\* presented, with the same data, whatever commands, buttons, photos and
\* corrections came in between; the actions build_summary shows as an untitled
\* task are left out (README, known divergences).
NoSurprise ==
    faults = 0 /\ last.did.kind \in Described /\ last.shown.kind # "question"
    => last.did = last.shown

\* A confirmation is carried out at most once, and never after it was cancelled
\* or replaced by another, although the message that asks for it and its buttons
\* stay in the chat (conversation_state.clear_state, set_pending_action).
SettledOnce == \A n \in Prompts : ran[n] + (IF n \in dropped THEN 1 ELSE 0) <= 1

\* An id in a button, in the slot or in an edit under way reaches the task it was
\* made for or no task, until a reset starts the ids again.
ReferencesHold == resets = 0 => last.hit \subseteq last.aim
=============================================================================
