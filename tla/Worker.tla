------------------------------- MODULE Worker -------------------------------
(***************************************************************************)
(* One free-text message of the owner: the AI worker's bounded loop of     *)
(* model decisions and tool calls (core/ai/worker.py, tools.py,            *)
(* tool_adapters.py), the confirmation it may end in, and the paths a      *)
(* message falls through to, EntityManager and the legacy bot.  What the   *)
(* tools and the manager share is the question which row a reference       *)
(* means: the typed referents (typed_referents.py), the mentions and the   *)
(* last list of each path (reference_context.py), and the active entity    *)
(* (reference_resolver.py).                                                *)
(*                                                                         *)
(* What the models reply is arbitrary.  Fields, deadlines, progress and    *)
(* wording are left out; topics are in Topics, notes in Knowledge.         *)
(***************************************************************************)
EXTENDS Integers, SequencesExt

CONSTANTS
    Spaces,        \* workspaces
    Names,         \* titles
    Errands,       \* titles of goals and tasks
    Pronounish,    \* titles with a pronoun in their spelling: "Citlali" has "it"
    Within,        \* title -> titles and words that are a part of its spelling
    MaxOf,         \* bound: rows of each kind
    MaxResets,     \* bound: resets of everything
    MaxSaid,       \* bound: messages and commands
    MAX_TOOL_CALLS, MAX_REFERENTS, MAX_RECENT

Kinds == {"entity", "goal", "task"}
Deictic == {"her", "it", "the first one", "the last one"}

ASSUME WorkerSizes ==
    /\ Pronounish \subseteq Names /\ Errands \subseteq Names
    /\ Within \in [Names -> SUBSET (Names \cup Deictic)]
    /\ MaxOf \in [Kinds -> Nat]
    /\ {MaxResets, MaxSaid} \subseteq Nat
    /\ {MAX_TOOL_CALLS, MAX_REFERENTS, MAX_RECENT} \subseteq Nat \ {0}

VARIABLES
    rows,     \* milestones, goals, tasks: <<kind, id>> -> name, space, is, added
    active,   \* tg_active_context
    typed,    \* TypedReferentStore, oldest first
    heard,    \* ReferenceContext of each path: recent mentions, oldest first
    listed,   \* ... and EntityManager's last ordered list
    turn,     \* how far the message is
    asked,    \* the pending worker_confirm
    era,      \* history: resets so far
    said,     \* history: messages and commands so far
    reached   \* history: how the row the last step reached is related to the reference

memory == <<typed, heard, listed>>
past == <<era, said>>
vars == <<rows, active, memory, turn, asked, past, reached>>

Keys == UNION {{<<k, n>> : n \in 1 .. MaxOf[k]} : k \in Kinds}
Refs == {<<"id", n>> : n \in 1 .. MaxOf["entity"]} \cup {<<"name", n>> : n \in Names}
            \cup {<<"word", w>> : w \in Deictic}
Nowhere == [space |-> "none", entity |-> 0, era |-> 0]
Nobody == [tool |-> "none", ref |-> <<"none", 0>>, space |-> "none"]
Idle == [at |-> "idle", calls |-> 0, invalid |-> 0]

Init ==
    /\ rows = <<>>
    /\ active = Nowhere
    /\ typed = <<>>
    /\ heard = [worker |-> <<>>, manager |-> <<>>]
    /\ listed = <<>>
    /\ turn = Idle
    /\ asked = Nobody
    /\ era = 0 /\ said = 0
    /\ reached = "meant"

-----------------------------------------------------------------------------
(* The rows *)

Shown(k) == {n \in 1 .. MaxOf[k] : <<k, n>> \in DOMAIN rows /\ rows[<<k, n>>].is = "open"}
Entities(s) == {n \in Shown("entity") : rows[<<"entity", n>>].space = s}
Title(k, n) == rows[<<k, n>>].name
Titled(k, S, name) == {n \in S : Title(k, n) = name}
Lowest(S) == CHOOSE n \in S : \A m \in S : n <= m
NextId(k) == 1 + Cardinality({key \in DOMAIN rows : key[1] = k})

Adds(k, name, s, added) ==
    /\ NextId(k) <= MaxOf[k]
    /\ LET new == <<k, NextId(k)>>
           row == [name |-> name, space |-> s, is |-> "open", added |-> added]
       IN rows' = [key \in DOMAIN rows \cup {new} |-> IF key = new THEN row ELSE rows[key]]
Becomes(k, n, state) == rows' = [rows EXCEPT ![<<k, n>>].is = state]

-----------------------------------------------------------------------------
(* TypedReferentStore *)

\* mutant: one too many
Latest_OneMore(max, list) == IF Len(list) > max + 1 THEN Tail(list) ELSE list

Latest(max, list) == IF Len(list) > max THEN SubSeq(list, Len(list) - max + 1, Len(list)) ELSE list

\* the members of a list that are in S, in their order
Kept(list, S) ==
    LET f[i \in 0 .. Len(list)] ==
            IF i = 0 THEN <<>> ELSE IF list[i] \in S THEN Append(f[i - 1], list[i]) ELSE f[i - 1]
    IN f[Len(list)]

\* rows by id
Ascending(k, S) == Kept([n \in 1 .. MaxOf[k] |-> n], S)

Note(list, k, n, name) ==
    Latest(MAX_REFERENTS, Append(Kept(list, {r \in Range(list) : r.kind # k \/ r.id # n}),
                                 [kind |-> k, id |-> n, name |-> name, era |-> era]))
NoteAll(list, k, order) ==
    LET f[i \in 0 .. Len(order)] ==
            IF i = 0 THEN list ELSE Note(f[i - 1], k, order[i], Title(k, order[i]))
    IN f[Len(order)]

\* the pronouns are looked for as substrings
HoldsPronoun(ref) == ref[1] = "word" \/ (ref[1] = "name" /\ ref[2] \in Pronounish)

NoReferent == [kind |-> "none", id |-> 0, name |-> "none", era |-> 0]

\* mutant: a pronoun is looked up in the kind of the tool
Resolve_OwnKind(ref, k) ==
    LET of == {i \in DOMAIN typed : typed[i].kind = k}
        named == {i \in of : ref \in {<<"id", typed[i].id>>, <<"name", typed[i].name>>}}
    IN IF named # {} THEN typed[Max(named)]
       ELSE IF of # {} /\ HoldsPronoun(ref) THEN typed[Max(of)] ELSE NoReferent

\* the last referent of this id or title, or for a pronoun the one noted last:
\* when that is of another kind than the tool's, it is a conflict
Resolve(ref, k) ==
    LET named == {i \in DOMAIN typed :
                     typed[i].kind = k /\ ref \in {<<"id", typed[i].id>>, <<"name", typed[i].name>>}}
    IN IF named # {} THEN typed[Max(named)]
       ELSE IF typed # <<>> /\ HoldsPronoun(ref) THEN Last(typed) ELSE NoReferent

-----------------------------------------------------------------------------
(* ReferenceResolver over a ReferenceContext *)

Mention(list, n, s) ==
    Latest(MAX_RECENT, Append(Kept(list, {r \in Range(list) : r.id # n}), [id |-> n, space |-> s, era |-> era]))
MentionAll(list, order, s) ==
    LET f[i \in 0 .. Len(order)] == IF i = 0 THEN list ELSE Mention(f[i - 1], order[i], s)
    IN f[Len(order)]

Found(n, e) == [is |-> "entity", id |-> n, era |-> e]
Lost(how) == [is |-> how, id |-> 0, era |-> 0]

\* an ordinal counts in the last list; "last" needs two rows
Ordinal(who, word, s) ==
    LET list == SelectSeq(IF who = "manager" THEN listed ELSE <<>>, LAMBDA r : r.space = s)
        at == IF word = "the first one" THEN 1 ELSE Len(list)
    IN IF (IF word = "the first one" THEN 0 ELSE 1) < Len(list) /\ list[at].id \in Entities(s)
       THEN Found(list[at].id, list[at].era) ELSE Lost("none")

\* the active entity, and only when there is none the one entity mentioned
Pronoun(who, s) ==
    LET recent == SelectSeq(heard[who], LAMBDA r : r.space = s)
    IN IF active.entity # 0
       THEN IF active.entity \in Entities(s) THEN Found(active.entity, active.era) ELSE Lost("stale")
       ELSE IF Len(recent) > 1 THEN Lost("ambiguous")
       ELSE IF Len(recent) = 1 /\ recent[1].id \in Entities(s) THEN Found(recent[1].id, recent[1].era)
       ELSE Lost("none")

\* "it" and "this" count only beside a word that signals an entity
Reference(who, word, signal, s) ==
    IF word \in {"the first one", "the last one"} THEN Ordinal(who, word, s)
    ELSE IF word = "her" \/ (word = "it" /\ signal) THEN Pronoun(who, s)
    ELSE Lost("none")

-----------------------------------------------------------------------------
(* _EntityTool: the row a reference means to a tool *)

NameMatch(ref, s) ==
    LET exact == Titled("entity", Entities(s), ref[2])
        part == {n \in Entities(s) : ref[2] \in Within[Title("entity", n)]}
    IN IF ref[1] = "id" THEN (IF ref[2] \in Entities(s) THEN ref[2] ELSE 0)
       ELSE IF exact # {} THEN Lowest(exact)
       ELSE IF Cardinality(part) = 1 THEN Lowest(part) ELSE 0

\* typed referents first, then the resolver, then the titles
ResolveEntity(ref, s) ==
    LET t == Resolve(ref, "entity")
        m == IF ref[1] = "word" THEN Reference("worker", ref[2], FALSE, s) ELSE Lost("none")
    IN IF t.kind \notin {"none", "entity"} THEN Lost("conflict")
       ELSE IF t.kind = "entity" /\ t.id \in Entities(s) THEN Found(t.id, t.era)
       ELSE IF m.is = "entity" THEN m
       ELSE IF NameMatch(ref, s) # 0 THEN Found(NameMatch(ref, s), era) ELSE Lost("none")

\* _resolve_goal
ResolveGoal(ref) ==
    LET t == Resolve(ref, "goal")
        exact == IF ref[1] = "name" THEN Titled("goal", Shown("goal"), ref[2]) ELSE {}
    IN IF t.kind \notin {"none", "goal"} THEN Lost("conflict")
       ELSE IF t.kind = "goal" THEN Found(t.id, t.era)
       ELSE IF ref[1] = "id" /\ ref[2] \in Shown("goal") THEN Found(ref[2], era)
       ELSE IF Cardinality(exact) = 1 THEN Found(Lowest(exact), era) ELSE Lost("none")

-----------------------------------------------------------------------------
(* What a reference may mean, stated without the steps that look for it *)

\* a title means rows of that title when there are any, and otherwise rows whose
\* title it is a part of or that are a part of it
NameFits(k, S, name, n) ==
    \/ Title(k, n) = name
    \/ /\ Titled(k, S, name) = {}
       /\ name \in Within[Title(k, n)] \/ Title(k, n) \in Within[name]

\* a pronoun means what was touched last, of whatever kind, while that is in sight
WordFits(k, S, n) ==
    typed = <<>> \/ LET t == Last(typed) IN t.kind = k /\ (t.id \in S => t.id = n)

Unjudged == reached' = "meant"

\* A referent noted before a reset is excused: the ids have started again.  A
\* done goal is noted as "goal" and its id, which may be the title of another.
Judged(k, S, ref, found) ==
    reached' = IF \/ found.era # era
                  \/ ref[1] = "id" /\ ref[2] = found.id
                  \/ ref[1] = "name" /\ NameFits(k, S, ref[2], found.id)
                  \/ ref[1] = "word" /\ WordFits(k, S, found.id) THEN "meant"
               ELSE IF HoldsPronoun(ref) /\ WordFits(k, S, found.id) THEN "pronoun"
               ELSE IF k = "goal" /\ ref = <<"name", "goal">> THEN "untitled" ELSE "other"

-----------------------------------------------------------------------------
(* Worker._loop: decisions *)

Calls == turn.at = "worker" /\ turn.calls < MAX_TOOL_CALLS

Counted(n) == turn' = [turn EXCEPT !.calls = @ + 1, !.invalid = n]

\* a tool that was called and reports ok
Succeeds == Calls /\ Counted(0)
GoesTo(at) == turn' = [Idle EXCEPT !.at = at]

\* the owner is heard when no message is being handled
Says == turn.at = "idle" /\ said < MaxSaid /\ said' = said + 1

\* Free text with no answer due.  Only the owner's, with the flag on, goes to
\* the worker.
StartMessage ==
    /\ Says /\ asked = Nobody
    /\ GoesTo("worker") \/ GoesTo("manager")
    /\ UNCHANGED <<rows, active, memory, asked, era>> /\ Unjudged

\* FINAL, or once the budget is spent whatever the last call brings
Final ==
    /\ turn.at = "worker" /\ turn' = Idle
    /\ UNCHANGED <<rows, active, memory, asked, past>> /\ Unjudged

\* DECLINE, a time-out, an error, an empty or malformed reply, an unknown tool,
\* a tool that fails: not handled, whatever the steps before have done
Unhandled ==
    /\ Calls /\ GoesTo("manager")
    /\ UNCHANGED <<rows, active, memory, asked, past>> /\ Unjudged

\* arguments a tool refuses; the second time running ends the run
InvalidArgs ==
    /\ Calls
    /\ IF turn.invalid = 1 THEN GoesTo("manager") ELSE Counted(1)
    /\ UNCHANGED <<rows, active, memory, asked, past>> /\ Unjudged

\* tools whose effects are elsewhere: list_tasks, list_habits, create_habit,
\* complete_habit, the memories, recall, the readers of workspaces and topics
Elsewhere ==
    /\ Succeeds
    /\ UNCHANGED <<rows, active, memory, asked, past>> /\ Unjudged

-----------------------------------------------------------------------------
(* Tools of tasks and goals *)

NotesTyped(k, n, name) == typed' = Note(typed, k, n, name) /\ UNCHANGED <<heard, listed>>
Lists(k, order) == typed' = NoteAll(typed, k, order) /\ UNCHANGED <<heard, listed>>
Orders(S) == {o \in SeqOf(S, Cardinality(S)) : o # <<>> /\ IsInjective(o)}

FindTask(order) ==
    /\ Succeeds /\ Lists("task", order)
    /\ UNCHANGED <<rows, active, asked, past>> /\ Unjudged

CreateTask(name) ==
    /\ Succeeds /\ Adds("task", name, "none", FALSE)
    /\ NotesTyped("task", NextId("task"), name)
    /\ UNCHANGED <<active, asked, past>> /\ Unjudged

\* by id, done or not; the referent keeps the title from before the change
UpdateTask(n, name) ==
    /\ Succeeds
    /\ rows[<<"task", n>>].is # "gone"
    /\ rows' = [rows EXCEPT ![<<"task", n>>].name = name]
    /\ NotesTyped("task", n, Title("task", n))
    /\ UNCHANGED <<active, asked, past>> /\ Unjudged

CompleteTask(n) ==
    /\ Succeeds
    /\ rows[<<"task", n>>].is # "gone"
    /\ Becomes("task", n, "done")
    /\ NotesTyped("task", n, Title("task", n))
    /\ UNCHANGED <<active, asked, past>> /\ Unjudged

CreateGoal(name) ==
    /\ Succeeds /\ Adds("goal", name, "none", FALSE)
    /\ NotesTyped("goal", NextId("goal"), name)
    /\ UNCHANGED <<active, asked, past>> /\ Unjudged

\* newest first, so that the oldest is noted last
ListGoals ==
    /\ Succeeds /\ Lists("goal", Reverse(Ascending("goal", Shown("goal"))))
    /\ UNCHANGED <<rows, active, asked, past>> /\ Unjudged

\* done goals too, which the list that gives the title leaves out
UpdateGoalProgress(n, state) ==
    /\ Succeeds
    /\ Becomes("goal", n, state)
    /\ NotesTyped("goal", n, IF n \in Shown("goal") THEN Title("goal", n) ELSE "goal")
    /\ UNCHANGED <<active, asked, past>> /\ Unjudged

UpdateGoalDeadline(ref) ==
    LET g == ResolveGoal(ref)
        name == IF Resolve(ref, "goal").kind = "goal" THEN Resolve(ref, "goal").name ELSE Title("goal", g.id)
    IN /\ Succeeds
       /\ g.is = "entity" /\ <<"goal", g.id>> \in DOMAIN rows
       /\ Judged("goal", Shown("goal"), ref, g)
       /\ NotesTyped("goal", g.id, name)
       /\ UNCHANGED <<rows, active, asked, past>>

-----------------------------------------------------------------------------
(* Tools of workspaces and entities.  A workspace that is not given is the   *)
(* active one, and so for most tools is one that is not found.               *)

NotesMention(n, s, name) ==
    /\ heard' = [heard EXCEPT !.worker = Mention(@, n, s)]
    /\ typed' = Note(typed, "entity", n, name)
    /\ UNCHANGED listed
Activates(n, s) == active' = [space |-> s, entity |-> n, era |-> era]

\* open_workspace, close_workspace and create_workspace, which opens the new one
OpenSpace(s) ==
    /\ Succeeds
    /\ active' = [Nowhere EXCEPT !.space = s]
    /\ UNCHANGED <<rows, memory, asked, past>> /\ Unjudged

\* a name that is taken is refused, or its row takes the new kind
CreateEntity(name, s) ==
    /\ Titled("entity", Entities(s), name) = {}
    /\ Succeeds /\ Adds("entity", name, s, FALSE)
    /\ Activates(NextId("entity"), s)
    /\ NotesMention(NextId("entity"), s, name)
    /\ UNCHANGED <<asked, past>> /\ Unjudged

AdoptEntity(name, s) ==
    LET S == Titled("entity", Entities(s), name)
    IN /\ Succeeds /\ S # {}
       /\ NotesMention(Lowest(S), s, name)
       /\ UNCHANGED <<rows, active, asked, past>> /\ Unjudged

\* Telegram refuses the topic: the row stays, and the message goes on
CreateEntityBroken(name, s) ==
    /\ Calls /\ Titled("entity", Entities(s), name) = {}
    /\ Adds("entity", name, s, FALSE)
    /\ GoesTo("manager")
    /\ UNCHANGED <<active, memory, asked, past>> /\ Unjudged

GetEntity(ref, s) ==
    LET m == ResolveEntity(ref, s)
    IN /\ Succeeds /\ m.is = "entity"
       /\ Judged("entity", Entities(s), ref, m)
       /\ NotesMention(m.id, s, Title("entity", m.id))
       /\ UNCHANGED <<rows, active, asked, past>>

UpdateEntity(ref, s) ==
    LET m == ResolveEntity(ref, s)
    IN /\ Succeeds /\ m.is = "entity"
       /\ Judged("entity", Entities(s), ref, m)
       /\ Activates(m.id, s) /\ NotesMention(m.id, s, Title("entity", m.id))
       /\ UNCHANGED <<rows, asked, past>>

\* ensure_entity_topic, get_entity_topic, set_entity_topic_locked
TopicOf(ref, s) ==
    LET m == ResolveEntity(ref, s)
    IN /\ Succeeds /\ m.is = "entity"
       /\ Judged("entity", Entities(s), ref, m)
       /\ UNCHANGED <<rows, active, memory, asked, past>>

\* list_entities of one kind, and list_entity_topics
ListEntities(s) ==
    /\ Succeeds /\ Lists("entity", Ascending("entity", Entities(s)))
    /\ UNCHANGED <<rows, active, asked, past>> /\ Unjudged

\* by the words they share, most first
FindEntity(order) ==
    /\ Succeeds /\ Lists("entity", order)
    /\ UNCHANGED <<rows, active, asked, past>> /\ Unjudged

ListAll(s) ==
    /\ Succeeds
    /\ typed' = LET e == NoteAll(typed, "entity", Ascending("entity", Entities(s)))
                    g == NoteAll(e, "goal", Reverse(Ascending("goal", Shown("goal"))))
                IN NoteAll(g, "task", Ascending("task", Shown("task")))
    /\ UNCHANGED <<rows, active, heard, listed, asked, past>> /\ Unjudged

-----------------------------------------------------------------------------
(* Tools that destroy *)

\* mutant: the risk of a tool is not declared
Gated_Tasks == {"delete_entity", "delete_entity_topic"}

\* RiskLevel.DESTRUCTIVE; archive_workspace changes nothing kept here
Gated == {"delete_task", "delete_entity", "delete_entity_topic"}

\* a space of "none" is the active one, at the time the tool runs
SpaceOf(s) == IF s = "none" THEN active.space ELSE s

\* What the tool does with the reference as it is then.  An entity is looked for
\* by title and id only; the slot of an active entity is emptied.
Runs(tool, ref, s) ==
    LET strict == NameMatch(ref, SpaceOf(s))
        m == ResolveEntity(ref, SpaceOf(s))
    IN CASE tool = "delete_task" /\ ref[1] = "id" /\ <<"task", ref[2]>> \in DOMAIN rows ->
              Becomes("task", ref[2], "gone") /\ UNCHANGED <<active>> /\ Unjudged
         [] tool = "delete_entity" /\ strict # 0 ->
              /\ Becomes("entity", strict, "gone")
              /\ active' = IF active.entity = strict THEN [active EXCEPT !.entity = 0, !.era = 0] ELSE active
              /\ Unjudged
         [] tool = "delete_entity_topic" /\ m.is = "entity" ->
              Judged("entity", Entities(SpaceOf(s)), ref, m) /\ UNCHANGED <<rows, active>>
         [] OTHER -> UNCHANGED <<rows, active>> /\ Unjudged

\* The gate stops the run before the tool is called and stores the call.
CallGated(tool, ref, s) ==
    /\ Calls
    /\ IF tool \in Gated
       THEN /\ asked' = [tool |-> tool, ref |-> ref, space |-> s]
            /\ turn' = Idle
            /\ UNCHANGED <<rows, active>> /\ Unjudged
       ELSE Runs(tool, ref, s) /\ Counted(0) /\ UNCHANGED asked
    /\ UNCHANGED <<memory, past>>

Yes ==
    /\ asked # Nobody /\ turn.at = "idle"
    /\ Runs(asked.tool, asked.ref, asked.space)
    /\ asked' = Nobody
    /\ UNCHANGED <<memory, turn, past>>

\* a no, or a command that clears the dialogue
No ==
    /\ asked # Nobody /\ turn.at = "idle"
    /\ asked' = Nobody
    /\ UNCHANGED <<rows, active, memory, turn, past>> /\ Unjudged

-----------------------------------------------------------------------------
(* EntityManager.process, in the active workspace *)

\* what the message refers to; a pointer to no visible entity is cleared
Referred(word, signal) ==
    IF word = "none" THEN Lost("none") ELSE Reference("manager", word, signal, active.space)
ClearsStale(m) == active' = IF m.is = "stale" THEN Nowhere ELSE active

Manages == turn.at = "manager" /\ active.space # "none"
Here == Entities(active.space)

MentionsOne(n) == heard' = [heard EXCEPT !.manager = Mention(@, n, active.space)]
Shows(n) == Activates(n, active.space) /\ MentionsOne(n) /\ UNCHANGED <<typed, listed>>

\* no workspace, no sign of an entity, a model that fails or knows no intent
PassesOn(word, signal) ==
    LET m == IF active.space = "none" THEN Lost("none") ELSE Referred(word, signal)
    IN /\ turn.at = "manager" /\ m.is # "ambiguous"
       /\ GoesTo("legacy") /\ ClearsStale(m)
       /\ UNCHANGED <<rows, memory, asked, past>> /\ Unjudged

\* A question back, or a reply that changes nothing here: which one is meant,
\* which goal, what to change, a name that is taken, a name that is not found.
\* A deadline is the goals' and goes to no entity.
Replies(word, signal) ==
    /\ Manages
    /\ turn' = Idle /\ ClearsStale(Referred(word, signal))
    /\ UNCHANGED <<rows, memory, asked, past>> /\ Unjudged

\* "show her", and a retrieval of what the message refers to
ShowReferred(word, signal) ==
    LET m == Referred(word, signal)
    IN /\ Manages /\ m.is = "entity"
       /\ Shows(m.id)
       /\ turn' = Idle
       /\ UNCHANGED <<rows, asked, past>> /\ Unjudged

\* _find_entity: the title, then a title within the name, then the name within one
FindByName(name) ==
    LET exact == Titled("entity", Here, name)
        inside == {n \in Here : Title("entity", n) \in Within[name]}
        around == {n \in Here : name \in Within[Title("entity", n)]}
    IN IF exact # {} THEN Lowest(exact) ELSE IF inside # {} THEN Lowest(inside)
       ELSE IF around # {} THEN Lowest(around) ELSE 0

JudgedByName(name, n) ==
    reached' = IF NameFits("entity", Here, name, n) THEN "meant" ELSE "other"

RetrieveNamed(name) ==
    /\ Manages /\ FindByName(name) # 0
    /\ Shows(FindByName(name)) /\ JudgedByName(name, FindByName(name))
    /\ turn' = Idle
    /\ UNCHANGED <<rows, asked, past>>

\* a filter's matches, best first, or the whole list
RetrieveList(order, word, signal) ==
    /\ Manages /\ Referred(word, signal).is \in {"none", "stale"}
    /\ ClearsStale(Referred(word, signal))
    /\ listed' = [i \in DOMAIN order |-> [id |-> order[i], space |-> active.space, era |-> era]]
    /\ heard' = [heard EXCEPT !.manager = MentionAll(@, order, active.space)]
    /\ turn' = Idle
    /\ UNCHANGED <<rows, typed, asked, past>> /\ Unjudged

\* mutant: a name that is not found means the active entity
UpdateTarget_Active(name, m) ==
    IF FindByName(name) # 0 THEN FindByName(name) ELSE m.id

\* only without a name is the referent the target
UpdateTarget(name, m) == FindByName(name)

UpdateNamed(name, word, signal) ==
    LET n == UpdateTarget(name, Referred(word, signal))
    IN /\ Manages /\ Referred(word, signal).is # "ambiguous" /\ n # 0
       /\ Shows(n) /\ JudgedByName(name, n)
       /\ turn' = Idle
       /\ UNCHANGED <<rows, asked, past>>

\* "set her level to 90": the model leaves the name out, and _try_extract_update
\* gives the title of the referent, of which the first row is taken
UpdateReferred(word, signal, byTitle) ==
    LET m == Referred(word, signal)
        n == IF byTitle THEN FindByName(Title("entity", m.id)) ELSE m.id
    IN /\ Manages /\ m.is = "entity"
       /\ Shows(n)
       /\ reached' = IF n = m.id THEN "meant" ELSE IF Title("entity", n) = Title("entity", m.id) THEN "twin" ELSE "other"
       /\ turn' = Idle
       /\ UNCHANGED <<rows, asked, past>>

\* mutant: names are not compared
CreateInWords_Twice(name) ==
    /\ Manages
    /\ Adds("entity", name, active.space, FALSE)
    /\ Shows(NextId("entity"))
    /\ turn' = Idle
    /\ UNCHANGED <<asked, past>> /\ Unjudged

CreateInWords(name) ==
    /\ Manages /\ Titled("entity", Here, name) = {}
    /\ Adds("entity", name, active.space, FALSE)
    /\ Shows(NextId("entity"))
    /\ turn' = Idle
    /\ UNCHANGED <<asked, past>> /\ Unjudged

\* the rest of the bot answers
Legacy ==
    /\ turn.at = "legacy" /\ turn' = Idle
    /\ UNCHANGED <<rows, active, memory, asked, past>> /\ Unjudged

-----------------------------------------------------------------------------
(* Between messages *)

\* /add takes any name, also while a confirmation is pending
AddCommand(name) ==
    /\ Says /\ active.space # "none"
    /\ Adds("entity", name, active.space, TRUE)
    /\ Activates(NextId("entity"), active.space)
    /\ UNCHANGED <<memory, turn, asked, era>> /\ Unjudged

\* /use, /entity
UseCommand(s, n) ==
    /\ Says /\ n \in Entities(s) \cup {0}
    /\ active' = [space |-> s, entity |-> n, era |-> IF n = 0 THEN 0 ELSE era]
    /\ UNCHANGED <<rows, memory, turn, asked, era>> /\ Unjudged

\* The tables of the rows are emptied and number again from one; the active context and
\* what the process remembers stay.  The workspaces are taken to be made again at once.
Reset ==
    /\ turn.at = "idle" /\ era < MaxResets
    /\ rows' = <<>> /\ era' = era + 1
    /\ UNCHANGED <<active, said, memory, turn, asked>> /\ Unjudged

Restart ==
    /\ typed' = <<>> /\ heard' = [worker |-> <<>>, manager |-> <<>>] /\ listed' = <<>>
    /\ turn' = Idle /\ asked' = Nobody
    /\ UNCHANGED <<rows, active, past>> /\ Unjudged

-----------------------------------------------------------------------------

Words == Deictic \cup {"none"}

Tool ==
    /\ Calls
    /\ \/ InvalidArgs \/ Elsewhere \/ ListGoals
       \/ \E o \in Orders(Shown("task")) : FindTask(o)
       \/ \E name \in Errands : CreateTask(name) \/ CreateGoal(name)
       \/ \E key \in DOMAIN rows : key[1] = "task" /\
            (CompleteTask(key[2]) \/ \E name \in Errands : UpdateTask(key[2], name))
       \/ \E key \in DOMAIN rows, state \in {"open", "done"} :
            key[1] = "goal" /\ UpdateGoalProgress(key[2], state)
       \/ \E ref \in Refs : UpdateGoalDeadline(ref)
       \/ \E s \in Spaces : OpenSpace(s) \/ ListEntities(s) \/ ListAll(s)
       \/ OpenSpace("none")
       \/ \E s \in Spaces : \E o \in Orders(Entities(s)) : FindEntity(o)
       \/ \E name \in Names, s \in Spaces :
            CreateEntity(name, s) \/ AdoptEntity(name, s) \/ CreateEntityBroken(name, s)
       \/ \E ref \in Refs, s \in Spaces : GetEntity(ref, s) \/ UpdateEntity(ref, s) \/ TopicOf(ref, s)
       \/ \E tool \in {"delete_task", "delete_entity", "delete_entity_topic"}, ref \in Refs,
            s \in Spaces \cup {"none"} : CallGated(tool, ref, s)

Manager ==
    /\ turn.at = "manager"
    /\ \E word \in Words, signal \in BOOLEAN :
           \/ PassesOn(word, signal) \/ Replies(word, signal) \/ ShowReferred(word, signal)
           \/ \E byTitle \in BOOLEAN : UpdateReferred(word, signal, byTitle)
           \/ \E name \in Names : UpdateNamed(name, word, signal)
           \/ \E o \in Orders(Here) : RetrieveList(o, word, signal)

ManagerNamed == \E name \in Names : RetrieveNamed(name) \/ CreateInWords(name)

InTurn == Final \/ Unhandled \/ Tool \/ Manager \/ ManagerNamed \/ Legacy

Between ==
    \/ StartMessage \/ Yes \/ No \/ Reset \/ Restart
    \/ \E name \in Names : AddCommand(name)
    \/ \E s \in Spaces, n \in 0 .. MaxOf["entity"] : UseCommand(s, n)

Next == InTurn \/ Between

Spec == Init /\ [][Next]_vars

-----------------------------------------------------------------------------
(* Properties *)

Referents == [kind : Kinds, id : Nat, name : Names \cup {"goal"}, era : 0 .. MaxResets]
Mentions == [id : 1 .. MaxOf["entity"], space : Spaces, era : 0 .. MaxResets]

\* The variables hold what the tables and the process can hold, and every
\* memory keeps to its size.
TypeOK ==
    /\ DOMAIN rows \subseteq Keys
    /\ \A key \in DOMAIN rows :
         rows[key] \in [name : Names, space : Spaces \cup {"none"}, is : {"open", "done", "gone"}, added : BOOLEAN]
    /\ active \in [space : Spaces \cup {"none"}, entity : 0 .. MaxOf["entity"], era : 0 .. MaxResets]
    /\ typed \in Seq(Referents) /\ Len(typed) <= MAX_REFERENTS
    /\ heard \in [{"worker", "manager"} -> Seq(Mentions)]
    /\ \A who \in {"worker", "manager"} : Len(heard[who]) <= MAX_RECENT
    /\ listed \in Seq(Mentions)
    /\ turn \in [at : {"idle", "worker", "manager", "legacy"}, calls : 0 .. MAX_TOOL_CALLS, invalid : 0 .. 1]
    /\ asked = Nobody \/ asked \in [tool : Gated, ref : Refs, space : Spaces \cup {"none"}]
    /\ era \in 0 .. MaxResets /\ said \in 0 .. MaxSaid
    /\ reached \in {"meant", "pronoun", "untitled", "twin", "other"}

\* What a tool or the manager reaches is what the reference means: the row of
\* that id or title, or for a pronoun the row that was touched last, and never
\* one of another kind, nor the active entity for a name that is not found
\* (typed_referents.py, _handle_update).  Told apart are a name spelt with a
\* pronoun in it, "pronoun", and the number of a done goal that is the title of
\* another, "untitled" (README, known divergences).
ReferencesMeet == reached # "other"

\* Two visible entities of one workspace share a title only when /add made the
\* later one: neither the tools nor the manager add a name twice, in whatever
\* order a message reaches both of them.  The chat orchestrator, which takes a text
\* before either, is not in this module: its ADD_MILESTONE adds without a look.
OneRowPerName ==
    \A s \in Spaces : \A m, n \in Entities(s) :
        m < n /\ Title("entity", m) = Title("entity", n) => rows[<<"entity", n>>].added

\* A row is destroyed only by a yes to the question that was asked for that
\* tool, and never while a model decides (Worker._loop).
GateHolds ==
    [][\A key \in DOMAIN rows \cap DOMAIN rows' :
         rows'[key].is = "gone" /\ rows[key].is # "gone" =>
             /\ turn.at = "idle" /\ asked' = Nobody
             /\ asked.tool = IF key[1] = "task" THEN "delete_task" ELSE "delete_entity"]_vars

=============================================================================
