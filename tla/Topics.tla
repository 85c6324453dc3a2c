------------------------------- MODULE Topics -------------------------------
(***************************************************************************)
(* Workspaces, their entities (milestones) and the forum topics that       *)
(* mirror them: core/workspace/groups_app.py, adapters/projection.py, the  *)
(* entity and topic tools of core/ai/tool_adapters.py, the orchestrator,   *)
(* and the tg_ tables of database.py.                                      *)
(*                                                                         *)
(* One user, whose updates are handled one after the other.  A handler is  *)
(* a list of steps, each a transaction of its own or a call to Telegram:   *)
(* a crash, an error or a refusal falls between any two.  The messages     *)
(* posted into a topic change no state and are left out.                   *)
(***************************************************************************)
EXTENDS Integers, FiniteSets, SequencesExt

CONSTANTS
    Chats, Names,
    Seeds,          \* default_milestones of a template
    MaxWorkspaces,  \* bound: workspaces between two resets
    MaxEntities,    \* bound: entities ever created
    MaxTopics,      \* bound: topics ever created
    MaxFaults,      \* bound: slips (crashes, time-outs, database errors) and hands
                    \* (topics the owner deletes in Telegram) together
    MaxResets       \* bound: uses of "reset everything"

ASSUME TopicSizes ==
    /\ Seeds \in Seq(Names)
    /\ {MaxWorkspaces, MaxEntities, MaxTopics, MaxFaults, MaxResets}
         \subseteq Nat

VARIABLES
    workspaces,      \* id -> status; "shelved" is done or archived
    entities,        \* milestones: id -> row
    nextWs, nextEnt, \* sqlite_sequence of the two tables
    group,           \* tg_workspace_bindings: workspace id -> chat
    bound,           \* tg_entity_topics: entity id -> topic and lock
    active,          \* tg_active_context
    handler,         \* what is being handled, or was last, and the steps left
    forum,           \* Telegram: topic -> its chat, the entity it was made for
    born,            \* entities created so far: the number outlives the id
    slips, hands, resets

rows == <<workspaces, entities, nextWs, nextEnt>>
links == <<group, bound>>
faults == <<slips, hands, resets>>
vars == <<rows, links, active, handler, forum, born, faults>>

None == 0
EntityIds == 1 .. MaxEntities
TopicIds == 1 .. MaxTopics
WsIds == 1 .. MaxWorkspaces

Milestone == [ws : WsIds, name : Names, order : Nat, birth : EntityIds,
              gone : {"no", "archived", "dropped", "deleted"}]

\* INSERT, and INSERT OR REPLACE: the row of a key
Put(table, key, row) == [k \in DOMAIN table \cup {key} |-> IF k = key THEN row ELSE table[k]]

-----------------------------------------------------------------------------
(* Steps of a handler *)

Seed(w, n) == [do |-> "seed", ws |-> w, name |-> n, quiet |-> FALSE]
Step(do, w, e) == [do |-> do, ws |-> w, ent |-> e, quiet |-> FALSE]
\* inside a try: an exception is logged and the handler goes on
Quietly(do, w, e) == [Step(do, w, e) EXCEPT !.quiet = TRUE]

Idle == handler.todo = <<>>

Begin(doing, steps) ==
    /\ Idle
    /\ handler' = [doing |-> doing, todo |-> steps]

Next1 == Head(handler.todo)
At(do) == ~Idle /\ Next1.do = do
Advance == handler' = [handler EXCEPT !.todo = Tail(@)]

\* An exception: swallowed where the call is guarded, else the handler ends.
\* A repair that met one is "repair" no longer.
Raise ==
    handler' = [doing |-> "other", todo |-> IF Next1.quiet THEN Tail(handler.todo) ELSE <<>>]

-----------------------------------------------------------------------------
(* Queries *)

\* list_milestones
Shown(w) == {e \in DOMAIN entities : entities[e].ws = w /\ entities[e].gone = "no"}
AllShown == UNION {Shown(w) : w \in DOMAIN workspaces}

\* ORDER BY sort_order ASC, id ASC
Before(e, f) ==
    \/ entities[e].order < entities[f].order
    \/ entities[e].order = entities[f].order /\ e < f

Namesakes(w, n) == {e \in Shown(w) : entities[e].name = n}

\* the first row of each name
Canonical(w) == {e \in Shown(w) :
                   \A f \in Namesakes(w, entities[e].name) \ {e} : Before(e, f)}

\* mutant: the lookup misses the row
HasTopic_Never(e) == FALSE

HasTopic(e) == e \in DOMAIN bound

\* mutant: only the workspace in use
Mirrored_Current == {w \in DOMAIN workspaces : w = active.ws /\ w \in DOMAIN group}

\* the workspaces that backfill and repair visit
Mirrored == {w \in DOMAIN workspaces : workspaces[w] = "active" /\ w \in DOMAIN group}

BirthOf(e) == IF e \in DOMAIN entities THEN entities[e].birth ELSE None

-----------------------------------------------------------------------------

Init ==
    /\ workspaces = <<>> /\ entities = <<>> /\ nextWs = 1 /\ nextEnt = 1
    /\ group = <<>> /\ bound = <<>> /\ forum = <<>>
    /\ active = [ws |-> None, ent |-> None]
    /\ handler = [doing |-> "other", todo |-> <<>>]
    /\ born = 0 /\ slips = 0 /\ hands = 0 /\ resets = 0

\* mutant: the sequence stays where it is
Insert_SameId(w, n) ==
    /\ born < MaxEntities
    /\ entities' = Put(entities, nextEnt, [ws |-> w, name |-> n, order |-> Cardinality(Shown(w)),
                                           birth |-> born + 1, gone |-> "no"])
    /\ born' = born + 1
    /\ UNCHANGED <<workspaces, nextWs, nextEnt>>

Insert(w, n) ==
    /\ born < MaxEntities
    /\ entities' = Put(entities, nextEnt, [ws |-> w, name |-> n, order |-> Cardinality(Shown(w)),
                                           birth |-> born + 1, gone |-> "no"])
    /\ nextEnt' = nextEnt + 1
    /\ born' = born + 1
    /\ UNCHANGED <<workspaces, nextWs>>

-----------------------------------------------------------------------------
(* Creation *)

\* /newproject and the tool open the workspace, the orchestrator does not.
NewWorkspace(seeds, opens) ==
    /\ nextWs <= MaxWorkspaces /\ born + Len(seeds) <= MaxEntities
    /\ Begin("other", [i \in DOMAIN seeds |-> Seed(nextWs, seeds[i])]
                        \o (IF opens THEN <<Step("activate", nextWs, None)>> ELSE <<>>))
    /\ workspaces' = Put(workspaces, nextWs, "active")
    /\ nextWs' = nextWs + 1
    /\ UNCHANGED <<entities, nextEnt, links, active, forum, born, faults>>

\* /add takes any name in the open workspace; create_entity any workspace, but
\* no name twice.  A refused topic leaves the new row, which is not opened.
AddEntity(w, n) ==
    /\ w = active.ws \/ Namesakes(w, n) = {}
    /\ Begin("other", <<Step("ensure", w, nextEnt), Step("activate", w, nextEnt)>>)
    /\ Insert(w, n)
    /\ UNCHANGED <<links, active, forum, faults>>

\* in words: opened first, and the topic is only tried
NLCreate(n) ==
    /\ active.ws \in DOMAIN workspaces /\ Namesakes(active.ws, n) = {}
    /\ Begin("other", <<Step("activate", active.ws, nextEnt),
                        Quietly("ensure", active.ws, nextEnt)>>)
    /\ Insert(active.ws, n)
    /\ UNCHANGED <<links, active, forum, faults>>

\* the orchestrator's add: a row and nothing else
AddMilestone(w, n) ==
    /\ Begin("other", <<>>)
    /\ Insert(w, n)
    /\ UNCHANGED <<links, active, forum, faults>>

-----------------------------------------------------------------------------
(* Handlers that only make steps *)

Handle(doing, steps) ==
    /\ Begin(doing, steps)
    /\ UNCHANGED <<rows, links, active, forum, born, faults>>

\* create_entity under a name that exists with another kind
AdoptKind(e) == Handle("other", <<Quietly("ensure", entities[e].ws, e)>>)

UpdateEntity(e) ==
    Handle("other", <<Step("activate", entities[e].ws, e), Quietly("ensure", entities[e].ws, e)>>)

\* The note is saved for the active entity, visible or not, known or not.
LogProgress ==
    /\ active.ws \in DOMAIN workspaces /\ active.ent # None
    /\ Handle("other", <<Step("ensure", active.ws, active.ent)>>)

\* ensure_entity_topic, and posting a note that is linked to e; a link goes when
\* its entity is deleted, not when it is archived.
EnsureTopic(e) ==
    /\ entities[e].gone \in {"no", "archived"}
    /\ Handle("other", <<Step("ensure", entities[e].ws, e)>>)

\* one after the other, by workspace and then by place in its list
EnsureAll(doing, E) ==
    \E order \in [1 .. Cardinality(E) -> E] :
        /\ \A i, j \in DOMAIN order : i < j =>
              \/ entities[order[i]].ws < entities[order[j]].ws
              \/ entities[order[i]].ws = entities[order[j]].ws /\ Before(order[i], order[j])
        /\ Handle(doing, [i \in DOMAIN order |-> Quietly("ensure", entities[order[i]].ws, order[i])])

BackfillTopics == EnsureAll("other", UNION {Shown(w) : w \in Mirrored})
RepairTopics == EnsureAll("repair", UNION {Canonical(w) : w \in Mirrored})

DeleteTopic(e, force) ==
    /\ entities[e].ws \in DOMAIN group /\ HasTopic(e)
    /\ force \/ ~bound[e].locked
    /\ Handle("other", <<Step("delete", entities[e].ws, e), Step("unbind", entities[e].ws, e)>>)

-----------------------------------------------------------------------------
(* Handlers of one step *)

OpenWorkspace(w) ==
    /\ Begin("other", <<>>)
    /\ active' = [ws |-> w, ent |-> None]
    /\ UNCHANGED <<rows, links, forum, born, faults>>

OpenEntity(e) ==
    /\ e \in Shown(active.ws) /\ active.ws \in DOMAIN workspaces
    /\ Begin("other", <<>>)
    /\ active' = [active EXCEPT !.ent = e]
    /\ UNCHANGED <<rows, links, forum, born, faults>>

CloseWorkspace ==
    /\ Begin("other", <<>>)
    /\ active' = [ws |-> None, ent |-> None]
    /\ UNCHANGED <<rows, links, forum, born, faults>>

\* EntityManager: a pronoun that points at an entity no longer shown
ClearStale ==
    /\ active.ws \in DOMAIN workspaces
    /\ active.ent # None /\ active.ent \notin Shown(active.ws)
    /\ CloseWorkspace

\* Nobody looks whether the workspace still exists.
LinkGroup(c) ==
    /\ active.ws # None
    /\ Begin("other", <<>>)
    /\ group' = Put(group, active.ws, c)
    /\ UNCHANGED <<rows, bound, active, forum, born, faults>>

\* archive_workspace, complete_workspace
Shelve(w) ==
    /\ Begin("other", <<>>)
    /\ workspaces' = [workspaces EXCEPT ![w] = "shelved"]
    /\ UNCHANGED <<entities, nextWs, nextEnt, links, active, forum, born, faults>>

Hide(e, how) == entities' = [entities EXCEPT ![e].gone = how]

\* The orchestrator archives or deletes the row and leaves the rest.
HideMilestone(e, how) ==
    /\ Begin("other", <<>>)
    /\ Hide(e, how)
    /\ UNCHANGED <<workspaces, nextWs, nextEnt, links, active, forum, born, faults>>

DeleteEntity(e) ==
    /\ Begin("other", <<Step("deactivate", entities[e].ws, e)>>)
    /\ Hide(e, "deleted")
    /\ UNCHANGED <<workspaces, nextWs, nextEnt, links, active, forum, born, faults>>

\* An UPDATE: no row, no effect.
SetLocked(e, locked) ==
    /\ entities[e].ws \in DOMAIN group /\ HasTopic(e)
    /\ Begin("other", <<>>)
    /\ bound' = [bound EXCEPT ![e].locked = locked]
    /\ UNCHANGED <<rows, group, active, forum, born, faults>>

\* The workspaces and milestones go and their ids start again; the tg_ tables stay.
ResetEverything ==
    /\ resets < MaxResets
    /\ Begin("other", <<>>)
    /\ workspaces' = <<>> /\ entities' = <<>>
    /\ nextWs' = 1 /\ nextEnt' = 1
    /\ resets' = resets + 1
    /\ UNCHANGED <<links, active, forum, born, slips, hands>>

-----------------------------------------------------------------------------
(* The steps *)

SeedStep ==
    /\ At("seed")
    /\ Insert(Next1.ws, Next1.name)
    /\ Advance
    /\ UNCHANGED <<links, active, forum, faults>>

Activate ==
    /\ At("activate")
    /\ active' = [ws |-> Next1.ws, ent |-> Next1.ent]
    /\ Advance
    /\ UNCHANGED <<rows, links, forum, born, faults>>

\* mutant: compared with the workspace
Deactivate_Workspace ==
    /\ At("deactivate")
    /\ active' = IF active.ws = Next1.ent THEN [active EXCEPT !.ent = None] ELSE active
    /\ Advance
    /\ UNCHANGED <<rows, links, forum, born, faults>>

Deactivate ==
    /\ At("deactivate")
    /\ active' = IF active.ws # None /\ active.ent = Next1.ent
                 THEN [active EXCEPT !.ent = None] ELSE active
    /\ Advance
    /\ UNCHANGED <<rows, links, forum, born, faults>>

Creating == At("ensure") /\ Next1.ws \in DOMAIN group /\ ~HasTopic(Next1.ent)

\* no group, or a row: the row is believed, whatever Telegram holds
AlreadyThere ==
    /\ At("ensure") /\ ~Creating
    /\ Advance
    /\ UNCHANGED <<rows, links, active, forum, born, faults>>

NewTopic == Cardinality(DOMAIN forum) + 1

TopicAppears ==
    /\ NewTopic <= MaxTopics
    /\ forum' = Put(forum, NewTopic, [chat |-> group[Next1.ws], birth |-> BirthOf(Next1.ent), live |-> TRUE])

CreateTopic ==
    /\ Creating
    /\ TopicAppears
    /\ handler' = [handler EXCEPT !.todo = <<[do |-> "bind", ent |-> Next1.ent,
                                   topic |-> NewTopic, quiet |-> Next1.quiet]>> \o Tail(@)]
    /\ UNCHANGED <<rows, links, active, born, faults>>

\* mutant: the active entity, if any, gets the topic
BindTopic_Active ==
    /\ At("bind")
    /\ bound' = Put(bound, IF active.ent = None THEN Next1.ent ELSE active.ent,
                     [topic |-> Next1.topic, locked |-> FALSE])
    /\ Advance
    /\ UNCHANGED <<rows, group, active, forum, born, faults>>

BindTopic ==
    /\ At("bind")
    /\ bound' = Put(bound, Next1.ent, [topic |-> Next1.topic,
                                       locked |-> HasTopic(Next1.ent) /\ bound[Next1.ent].locked])
    /\ Advance
    /\ UNCHANGED <<rows, group, active, forum, born, faults>>

\* Telegram deletes a topic of the chat the workspace is linked to now.
InReach == LET t == bound[Next1.ent].topic
           IN forum[t].live /\ forum[t].chat = group[Next1.ws]

TopicGoes == forum' = [forum EXCEPT ![bound[Next1.ent].topic].live = FALSE]

DeleteForumTopic ==
    /\ At("delete") /\ InReach
    /\ TopicGoes
    /\ Advance
    /\ UNCHANGED <<rows, links, active, born, faults>>

\* mutant: the row stays
Unbind_Not ==
    /\ At("unbind")
    /\ Advance
    /\ UNCHANGED <<rows, links, active, forum, born, faults>>

Unbind ==
    /\ At("unbind")
    /\ bound' = Restrict(bound, DOMAIN bound \ {Next1.ent})
    /\ Advance
    /\ UNCHANGED <<rows, group, active, forum, born, faults>>

-----------------------------------------------------------------------------
(* What goes wrong *)

Calling == Creating \/ At("delete")

\* Telegram says no: no rights, no topics, no such topic.
Refused ==
    /\ Calling
    /\ Raise
    /\ UNCHANGED <<rows, links, active, forum, born, faults>>

Slip == slips + hands < MaxFaults /\ slips' = slips + 1 /\ UNCHANGED <<hands, resets>>

\* result(timeout=30) raises, but the call had its effect, or will have it
TimesOut ==
    /\ Slip
    /\ \/ Creating /\ TopicAppears
       \/ At("delete") /\ InReach /\ TopicGoes
    /\ Raise
    /\ UNCHANGED <<rows, links, active, born>>

\* a database error, for a binding also in its second try
Breaks ==
    /\ Slip
    /\ ~Idle /\ Raise
    /\ UNCHANGED <<rows, links, active, forum, born>>

Crash ==
    /\ Slip
    /\ ~Idle
    /\ handler' = [doing |-> "other", todo |-> <<>>]
    /\ UNCHANGED <<rows, links, active, forum, born>>

\* The owner deletes a topic in Telegram; the bot is not told.
DeletedByHand(t) ==
    /\ slips + hands < MaxFaults /\ forum[t].live
    /\ forum' = [forum EXCEPT ![t].live = FALSE]
    /\ hands' = hands + 1
    /\ UNCHANGED <<rows, links, active, handler, born, slips, resets>>

-----------------------------------------------------------------------------

User ==
    \/ \E seeds \in {<<>>, Seeds}, opens \in BOOLEAN : NewWorkspace(seeds, opens)
    \/ \E w \in DOMAIN workspaces, n \in Names : AddEntity(w, n) \/ AddMilestone(w, n)
    \/ \E n \in Names : NLCreate(n)
    \/ \E w \in DOMAIN workspaces : OpenWorkspace(w) \/ Shelve(w)
    \/ \E e \in AllShown :
          \/ AdoptKind(e) \/ UpdateEntity(e) \/ OpenEntity(e) \/ DeleteEntity(e)
          \/ \E b \in BOOLEAN : SetLocked(e, b) \/ DeleteTopic(e, b)
          \/ \E how \in {"archived", "dropped"} : HideMilestone(e, how)
    \/ \E e \in DOMAIN entities : EnsureTopic(e)
    \/ \E c \in Chats : LinkGroup(c)
    \/ LogProgress \/ BackfillTopics \/ RepairTopics
    \/ CloseWorkspace \/ ClearStale \/ ResetEverything

Run ==
    \/ SeedStep \/ Activate \/ Deactivate \/ AlreadyThere
    \/ CreateTopic \/ BindTopic \/ DeleteForumTopic \/ Unbind

Fault ==
    \/ Refused \/ TimesOut \/ Breaks \/ Crash
    \/ \E t \in DOMAIN forum : DeletedByHand(t)

Next == User \/ Run \/ Fault

Spec == Init /\ [][Next]_vars

-----------------------------------------------------------------------------
(* Properties *)

\* The variables hold what the tables and the code can hold; ids in use are
\* below their sequence, and a binding names a topic Telegram has handed out.
TypeOK ==
    /\ nextWs \in 1 .. MaxWorkspaces + 1 /\ DOMAIN workspaces = 1 .. nextWs - 1
    /\ \A w \in DOMAIN workspaces : workspaces[w] \in {"active", "shelved"}
    /\ nextEnt \in 1 .. MaxEntities + 1 /\ DOMAIN entities = 1 .. nextEnt - 1
    /\ \A e \in DOMAIN entities : entities[e] \in Milestone
    /\ DOMAIN group \subseteq WsIds /\ \A w \in DOMAIN group : group[w] \in Chats
    /\ DOMAIN bound \subseteq EntityIds
    /\ \A e \in DOMAIN bound : bound[e] \in [topic : DOMAIN forum, locked : BOOLEAN]
    /\ active.ws \in WsIds \cup {None} /\ active.ent \in EntityIds \cup {None}
    /\ DOMAIN forum \subseteq TopicIds
    /\ \A t \in DOMAIN forum :
          forum[t] \in [chat : Chats, birth : EntityIds \cup {None}, live : BOOLEAN]
    /\ born \in 0 .. MaxEntities

Bindings == {bound[e].topic : e \in DOMAIN bound}
InHand(t) == At("bind") /\ Next1.topic = t

\* A topic of the group belongs to a row, or is about to: one that belongs to none
\* was paid for by a crash, a time-out or a database error.  Refusals, retries,
\* back-fills, repairs and deletions never leave a second topic behind
\* (projection.py: "Idempotent by construction").
OrphansPaidFor ==
    Cardinality({t \in DOMAIN forum : forum[t].live /\ t \notin Bindings /\ ~InHand(t)}) <= slips

\* A row whose topic no longer exists was left by the owner's own deletion or by
\* such a fault in the middle of delete_topic, never by a deletion that went well.
DeadPaidFor ==
    Cardinality({e \in DOMAIN bound : ~forum[bound[e].topic].live
                                      /\ ~(At("unbind") /\ Next1.ent = e)}) <= slips + hands

\* Until everything is reset, the topic of an entity was made for that entity, so
\* its card and its updates appear nowhere else.
TopicBelongs ==
    resets = 0 => \A e \in DOMAIN bound : forum[bound[e].topic].birth = BirthOf(e)

\* After a repair that met no error each entity that is the first of its name has a
\* topic, in every linked workspace, whatever was left undone before.
RepairHeals ==
    (handler.doing = "repair" /\ Idle) =>
        \A w \in DOMAIN workspaces : workspaces[w] = "active" /\ w \in DOMAIN group =>
            \A e \in Canonical(w) : e \in DOMAIN bound

\* tool_adapters.py: after delete_entity "a later photo/log can't target a deleted
\* row", unless the process failed between the deletion and the second write.
DeletedIsNotActive ==
    (slips = 0 /\ Idle /\ active.ent \in DOMAIN entities) =>
        entities[active.ent].gone # "deleted"

=============================================================================
