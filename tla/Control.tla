------------------------------ MODULE Control ------------------------------
(***************************************************************************)
(* The manual control plane (core/control): the owner taps buttons of      *)
(* control messages and answers their prompts; a tap opens a page, runs a  *)
(* tool at once, asks for a confirmation or starts a data entry.           *)
(*                                                                         *)
(* A message keeps its keyboard until it is edited, so the buttons of any  *)
(* page ever shown can be tapped at any time, also for rows since deleted  *)
(* and workspaces since closed; opening a page changes nothing and is no   *)
(* step here.  A question is only left by its Yes or No: shown is the set  *)
(* of those that still have their buttons.  The one pending confirmation,  *)
(* the data entry and the search filters live in memory.  What the tools   *)
(* do is kept to the rows, their links and the active context; references  *)
(* by name are in Worker, the links' steps and faults in Knowledge.        *)
(*                                                                         *)
(* The chat orchestrator, asked before anything else about a text, deletes *)
(* and archives entities with no tool: it leaves the active context as it  *)
(* is.  The full reset is not here, see Topics.                            *)
(***************************************************************************)
EXTENDS Pages

CONSTANTS
    Names,       \* names of tags
    Filled,      \* the stored state at the start
    MaxOf,       \* bound: rows of each table
    MaxShown,    \* bound: questions that are still open
    MaxTaps      \* bound: taps, answers and commands

\* A stored state has its tables, the rows of each numbered without a gap (a deleted
\* row keeps its number), and a place for the topic of every entity.  Which of the
\* entities that are gone the orchestrator has hidden is history.
Stored(d, Counts) ==
    /\ DOMAIN d = {"rows", "links", "labels", "topics", "worn", "active", "hidden"}
    /\ \A k \in Tables : \E n \in Counts : {x \in DOMAIN d.rows : x[1] = k} = {<<k, m>> : m \in 1 .. n}
    /\ \A x \in DOMAIN d.rows : x[1] \in Tables
    /\ DOMAIN d.topics = {x[2] : x \in {y \in DOMAIN d.rows : y[1] = "ent"}}
    /\ DOMAIN d.active = {"space", "entity"}

\* A sound one: workspaces are archived and not deleted, an entity is of a kind that has
\* a list, labels lead to tags that are there, links to entities that are there or that
\* the orchestrator has hidden, and so does the active context.
Sound(d) ==
    /\ \A x \in DOMAIN d.rows : /\ DOMAIN d.rows[x] = {"space", "label", "is"}
                                /\ x[1] = "ws" => d.rows[x].is # "gone"
                                /\ x[1] = "ent" => d.rows[x].label \in EntityKinds
    /\ \A id \in d.hidden : <<"ent", id>> \in DOMAIN d.rows /\ ~Living(d, "ent", id)
    /\ \A l \in d.links : /\ l[2] = <<"ent", l[2][2]>>
                          /\ Living(d, "ent", l[2][2]) \/ l[2][2] \in d.hidden
    /\ \A l \in d.labels : l[2] \in DOMAIN d.rows /\ l[2][1] = "tag" /\ d.rows[l[2]].is # "gone"
    /\ d.active.space # 0 /\ d.active.entity # 0 =>
           FindEntity(d, d.active.entity) \/ d.active.entity \in d.hidden

ControlSized ==
    /\ MaxOf \in [Tables -> Nat] /\ {MaxShown, MaxTaps} \subseteq Nat
    /\ Stored(Filled, UNION {0 .. MaxOf[k] : k \in Tables}) /\ Sound(Filled)

ASSUME ControlSizes == ControlSized

VARIABLES
    db,        \* rows, links, labels, topics, worn weapons, active context, what is hidden
    pending,   \* the PendingConfirm
    shown,     \* questions whose message still has its buttons
    gather,    \* the data entry a text would answer
    search,    \* the accumulated filters: scope and workspace
    taps

vars == <<db, pending, shown, gather, search, taps>>

NoKey == <<"none", 0>>
Call(tool, on) == [tool |-> tool, on |-> on, space |-> 0, to |-> NoKey, name |-> "none", new |-> "none"]
InSpace(c, w) == [c EXCEPT !.space = w]
Toward(c, key) == [c EXCEPT !.to = key]
Named(c, name) == [c EXCEPT !.name = name]
None == Call("none", NoKey)

NoEntry == [flow |-> "none", on |-> NoKey, name |-> "none"]
NoFilters == [all |-> FALSE, space |-> 0]

Init ==
    /\ db = Filled
    /\ pending = None /\ shown = {} /\ gather = NoEntry /\ search = NoFilters /\ taps = 0

-----------------------------------------------------------------------------
(* The tools: what a call makes of a stored state, which is the state itself *)
(* when the tool refuses                                                     *)

NextKey(d, k) == <<k, 1 + Cardinality({x \in DOMAIN d.rows : x[1] = k})>>
Put(d, key, row) ==
    [d EXCEPT !.rows = [x \in DOMAIN d.rows \cup {key} |-> IF x = key THEN row ELSE d.rows[x]]]
Row(w, label) == [space |-> w, label |-> label, is |-> "open"]
Is(d, key, state) == [d EXCEPT !.rows[key].is = state]
Alive(d, key) == Living(d, key[1], key[2])
Home(d, key) == d.rows[key].space
Opens(d, w, e) == [d EXCEPT !.active = [space |-> w, entity |-> e]]

\* _require_entity_strict in the workspace of the call
There(d, c, key) == Alive(d, key) /\ Home(d, key) = c.space
Item(d, c, k) == c.on[1] = k /\ Alive(d, c.on)

CreateWorkspace(d, c) ==
    LET key == NextKey(d, "ws") IN Opens(Put(d, key, Row(key[2], "ws")), key[2], 0)
ArchiveWorkspace(d, c) == IF Alive(d, c.on) THEN Is(d, c.on, "archived") ELSE d
OpenWorkspace(d, c) == IF Alive(d, c.on) THEN Opens(d, c.on[2], 0) ELSE d
CloseWorkspace(d, c) == Opens(d, 0, 0)

CreateEntity(d, c, topic) ==
    LET key == NextKey(d, "ent")
    IN [Put(d, key, Row(c.space, c.name)) EXCEPT
           !.topics = [x \in DOMAIN d.topics \cup {key[2]} |-> IF x = key[2] THEN topic ELSE d.topics[x]]]

UpdateEntity(d, c) == IF There(d, c, c.on) THEN Opens(d, c.space, c.on[2]) ELSE d

\* mutant: the active entity stays
DeleteEntity_StaysActive(d, c) ==
    IF There(d, c, c.on) THEN [Is(d, c.on, "gone") EXCEPT !.links = {l \in @ : l[2] # c.on}] ELSE d

\* mutant: without the entity in that workspace, the active one
DeleteEntity_Active(d, c) ==
    LET key == IF There(d, c, c.on) THEN c.on ELSE <<"ent", d.active.entity>>
    IN IF Alive(d, key) THEN [Is(d, key, "gone") EXCEPT !.links = {l \in @ : l[2] # key},
                                                        !.active = [space |-> @.space, entity |-> 0]]
       ELSE d

\* the topic stays, the links and the place in the active context do not
DeleteEntity(d, c) ==
    IF There(d, c, c.on)
    THEN [Is(d, c.on, "gone") EXCEPT
             !.links = {l \in @ : l[2] # c.on},
             !.active = IF @.entity = c.on[2] THEN [space |-> @.space, entity |-> 0] ELSE @]
    ELSE d

Topic(d, e, state) == [d EXCEPT !.topics[e] = state]
Wired(d, c) == Projected /\ There(d, c, c.on) /\ c.space \in LinkedSpaces

EnsureTopic(d, c) ==
    IF Wired(d, c) /\ d.topics[c.on[2]] = "none" THEN Topic(d, c.on[2], "open") ELSE d
SetTopicLocked(d, c, state) ==
    IF Wired(d, c) /\ d.topics[c.on[2]] # "none" THEN Topic(d, c.on[2], state) ELSE d

\* mutant: the dialog has looked at the lock already
DeleteTopic_Unasked(d, c, force) ==
    IF Wired(d, c) THEN Topic(d, c.on[2], "none") ELSE d

DeleteTopic(d, c, force) ==
    IF Wired(d, c) /\ (force \/ d.topics[c.on[2]] # "locked") THEN Topic(d, c.on[2], "none") ELSE d

\* one topic for every entity of the linked workspaces; twins are in Topics
RepairTopics(d) ==
    [d EXCEPT !.topics = [e \in DOMAIN @ |->
        IF Projected /\ @[e] = "none" /\ Living(d, "ent", e) /\ SpaceOf(d, "ent", e) \in LinkedSpaces
        THEN "open" ELSE @[e]]]

EquipItem(d, c) ==
    IF There(d, c, c.on) /\ KindOf(d, c.on[2]) \notin {"weapon", "artifact"}
    THEN IF c.to = NoKey THEN [d EXCEPT !.worn = @ \ {c.on[2]}]
         ELSE IF There(d, c, c.to) /\ KindOf(d, c.to[2]) = "weapon" THEN [d EXCEPT !.worn = @ \cup {c.on[2]}]
         ELSE d
    ELSE d

\* in the workspace active when the tool runs
CreateNote(d) == IF Active(d) = 0 THEN d ELSE Put(d, NextKey(d, "note"), Row(Active(d), "note"))

\* delete_note and delete_media: links and labels stay
Discard(d, c) == IF Alive(d, c.on) THEN Is(d, c.on, "gone") ELSE d

\* link_note_entity, link_media_entity: among the entities of the item's workspace
LinkEntity(d, c) ==
    IF Alive(d, c.on) /\ Alive(d, c.to) /\ Home(d, c.to) = Home(d, c.on)
    THEN [d EXCEPT !.links = @ \cup {<<c.on, c.to>>}] ELSE d
UnlinkEntity(d, c) ==
    IF Alive(d, c.on) /\ Alive(d, c.to) /\ Home(d, c.to) = Home(d, c.on)
    THEN [d EXCEPT !.links = @ \ {<<c.on, c.to>>}] ELSE d

\* create_tag: the tag of this name, a new one if there is none
WithTag(d, w, name) == IF TagsNamed(d, w, name) = {} THEN Put(d, NextKey(d, "tag"), Row(w, name)) ELSE d
CreateTag(d, c) == WithTag(d, c.space, c.name)

\* link_note_tag, link_media_tag
LinkTag(d, c) ==
    IF Alive(d, c.on)
    THEN LET e == WithTag(d, Home(d, c.on), c.name)
         IN [e EXCEPT !.labels = @ \cup {<<c.on, <<"tag", t>>>> : t \in TagsNamed(e, Home(d, c.on), c.name)}]
    ELSE d
UnlinkTag(d, c) ==
    IF Alive(d, c.on)
    THEN [d EXCEPT !.labels = @ \ {<<c.on, <<"tag", t>>>> : t \in TagsNamed(d, Home(d, c.on), c.name)}]
    ELSE d

\* by name, in the workspace of the call
RenameTag(d, c) ==
    IF TagsNamed(d, c.space, c.name) # {} /\ TagsNamed(d, c.space, c.new) = {}
    THEN LET t == CHOOSE x \in TagsNamed(d, c.space, c.name) : TRUE
         IN [d EXCEPT !.rows[<<"tag", t>>].label = c.new]
    ELSE d
DeleteTag(d, c) ==
    IF TagsNamed(d, c.space, c.name) # {}
    THEN LET t == CHOOSE x \in TagsNamed(d, c.space, c.name) : TRUE
         IN [Is(d, <<"tag", t>>, "gone") EXCEPT !.labels = {l \in @ : l[2] # <<"tag", t>>}]
    ELSE d

\* ARCHIVE_MILESTONE and DELETE_MILESTONE of the orchestrator: only the second takes the
\* links away, neither the place in the active context
HideMilestone(d, key, how) ==
    IF Alive(d, key)
    THEN [Is(d, key, "gone") EXCEPT
             !.links = IF how = "deleted" THEN {l \in @ : l[2] # key} ELSE @,
             !.hidden = @ \cup {key[2]}]
    ELSE d

\* Titles and contents are left out: rename_workspace, update_note, update_media
\* and post_note leave what is kept here.
Effect(d, c) ==
    CASE c.tool = "create_workspace" -> CreateWorkspace(d, c)
      [] c.tool = "archive_workspace" -> ArchiveWorkspace(d, c)
      [] c.tool = "open_workspace" -> OpenWorkspace(d, c)
      [] c.tool = "close_workspace" -> CloseWorkspace(d, c)
      [] c.tool = "create_entity" -> CreateEntity(d, c, "none")
      [] c.tool = "update_entity" -> UpdateEntity(d, c)
      [] c.tool = "delete_entity" -> DeleteEntity(d, c)
      [] c.tool = "ensure_topic" -> EnsureTopic(d, c)
      [] c.tool = "lock_topic" -> SetTopicLocked(d, c, "locked")
      [] c.tool = "unlock_topic" -> SetTopicLocked(d, c, "open")
      [] c.tool = "delete_topic" -> DeleteTopic(d, c, FALSE)
      [] c.tool = "force_topic" -> DeleteTopic(d, c, TRUE)
      [] c.tool = "repair_topics" -> RepairTopics(d)
      [] c.tool = "equip_item" -> EquipItem(d, c)
      [] c.tool = "create_note" -> CreateNote(d)
      [] c.tool = "delete_item" -> Discard(d, c)
      [] c.tool = "link_entity" -> LinkEntity(d, c)
      [] c.tool = "unlink_entity" -> UnlinkEntity(d, c)
      [] c.tool = "create_tag" -> CreateTag(d, c)
      [] c.tool = "link_tag" -> LinkTag(d, c)
      [] c.tool = "unlink_tag" -> UnlinkTag(d, c)
      [] c.tool = "rename_tag" -> RenameTag(d, c)
      [] c.tool = "delete_tag" -> DeleteTag(d, c)
      [] OTHER -> d

TopicTools == {"ensure_topic", "lock_topic", "unlock_topic", "delete_topic", "force_topic", "repair_topics"}

\* A tool that calls Telegram may fail; a failed topic does not undo a new entity.
Outcomes(d, c) ==
    IF c.tool \in TopicTools THEN {d, Effect(d, c)}
    ELSE IF c.tool = "create_entity" /\ Projected /\ c.space \in LinkedSpaces
    THEN {Effect(d, c), CreateEntity(d, c, "open")}
    ELSE {Effect(d, c)}

Fits(d) == \A k \in Tables : Cardinality({x \in DOMAIN d.rows : x[1] = k}) <= MaxOf[k]

-----------------------------------------------------------------------------
(* Confirmations and data entry *)

Step == taps < MaxTaps /\ taps' = taps + 1

\* begin_confirm: the last question is the pending one
Ask(c) ==
    /\ Step
    /\ pending' = c
    /\ shown' = shown \cup {c}
    /\ Cardinality(shown') <= MaxShown
    /\ UNCHANGED <<db, search>>

Asks(c) == Ask(c) /\ UNCHANGED gather

\* _run_immediate
Runs(c) ==
    /\ Step
    /\ db' \in Outcomes(db, c)
    /\ Fits(db')
    /\ UNCHANGED <<pending, shown, gather, search>>

\* _begin_gather: whatever was being entered is dropped, what is pending is not
Gather(flow, on, name) ==
    /\ Step
    /\ gather' = [flow |-> flow, on |-> on, name |-> name]
    /\ UNCHANGED <<db, pending, shown, search>>

\* mutant: read and not removed
Yes_Keeps(q) ==
    /\ q \in shown /\ Step
    /\ shown' = shown \ {q}
    /\ pending' = pending
    /\ db' \in Outcomes(db, pending)
    /\ Fits(db')
    /\ UNCHANGED <<gather, search>>

\* confirm_yes under the message that asks q runs what is pending, if anything
Yes(q) ==
    /\ q \in shown /\ Step
    /\ shown' = shown \ {q}
    /\ pending' = None
    /\ db' \in Outcomes(db, pending)
    /\ Fits(db')
    /\ UNCHANGED <<gather, search>>

No(q) ==
    /\ q \in shown /\ Step
    /\ shown' = shown \ {q}
    /\ pending' = None
    /\ UNCHANGED <<db, gather, search>>

-----------------------------------------------------------------------------
(* The buttons *)

Here(c) == InSpace(c, Active(db))

TapSpace(w) ==
    \/ Gather("create_workspace", NoKey, "none")
    \/ Gather("rename_workspace", w, "none")
    \/ Asks(Call("archive_workspace", w))
    \/ Runs(Call("open_workspace", w))
    \/ Runs(Call("close_workspace", w))    \* the active one, whichever was named

TapEntity(e) ==
    \/ \E kind \in {"character", "weapon"} : Gather("add_entity", NoKey, kind)
    \/ FindEntity(db, e[2]) /\ Asks(Here(Call("delete_entity", e)))
    \/ FindEntity(db, e[2]) /\ Gather("edit_entity", e, "none")

Locked(e) == Active(db) \in LinkedSpaces /\ db.topics[e[2]] = "locked"

TapTopic(e) ==
    \/ Asks(Call("repair_topics", NoKey))
    \/ /\ FindEntity(db, e[2])
       /\ \/ \E tool \in {"ensure_topic", "lock_topic", "unlock_topic"} : Runs(Here(Call(tool, e)))
          \/ ~Locked(e) /\ Asks(Here(Call("delete_topic", e)))    \* else the locked-topic dialog
          \/ Asks(Here(Call("force_topic", e)))

TapEquip(e, to) == Active(db) # 0 /\ Runs(Toward(Here(Call("equip_item", e)), to))

TapItem(i) ==
    /\ Alive(db, i)
    /\ \/ Gather("edit", i, "none") \/ Gather("link_entity", i, "none") \/ Gather("link_tag", i, "none")
       \/ Asks(Call("delete_item", i))
       \/ \E t \in DOMAIN db.rows : /\ t[1] = "tag" /\ Alive(db, t)
                                    /\ Runs(Named(Call("unlink_tag", i), db.rows[t].label))

UnlinkEnt(i, e) == Runs(Toward(Call("unlink_entity", i), e))

TapNote(i) ==
    \/ Gather("note_add", NoKey, "none") \/ Gather("note_search", NoKey, "none")
    \/ TapItem(i)
    \/ Alive(db, i) /\ Runs(Call("post_note", i))

TapMedia(i) == Gather("media_search", NoKey, "none") \/ TapItem(i)

\* The tag is found by its number in any workspace; what is asked is its name, in
\* the active one.
TapTag(t) ==
    \/ Gather("tag_add", NoKey, "none")
    \/ Alive(db, t) /\ Gather("tag_rename", t, db.rows[t].label)
    \/ Alive(db, t) /\ Asks(Here(Named(Call("delete_tag", t), db.rows[t].label)))

\* execute and the pages change nothing
TapSearch ==
    \/ \E flow \in {"search_ws", "search_scope", "search_filter"} : Gather(flow, NoKey, "none")
    \/ Step /\ search' = NoFilters /\ UNCHANGED <<db, pending, shown, gather>>

-----------------------------------------------------------------------------
(* The answers: the data entry ends whatever the text says *)

Entered(flow) == gather.flow = flow /\ gather' = NoEntry
AskEntered(flow, c) == Entered(flow) /\ Ask(c)

\* blank or unusable text, a row or workspace that is no longer there, a search
AnswerNothing ==
    /\ gather # NoEntry /\ gather' = NoEntry
    /\ Step
    /\ UNCHANGED <<db, pending, shown, search>>

AnswerSpace ==
    \/ AskEntered("create_workspace", Call("create_workspace", NoKey))
    \/ AskEntered("rename_workspace", Call("rename_workspace", gather.on))

AnswerEntity ==
    \/ Active(db) # 0 /\ AskEntered("add_entity", Here(Named(Call("create_entity", NoKey), gather.name)))
    \/ FindEntity(db, gather.on[2]) /\ AskEntered("edit_entity", Here(Call("update_entity", gather.on)))

AnswerItem(e, name) ==
    \/ AskEntered("note_add", Call("create_note", NoKey))
    \/ AskEntered("edit", Call("update_item", gather.on))
    \/ AskEntered("link_entity", Toward(Call("link_entity", gather.on), e))
    \/ AskEntered("link_tag", Named(Call("link_tag", gather.on), name))

AnswerTag(name) ==
    /\ Active(db) # 0
    /\ \/ AskEntered("tag_add", Here(Named(Call("create_tag", NoKey), name)))
       \/ AskEntered("tag_rename", [Here(Named(Call("rename_tag", gather.on), gather.name)) EXCEPT !.new = name])

AnswerSearch(w) ==
    /\ Step
    /\ \/ Entered("search_ws") /\ search' \in {[all |-> TRUE, space |-> 0], [all |-> FALSE, space |-> w[2]]}
       \/ Entered("search_scope") /\ \E all \in BOOLEAN : search' = [search EXCEPT !.all = all]
       \/ Entered("search_filter") /\ UNCHANGED search
    /\ UNCHANGED <<db, pending, shown>>

-----------------------------------------------------------------------------
(* Beside the control plane *)

\* /control: the stale confirmation and entry are dropped
ControlCommand ==
    /\ Step
    /\ pending' = None /\ gather' = NoEntry
    /\ UNCHANGED <<db, shown, search>>

\* /use, and with it any command: only the entry is dropped
Use(w) ==
    /\ Step
    /\ db' = OpenWorkspace(db, Call("open_workspace", w))
    /\ gather' = NoEntry
    /\ UNCHANGED <<pending, shown, search>>

\* store_media of the AI worker, in the active workspace: a text is only the
\* worker's when nothing is being entered
File ==
    /\ Step
    /\ gather = NoEntry /\ Active(db) # 0
    /\ db' = Put(db, NextKey(db, "media"), Row(Active(db), "media")) /\ Fits(db')
    /\ UNCHANGED <<pending, shown, gather, search>>

\* The AI worker and the commands use the same tools, with no pending of theirs here.
Elsewhere(key) ==
    /\ Step
    /\ gather = NoEntry
    /\ \/ /\ key[1] = "ent"
          /\ \E tool \in {"delete_entity", "update_entity", "lock_topic"} :
                db' \in Outcomes(db, InSpace(Call(tool, key), Home(db, key)))
       \/ /\ key[1] \in {"note", "media"} /\ db' = Discard(db, Call("delete_item", key))
       \/ /\ key[1] = "tag" /\ Alive(db, key)
          /\ db' = DeleteTag(db, Named(InSpace(Call("delete_tag", key), Home(db, key)), db.rows[key].label))
    /\ UNCHANGED <<pending, shown, gather, search>>

\* A text the orchestrator understands goes no further, whatever is being entered: any
\* entity of any workspace, once its own question is answered.  What else it does to
\* the rows the tools do as well.
HideInChat(key) ==
    /\ Step
    /\ key[1] = "ent"
    /\ \E how \in {"archived", "deleted"} : db' = HideMilestone(db, key, how)
    /\ UNCHANGED <<pending, shown, gather, search>>

Restart ==
    /\ Step
    /\ pending' = None /\ gather' = NoEntry /\ search' = NoFilters
    /\ UNCHANGED <<db, shown>>

Keys(k) == {x \in DOMAIN db.rows : x[1] = k}

Tap ==
    \/ \E w \in Keys("ws") : TapSpace(w)
    \/ \E e \in Keys("ent") :
          \/ TapEntity(e) \/ TapTopic(e)
          \/ \E to \in Keys("ent") \cup {NoKey} : TapEquip(e, to)
          \/ \E i \in Keys("note") \cup Keys("media") : UnlinkEnt(i, e)
    \/ \E i \in Keys("note") : TapNote(i)
    \/ \E i \in Keys("media") : TapMedia(i)
    \/ \E t \in Keys("tag") : TapTag(t)
    \/ TapSearch
    \/ \E q \in shown : Yes(q) \/ No(q)

Answer ==
    \/ AnswerNothing \/ AnswerSpace \/ AnswerEntity
    \/ \E e \in Keys("ent"), name \in Names : AnswerItem(e, name)
    \/ \E name \in Names : AnswerTag(name)
    \/ \E w \in Keys("ws") : AnswerSearch(w)

Beside ==
    \/ ControlCommand \/ File \/ Restart
    \/ \E w \in Keys("ws") : Use(w)
    \/ \E key \in DOMAIN db.rows : Elsewhere(key) \/ HideInChat(key)

Next == Tap \/ Answer \/ Beside

Spec == Init /\ [][Next]_vars

-----------------------------------------------------------------------------
(* Properties *)

\* What a Yes would run is written on a message that still has its Yes: nothing is
\* pending out of the owner's sight, through older messages, restarts and /control.
PendingIsShown == pending # None => pending \in shown

\* The buttons a deletion in the chat leaves on fresh pages: Identity of the active
\* entity, and the one that takes an archived entity off a note or a photo.
AsksHidden(d, cb) ==
    \/ cb[1] = "ident:active" /\ d.active.entity \in d.hidden
    \/ cb[1] \in Unlinking /\ cb[3] \in d.hidden

\* "It may have been deleted" is for old messages: whatever page is drawn from the
\* rows as they are, its buttons find their row.  Excepted are the deleted notes and
\* media that a tag page still lists and what the chat orchestrator has hidden: the
\* tools' deletions leave nothing else behind.
PagesLead ==
    \A cb \in Targets(db) :
        LET page == Render(db, search, cb)
        IN page.is = "page" /\ cb[1] # "tag:view" =>
               \A b \in DOMAIN page.buttons : Finds(db, page.buttons[b]) \/ AsksHidden(db, page.buttons[b])

\* The same, looked at where nothing is asked or entered: pages read only the rows.
FreshButtonsLead == pending = None /\ shown = {} /\ gather = NoEntry => PagesLead

Touched(d, e) == {key \in DOMAIN e.rows : key \notin DOMAIN d.rows \/ e.rows[key] # d.rows[key]}
Bound(d, e) == ((d.links \cup d.labels) \ (e.links \cup e.labels)) \cup ((e.links \cup e.labels) \ (d.links \cup d.labels))

\* The rows a question is about: the one it names, and what it makes.
About(c) ==
    {c.on} \cup {key \in {NextKey(db, k) : k \in Tables} : c.on = NoKey \/ (c.tool = "link_tag" /\ key[1] = "tag")}

\* V15.2's "a requested ref is not the active ref": a Yes changes the row its
\* question names and links of that row, whatever has been opened, deleted or
\* renamed since it was asked; tags apart, which are asked for by name.
YesReachesItsRow ==
    [][pending # None /\ pending' = None /\ pending.tool \notin {"rename_tag", "delete_tag"} =>
          /\ Touched(db, db') \subseteq About(pending)
          /\ \A l \in Bound(db, db') : pending.on \in {l[1], l[2]}]_vars

\* delete_entity_topic: "A LOCKED topic refuses deletion unless force".  A topic that
\* is locked after its deletion was asked for outlives the Yes.
LockHolds ==
    [][\A e \in DOMAIN db.topics :
          db.topics[e] = "locked" /\ db'.topics[e] = "none" => pending.tool = "force_topic"]_vars
=============================================================================
