------------------------------ MODULE Knowledge ------------------------------
(***************************************************************************)
(* The knowledge of one user: entities, notes and media records, the links *)
(* from notes and media to entities, tags and their labels, and what the   *)
(* timeline says of them.  core/workspace/engine.py over repository.py,    *)
(* the workspace tables of database.py, the knowledge tools of             *)
(* core/ai/tool_adapters.py and the search of core/retrieval/service.py.   *)
(*                                                                         *)
(* Each call of database.py is a transaction of its own and the event of a *)
(* change is recorded after the change, so that an operation is a chain of *)
(* steps that a crash or a database error may cut anywhere.  A user's      *)
(* updates are handled one after the other.  Text is left out.             *)
(***************************************************************************)
EXTENDS Integers, Sequences, FiniteSets

CONSTANTS
    Spaces,      \* workspaces
    Names,       \* spellings of tag names
    Fold,        \* lower(): spelling -> the spelling that stands for it
    MaxOf,       \* bound: rows ever in the table of each kind
    MaxTags,     \* bound: tags ever made
    MaxGiven,    \* bound: entities and tags given with a new row
    MaxSlips     \* bound: crashes and database errors

ASSUME KnowledgeSizes ==
    /\ Fold \in [Names -> Names]
    /\ MaxOf \in [{"entity", "note", "media"} -> Nat]
    /\ {MaxTags, MaxGiven, MaxSlips} \subseteq Nat

VARIABLES
    items,     \* milestones, notes, attachments: <<kind, id>> -> row
    tags,      \* id -> workspace and name
    nextTag,   \* sqlite_sequence of tags
    links,     \* note_entities, attachment_entities; a pair may be there twice,
               \* but every DELETE takes all of a pair and every search is DISTINCT
    labels,    \* entity_tags, for notes and media
    story,     \* timeline: <<kind, id>> -> the last event about it
    handler,   \* what the running operation has still to do
    slips      \* faults so far

rows == <<items, tags, nextTag, links, labels>>
vars == <<rows, story, handler, slips>>

Kinds == {"entity", "note", "media"}
Ids == UNION {{<<k, n>> : n \in 1 .. MaxOf[k]} : k \in Kinds}
TagIds == 1 .. MaxTags

-----------------------------------------------------------------------------
(* MILESTONE_LIFECYCLE *)

\* todo and in_progress lead to the same places and to each other: open
Statuses == {"open", "blocked", "done", "archived"}

\* mutant: what is archived may be marked done
Leads_Restored == [open |-> {"blocked", "done", "archived"}, blocked |-> {"open", "archived"},
                   done |-> {"open", "archived"}, archived |-> {"open", "done"}]

Leads == [open |-> {"blocked", "done", "archived"}, blocked |-> {"open", "archived"},
          done |-> {"open", "archived"}, archived |-> {"open"}]

\* the event of a change: what it is about and the snapshot it carries
Event(i, status, gone) == [of |-> i, status |-> status, gone |-> gone]

\* a reference that resolves to nothing
Unknown == <<"entity", 0>>
Silence == Event(Unknown, "open", FALSE)

Rest == [item |-> Unknown, say |-> Silence, ents |-> {}, names |-> {}, left |-> {}, drop |-> FALSE]
Idle == handler = Rest
Saying == handler.say # Silence

-----------------------------------------------------------------------------
(* Queries *)

Living(i) == i \in DOMAIN items /\ ~items[i].gone
LivingOf(k, w) == {i \in DOMAIN items : i[1] = k /\ items[i].ws = w /\ ~items[i].gone}

\* list_milestones without the archived
Shown(w) == {e \in LivingOf("entity", w) : items[e].status # "archived"}

\* by name in a workspace, whatever the case
TagsNamed(w, n) == {t \in DOMAIN tags : tags[t].ws = w /\ Fold[tags[t].name] = Fold[n]}

\* ORDER BY id DESC LIMIT n
Newest(S, n) == {i \in S : Cardinality({j \in S : j[2] > i[2]}) < n}

Linked(e) == {i \in DOMAIN items : <<i, e>> \in links}
Labelled(t) == {i \in DOMAIN items : <<i, t>> \in labels}

\* search_notes, search_media: the rows of a workspace in a set given by one filter
Search(k, w, F, n) == Newest(LivingOf(k, w) \cap F, n)

\* mutant: no spare rows to filter
FindAll_Tight(k, w, filters, n) ==
    LET first == Search(k, w, Head(filters), n)
    IN Newest({i \in first : \A f \in DOMAIN filters : i \in filters[f]}, n)

\* "and": the first filter in the database, twice the limit, the others after it
FindAll(k, w, filters, n) ==
    LET first == Search(k, w, Head(filters), 2 * n)
    IN Newest({i \in first : \A f \in DOMAIN filters : i \in filters[f]}, n)

\* "or": each filter on its own, then the newest of them all
FindAny(k, w, filters, n) ==
    Newest(UNION {Search(k, w, filters[f], n) : f \in DOMAIN filters}, n)

Find(k, w, E, T, every, n) ==
    LET filters == [x \in 1 .. Len(E) + Len(T) |->
                      IF x <= Len(E) THEN Linked(E[x]) ELSE Labelled(T[x - Len(E)])]
    IN IF filters = <<>> THEN Search(k, w, DOMAIN items, n)
       ELSE IF every THEN FindAll(k, w, filters, n)
       ELSE FindAny(k, w, filters, n)

FindNotes(w, E, T, every, n) == Find("note", w, E, T, every, n)
FindMedia(w, E, T, every, n) == Find("media", w, E, T, every, n)

-----------------------------------------------------------------------------

Init ==
    /\ items = <<>> /\ tags = <<>> /\ nextTag = 1 /\ links = {} /\ labels = {}
    /\ story = <<>> /\ handler = Rest /\ slips = 0

Begin(h) == Idle /\ handler' = h
BeginSaying(e) == Begin([Rest EXCEPT !.say = e])

NextId(k) == <<k, Cardinality({i \in DOMAIN items : i[1] = k}) + 1>>

AddRow(k, w) ==
    /\ NextId(k) \in Ids
    /\ items' = [i \in DOMAIN items \cup {NextId(k)} |->
                   IF i = NextId(k)
                   THEN [ws |-> w, status |-> "open", gone |-> FALSE]
                   ELSE items[i]]
    /\ UNCHANGED <<tags, nextTag, links, labels>>

SetRow(i, row) ==
    /\ items' = [items EXCEPT ![i] = row]
    /\ UNCHANGED <<tags, nextTag, links, labels>>

-----------------------------------------------------------------------------
(* Operations: the first transaction of each *)

AddEntity(w) ==
    /\ AddRow("entity", w)
    /\ BeginSaying(Event(NextId("entity"), "open", FALSE))
    /\ UNCHANGED <<story, slips>>

\* the row, then its links and labels one by one
File(k, w, E, N) ==
    /\ Cardinality(E) + Cardinality(N) <= MaxGiven
    /\ AddRow(k, w)
    /\ Begin([Rest EXCEPT !.item = NextId(k), !.say = Event(NextId(k), "open", FALSE),
                          !.ents = E, !.names = N])
    /\ UNCHANGED <<story, slips>>

CreateNote(w, E, N) == File("note", w, E, N)
StoreMedia(w, E, N) == File("media", w, E, N)

\* mutant: the event shows the entity as it was read
MoveEntity_Before(e, s) ==
    /\ e[1] = "entity" /\ s \in Leads[items[e].status]
    /\ SetRow(e, [items[e] EXCEPT !.status = s])
    /\ BeginSaying(Event(e, items[e].status, FALSE))
    /\ UNCHANGED <<story, slips>>

\* transition_milestone, archive_milestone
MoveEntity(e, s) ==
    /\ e[1] = "entity" /\ s \in Leads[items[e].status]
    /\ SetRow(e, [items[e] EXCEPT !.status = s])
    /\ BeginSaying(Event(e, s, FALSE))
    /\ UNCHANGED <<story, slips>>

\* An event, and data the model leaves out.  update_media tells nobody.
Reword(i) ==
    /\ BeginSaying(Event(i, items[i].status, FALSE))
    /\ UNCHANGED <<rows, story, slips>>

\* adopt_entity_type, and set_fields with update_field; also todo to in_progress
AdoptKind(e) == e[1] = "entity" /\ Reword(e)
SetFields(e) == e[1] = "entity" /\ Reword(e)
UpdateNote(i) == i[1] = "note" /\ Reword(i)

\* links and labels stay
Discard(i) ==
    /\ SetRow(i, [items[i] EXCEPT !.gone = TRUE])
    /\ BeginSaying(Event(i, items[i].status, TRUE))
    /\ UNCHANGED <<story, slips>>

DeleteNote(i) == i[1] = "note" /\ Discard(i)
DeleteMedia(i) == i[1] = "media" /\ Discard(i)

\* mutant: the media links are forgotten
DeleteEntity_NotesOnly(e) ==
    /\ e[1] = "entity"
    /\ Begin([Rest EXCEPT !.item = e, !.left = {l \in links : l[2] = e /\ l[1][1] = "note"},
                          !.drop = TRUE])
    /\ UNCHANGED <<rows, story, slips>>

\* delete_milestone reads the links first
DeleteEntity(e) ==
    /\ e[1] = "entity"
    /\ Begin([Rest EXCEPT !.item = e, !.left = {l \in links : l[2] = e}, !.drop = TRUE])
    /\ UNCHANGED <<rows, story, slips>>

\* The reference is looked up among the entities shown in the item's own workspace.
Link(i, e) ==
    /\ e \in Shown(items[i].ws) \cup {Unknown}
    /\ Begin([Rest EXCEPT !.item = i, !.ents = {e}])
    /\ UNCHANGED <<rows, story, slips>>

LinkNoteEntity(i, e) == i[1] = "note" /\ Link(i, e)
LinkMediaEntity(i, e) == i[1] = "media" /\ Link(i, e)

Unlink(i, e) ==
    /\ Idle
    /\ e \in Shown(items[i].ws)
    /\ links' = links \ {<<i, e>>}
    /\ UNCHANGED <<items, tags, nextTag, labels, story, handler, slips>>

UnlinkNoteEntity(i, e) == i[1] = "note" /\ Unlink(i, e)
UnlinkMediaEntity(i, e) == i[1] = "media" /\ Unlink(i, e)

\* The tag is made if need be.
Label(i, n) ==
    /\ Begin([Rest EXCEPT !.item = i, !.names = {n}])
    /\ UNCHANGED <<rows, story, slips>>

LinkNoteTag(i, n) == i[1] = "note" /\ Label(i, n)
LinkMediaTag(i, n) == i[1] = "media" /\ Label(i, n)

Unlabel(i, t) ==
    /\ Idle
    /\ tags[t].ws = items[i].ws
    /\ labels' = labels \ {<<i, t>>}
    /\ UNCHANGED <<items, tags, nextTag, links, story, handler, slips>>

UnlinkNoteTag(i, t) == i[1] = "note" /\ Unlabel(i, t)
UnlinkMediaTag(i, t) == i[1] = "media" /\ Unlabel(i, t)

TagEvent(t, gone) == Event(<<"tag", t>>, "open", gone)

\* mutant: the id is handed out again
NewTag_SameId(w, n) ==
    /\ TagsNamed(w, n) = {} /\ nextTag <= MaxTags
    /\ tags' = [t \in DOMAIN tags \cup {nextTag} |->
                  IF t = nextTag THEN [ws |-> w, name |-> n] ELSE tags[t]]
    /\ UNCHANGED <<items, nextTag, links, labels>>

NewTag(w, n) ==
    /\ TagsNamed(w, n) = {} /\ nextTag <= MaxTags
    /\ tags' = [t \in DOMAIN tags \cup {nextTag} |->
                  IF t = nextTag THEN [ws |-> w, name |-> n] ELSE tags[t]]
    /\ nextTag' = nextTag + 1
    /\ UNCHANGED <<items, links, labels>>

CreateTag(w, n) ==
    /\ NewTag(w, n)
    /\ BeginSaying(TagEvent(nextTag, FALSE))
    /\ UNCHANGED <<story, slips>>

\* The index tells spellings apart, so a rename may meet a name in another case.
RenameTag(t, n) ==
    /\ Idle
    /\ \A u \in DOMAIN tags \ {t} : tags[u] # [tags[t] EXCEPT !.name = n]
    /\ tags' = [tags EXCEPT ![t].name = n]
    /\ UNCHANGED <<items, nextTag, links, labels, story, handler, slips>>

DeleteTag(t) ==
    /\ tags' = [u \in DOMAIN tags \ {t} |-> tags[u]]
    /\ labels' = {l \in labels : l[2] # t}
    /\ BeginSaying(TagEvent(t, TRUE))
    /\ UNCHANGED <<items, nextTag, links, story, slips>>

-----------------------------------------------------------------------------
(* The steps that follow *)

Tell ==
    /\ Saying
    /\ story' = [i \in DOMAIN story \cup {handler.say.of} |->
                   IF i = handler.say.of THEN handler.say ELSE story[i]]
    /\ handler' = IF handler.ents = {} /\ handler.names = {} THEN Rest
                  ELSE [handler EXCEPT !.say = Silence]
    /\ UNCHANGED <<rows, slips>>

Left(E, N) == IF E = {} /\ N = {} THEN Rest ELSE [handler EXCEPT !.ents = E, !.names = N]

\* link_note_entity, link_media_entity
LinkNext(e) ==
    /\ ~Saying /\ e \in handler.ents /\ e # Unknown
    /\ links' = links \cup {<<handler.item, e>>}
    /\ handler' = Left(handler.ents \ {e}, handler.names)
    /\ UNCHANGED <<items, tags, nextTag, labels, story, slips>>

\* a reference that resolves to nothing ends the call: the rest is not done
Refuse ==
    /\ ~Saying /\ Unknown \in handler.ents
    /\ handler' = Rest
    /\ UNCHANGED <<rows, story, slips>>

Filing == ~Saying /\ handler.ents = {} /\ handler.item # Unknown

\* create_tag, between two labels
MakeTag(n) ==
    /\ Filing /\ n \in handler.names
    /\ NewTag(items[handler.item].ws, n)
    /\ handler' = [handler EXCEPT !.say = TagEvent(nextTag, FALSE)]
    /\ UNCHANGED <<story, slips>>

LabelNext(n) ==
    /\ Filing /\ n \in handler.names
    /\ \E t \in TagsNamed(items[handler.item].ws, n) : labels' = labels \cup {<<handler.item, t>>}
    /\ handler' = Left({}, handler.names \ {n})
    /\ UNCHANGED <<items, tags, nextTag, links, story, slips>>

UnlinkNext(l) ==
    /\ l \in handler.left
    /\ links' = links \ {l}
    /\ handler' = [handler EXCEPT !.left = @ \ {l}]
    /\ UNCHANGED <<items, tags, nextTag, labels, story, slips>>

Drop ==
    /\ handler.drop /\ handler.left = {}
    /\ SetRow(handler.item, [items[handler.item] EXCEPT !.gone = TRUE])
    /\ handler' = [Rest EXCEPT !.say = Event(handler.item, items[handler.item].status, TRUE)]
    /\ UNCHANGED <<story, slips>>

\* The process ends, or the database fails, between two steps.
Slip ==
    /\ ~Idle /\ slips < MaxSlips
    /\ handler' = Rest
    /\ slips' = slips + 1
    /\ UNCHANGED <<rows, story>>

-----------------------------------------------------------------------------

User ==
    \/ \E w \in Spaces :
          \/ AddEntity(w)
          \/ \E n \in Names : CreateTag(w, n)
          \/ \E E \in SUBSET (Shown(w) \cup {Unknown}), N \in SUBSET Names :
                CreateNote(w, E, N) \/ StoreMedia(w, E, N)
    \/ \E i \in {j \in DOMAIN items : Living(j)} :
          \/ AdoptKind(i) \/ SetFields(i) \/ UpdateNote(i)
          \/ DeleteNote(i) \/ DeleteMedia(i) \/ DeleteEntity(i)
          \/ \E s \in Statuses : MoveEntity(i, s)
          \/ \E e \in Ids \cup {Unknown} :
                \/ LinkNoteEntity(i, e) \/ LinkMediaEntity(i, e)
                \/ UnlinkNoteEntity(i, e) \/ UnlinkMediaEntity(i, e)
          \/ \E n \in Names : LinkNoteTag(i, n) \/ LinkMediaTag(i, n)
          \/ \E t \in DOMAIN tags : UnlinkNoteTag(i, t) \/ UnlinkMediaTag(i, t)
    \/ \E t \in DOMAIN tags : DeleteTag(t) \/ \E n \in Names : RenameTag(t, n)

Run ==
    \/ Tell \/ Refuse \/ Drop
    \/ \E e \in handler.ents : LinkNext(e)
    \/ \E n \in handler.names : MakeTag(n) \/ LabelNext(n)
    \/ \E l \in handler.left : UnlinkNext(l)

Next == User \/ Run \/ Slip

Spec == Init /\ [][Next]_vars

-----------------------------------------------------------------------------
(* Properties *)

\* The variables hold what the tables and the code can hold.
TypeOK ==
    /\ DOMAIN items \subseteq Ids
    /\ \A i \in DOMAIN items :
          items[i] \in [ws : Spaces, status : Statuses, gone : BOOLEAN]
    /\ nextTag \in 1 .. MaxTags + 1 /\ DOMAIN tags \subseteq 1 .. nextTag - 1
    /\ \A t \in DOMAIN tags : tags[t] \in [ws : Spaces, name : Names]
    /\ links \subseteq (DOMAIN items) \X (DOMAIN items)
    /\ labels \subseteq (DOMAIN items) \X (DOMAIN tags)
    /\ slips \in 0 .. MaxSlips

\* engine.py on delete_milestone: no ghost references.  A deleted entity has no link
\* and a link never leaves its workspace, wherever an operation was cut off.
NoGhosts ==
    \A l \in links : /\ ~items[l[2]].gone
                     /\ items[l[1]].ws = items[l[2]].ws

\* events.py: the timeline can be replayed.  What the last event says of an item is
\* what the item is, but for one item for each fault.
Told(i) == /\ i \in DOMAIN story
           /\ IF i[1] = "tag" THEN story[i].gone = (i[2] \notin DOMAIN tags)
              ELSE /\ story[i].gone = items[i].gone
                   /\ story[i].status = items[i].status

Heard == DOMAIN items \cup {<<"tag", t>> : t \in 1 .. nextTag - 1}

StoryHolds == Cardinality({i \in Heard : ~Told(i) /\ handler.say.of # i}) <= slips

\* A search finds what it is asked for: the newest living rows of the workspace with
\* every, or any, of the filters; with "and" as long as the first filter alone does
\* not fill twice the limit.
Asked(k, w, F, every) ==
    {i \in LivingOf(k, w) : \/ F = {}
                            \/ every /\ \A S \in F : i \in S
                            \/ ~every /\ \E S \in F : i \in S}

UpTo2(S) == {<<>>} \cup {<<a>> : a \in S} \cup {<<a, b>> : a \in S, b \in S}

SearchIsRight ==
    Idle => \A w \in Spaces, every \in BOOLEAN :
        \A E \in UpTo2({e \in DOMAIN items : e[1] = "entity"}),
           T \in UpTo2({t \in DOMAIN tags : tags[t].ws = w}) :
            LET F == [x \in DOMAIN E |-> Linked(E[x])] \o [x \in DOMAIN T |-> Labelled(T[x])]
                Spared(k) == F = <<>> \/ Cardinality(LivingOf(k, w) \cap F[1]) <= 2
                Right(k) == Newest(Asked(k, w, {F[x] : x \in DOMAIN F}, every), 1)
            IN /\ (every => Spared("note")) => FindNotes(w, E, T, every, 1) = Right("note")
               /\ (every => Spared("media")) => FindMedia(w, E, T, every, 1) = Right("media")

\* the state that KnowledgePromise speaks of
StateOf(r) == IF r.gone THEN "gone" ELSE IF r.status = "archived" THEN "hidden"
              ELSE IF r.status = "done" THEN "done" ELSE "open"

Promise == INSTANCE KnowledgePromise WITH
    Items <- Ids,
    shelf <- [i \in DOMAIN items |->
                [ws |-> items[i].ws, kind |-> i[1], state |-> StateOf(items[i])]],
    tagged <- [t \in DOMAIN tags |-> tags[t].ws]

\* Every step is a step of the promise, or none.
PromiseKept == Promise!Spec
=============================================================================
