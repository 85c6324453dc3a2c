------------------------------- MODULE Pages -------------------------------
(***************************************************************************)
(* The pages of the control plane (core/control/pages.py) as functions of  *)
(* the stored rows: which page a callback opens and which callbacks its    *)
(* keyboard offers.  A page only reads.                                    *)
(*                                                                         *)
(* A callback "ctl:note:unlink-tag:4:2" is <<"note:unlink-tag", 4, 2>>:    *)
(* what it does, the row it names and a second row or a page number, 0     *)
(* when there is none.  Texts are left out.                                *)
(***************************************************************************)
EXTENDS Integers, SequencesExt

CONSTANTS
    Projected,     \* a Telegram projection is wired
    LinkedSpaces   \* workspaces linked to a group

ASSUME PagesWired == Projected \in BOOLEAN /\ LinkedSpaces \subseteq Nat

MaxButtons == 12
\* those of notes, media and tags are set further down pages.py
PageLen == [ws |-> 6, ent |-> 5, topic |-> 4, equip |-> 6, note |-> 6, media |-> 5, tag |-> 8, search |-> 5]
EntityKinds == {"character", "weapon", "artifact", "entity"}
Tables == {"ws", "ent", "note", "media", "tag"}

To(verb) == <<verb, 0, 0>>
Of(verb, id) == <<verb, id, 0>>
With(verb, id, other) == <<verb, id, other>>

\* the verbs of a list's kind
ListOf == [character |-> "ent:list:character", weapon |-> "ent:list:weapon",
           artifact |-> "ent:list:artifact", entity |-> "ent:list:entity", all |-> "ent:list:all"]
AddOf == [character |-> "ent:add:character", weapon |-> "ent:add:weapon",
          artifact |-> "ent:add:artifact", entity |-> "ent:add:entity", all |-> "ent:add:all"]

-----------------------------------------------------------------------------
(* Reading the rows: d is the stored state *)

Living(d, k, id) == <<k, id>> \in DOMAIN d.rows /\ d.rows[<<k, id>>].is # "gone"
SpaceOf(d, k, id) == d.rows[<<k, id>>].space
LivingIn(d, k, w) == {key[2] : key \in {x \in DOMAIN d.rows :
                                          x[1] = k /\ Living(d, k, x[2]) /\ d.rows[x].space = w}}
Active(d) == d.active.space

\* find_entity: an entity of the active workspace
FindEntity(d, id) == id \in LivingIn(d, "ent", Active(d))

KindOf(d, id) == d.rows[<<"ent", id>>].label
OfKind(d, kind) == {id \in LivingIn(d, "ent", Active(d)) : kind \in {"all", KindOf(d, id)}}
TagsNamed(d, w, name) == {id \in LivingIn(d, "tag", w) : d.rows[<<"tag", id>>].label = name}

EntitiesOf(d, k, id) == {l[2][2] : l \in {x \in d.links : x[1] = <<k, id>>}}
TagsOf(d, k, id) == {l[2][2] : l \in {x \in d.labels : x[1] = <<k, id>>}}
TaggedWith(d, k, t) == {l[1][2] : l \in {x \in d.labels : x[2] = <<"tag", t>> /\ x[1][1] = k}}

ListVerbs == {ListOf[kind] : kind \in DOMAIN ListOf}
\* the kind a list's verb lists
KindListed(verb) == CHOOSE kind \in DOMAIN ListOf : verb = ListOf[kind]

\* rows by number, and the last ones first
Ascending(S) ==
    LET last == IF S = {} THEN 0 ELSE Max(S)
        f[n \in 0 .. last] ==
            IF n = 0 THEN <<>> ELSE IF n \in S THEN Append(f[n - 1], n) ELSE f[n - 1]
    IN f[last]
Newest(S) == Reverse(Ascending(S))

-----------------------------------------------------------------------------
(* ui_components *)

Nav(back, refresh) == <<back, refresh>>

Error == [is |-> "error", buttons |-> Nav(To("home"), To("home"))]
Missing == [is |-> "missing", buttons |-> Nav(To("home"), To("home"))]
NoSpace == [is |-> "no workspace", buttons |-> <<To("ws:home"), To("ws:home")>>]

\* keyboard: more buttons than the cap raise, and the dispatcher shows the error
Page(buttons) ==
    IF Len(buttons) > MaxButtons THEN Error ELSE [is |-> "page", buttons |-> buttons]

Pages(items, per) == IF items = <<>> THEN 1 ELSE (Len(items) + per - 1) \div per
Clamped(page, pages) == IF page < 1 THEN 1 ELSE IF page > pages THEN pages ELSE page

\* the rows of a page and its pagination row
Paginate(items, page, per) ==
    LET start == (Clamped(page, Pages(items, per)) - 1) * per
    IN SubSeq(items, start + 1, IF start + per < Len(items) THEN start + per ELSE Len(items))

Pager(verb, items, page, per) ==
    LET all == Pages(items, per)
        at == Clamped(page, all)
    IN IF all = 1 THEN <<>>
       ELSE (IF at > 1 THEN <<With(verb, 0, at - 1)>> ELSE <<>>) \o <<To("noop")>>
            \o (IF at < all THEN <<With(verb, 0, at + 1)>> ELSE <<>>)

Rows(verb, items) == [i \in DOMAIN items |-> Of(verb, items[i])]
Listed(verb, items, page, per) == Rows(verb, Paginate(items, page, per))

-----------------------------------------------------------------------------
(* Workspaces and entities *)

ControlHome ==
    Page(<<To("ws:home"), To("ent:list"), To("topic:home"), To("ident:active"), To("eq:home"),
           To("search:home"), To("note:home"), To("media:home"), To("tag:home"), To("home")>>)

\* always the first page
WorkspacePage(d) ==
    LET all == Ascending({x[2] : x \in {y \in DOMAIN d.rows : y[1] = "ws"}})
    IN Page(<<To("ws:create")>> \o Listed("ws:detail", all, 1, PageLen.ws)
            \o Nav(To("home"), To("ws:home")) \o Pager("ws:home:p", all, 1, PageLen.ws))

WorkspaceDetail(id) ==
    Page(<<Of("ws:open", id), Of("ws:close", id), Of("ws:inspect", id), Of("ws:rename", id),
           Of("ws:archive", id), To("ent:list"), To("topic:home"), To("ws:home"), Of("ws:detail", id)>>)

WorkspaceInspect(id) == Page(<<Of("ws:detail", id), Of("ws:inspect", id), To("home")>>)

EntityHub ==
    Page(<<To("ent:add"), To(ListOf.character), To(ListOf.weapon), To(ListOf.artifact),
           To(ListOf.entity), To(ListOf.all), To("home"), To("ent:list")>>)

EntityList(d, kind, page) ==
    LET all == Ascending(OfKind(d, kind))
    IN Page(<<To(AddOf[kind])>> \o Listed("ent:view", all, page, PageLen.ent)
            \o Nav(To("ent:list"), To(ListOf[kind])) \o Pager(ListOf[kind], all, page, PageLen.ent))

EntityDetail(d, id) ==
    Page(<<Of("ent:edit", id), Of("ident", id), Of("topic:view", id)>>
         \o (IF KindOf(d, id) = "character" THEN <<Of("eq:pick", id)>> ELSE <<>>)
         \o <<Of("ent:del", id)>> \o Nav(To(ListOf[KindOf(d, id)]), Of("ent:view", id)))

TopicCenter(d, page) ==
    LET all == Ascending(OfKind(d, "all"))
    IN Page(<<To("topic:repair")>> \o Listed("topic:view", all, page, PageLen.topic)
            \o Nav(To("home"), To("topic:home")) \o Pager("topic:home:p", all, page, PageLen.topic))

TopicDetail(id) ==
    Page(<<Of("topic:ensure", id), Of("topic:lock", id), Of("topic:unlock", id), Of("topic:del", id),
           Of("ident", id), To("topic:home"), Of("topic:view", id)>>)

IdentityInspector(id) ==
    Page(<<Of("ent:view", id), Of("topic:view", id), To("topic:home"), Of("ident", id)>>)

NoIdentity == Page(Nav(To("home"), To("ident:active")))

EquipHome(d, page) ==
    LET all == Ascending(OfKind(d, "character"))
    IN Page(Nav(To("home"), To("eq:home")) \o Listed("eq:pick", all, page, PageLen.equip)
            \o Pager("eq:home:p", all, page, PageLen.equip))

\* every weapon, with no paging
EquipPick(d, id) ==
    LET weapons == Ascending(OfKind(d, "weapon"))
    IN Page([i \in DOMAIN weapons |-> With("eq:set", id, weapons[i])]
            \o (IF id \in d.worn THEN <<Of("eq:unequip", id)>> ELSE <<>>)
            \o Nav(To("eq:home"), Of("eq:pick", id)))

-----------------------------------------------------------------------------
(* Notes, media, tags *)

\* found is the list or, with a search, what matches: that one has no paging
NoteHome(found, searched, page) ==
    LET all == Newest(found)
    IN Page(<<To("note:add"), To(IF searched THEN "note:home" ELSE "note:search")>>
            \o Listed("note:view", all, page, PageLen.note) \o Nav(To("home"), To("note:home"))
            \o (IF searched THEN <<>> ELSE Pager("note:home:p", all, page, PageLen.note)))

Unlinks(d, k, id, ent, tag) ==
    LET entities == Ascending(EntitiesOf(d, k, id))
        tags == Ascending(TagsOf(d, k, id))
    IN [i \in DOMAIN entities |-> With(ent, id, entities[i])] \o [i \in DOMAIN tags |-> With(tag, id, tags[i])]

NoteView(d, id) ==
    Page(<<Of("note:edit", id), Of("note:del", id)>>
         \o (IF Projected /\ EntitiesOf(d, "note", id) # {} THEN <<Of("note:post", id)>> ELSE <<>>)
         \o <<Of("note:link-ent", id), Of("note:link-tag", id)>>
         \o Unlinks(d, "note", id, "note:unlink-ent", "note:unlink-tag")
         \o Nav(To("note:home"), Of("note:view", id)))

MediaHome(found, filtered, page) ==
    LET all == Newest(found)
    IN Page((IF filtered THEN <<To("media:search"), To("media:home")>>
             ELSE <<To("media:list"), To("media:list"), To("media:list"), To("media:list"), To("media:search")>>)
            \o Listed("media:view", all, page, PageLen.media) \o Nav(To("home"), To("media:home"))
            \o (IF filtered THEN <<>> ELSE Pager("media:home:p", all, page, PageLen.media)))

MediaView(d, id) ==
    Page(<<Of("media:edit", id), Of("media:del", id), Of("media:link-ent", id), Of("media:link-tag", id)>>
         \o Unlinks(d, "media", id, "media:unlink-ent", "media:unlink-tag")
         \o Nav(To("media:home"), Of("media:view", id)))

TagHome(d, page) ==
    LET all == Ascending(LivingIn(d, "tag", Active(d)))
    IN Page(<<To("tag:add")>> \o Listed("tag:view", all, page, PageLen.tag)
            \o Nav(To("home"), To("tag:home")) \o Pager("tag:home:p", all, page, PageLen.tag))

FirstTen(S) == LET all == Ascending(S) IN SubSeq(all, 1, IF Len(all) < 10 THEN Len(all) ELSE 10)

TagView(d, id) ==
    Page(<<Of("tag:rename", id), Of("tag:del", id)>> \o Rows("note:view", FirstTen(TaggedWith(d, "note", id)))
         \o Rows("media:view", FirstTen(TaggedWith(d, "media", id)))
         \o Nav(To("tag:home"), Of("tag:view", id)))

SearchConfig ==
    Page(<<To("search:execute"), To("search:clear"), To("search:ws"), To("search:entities"), To("search:tags"),
           To("search:mode"), To("search:dates"), To("search:mtype"), To("search:scope"), To("search:kind"),
           To("home"), To("search:home")>>)

\* hits: the notes and media found, as callbacks
SearchResults(hits) ==
    LET shown == SubSeq(hits, 1, IF Len(hits) < PageLen.search THEN Len(hits) ELSE PageLen.search)
    IN Page(<<To("search:gather"), To("search:clear"), To("search:ws"), To("search:entities"), To("search:tags"),
              To("search:mode"), To("search:dates"), To("search:mtype"), To("search:scope")>>
            \o shown \o Nav(To("home"), To("search:home"))
            \o (IF Len(hits) > PageLen.search
                THEN <<To("noop"), With("search:home:p", 0, 2)>> ELSE <<>>))

\* the workspace searched: with the scope "all" it is number 0, and no workspace has it
SearchSpace(d, search) ==
    IF search.all THEN 0 ELSE IF search.space # 0 THEN search.space ELSE Active(d)

SearchHome(d, search, execute) ==
    LET w == SearchSpace(d, search)
        hits == Rows("note:view", Newest(LivingIn(d, "note", w))) \o Rows("media:view", Newest(LivingIn(d, "media", w)))
    IN IF w = 0 /\ ~search.all THEN NoSpace
       ELSE IF ~execute THEN SearchConfig
       ELSE IF w = 0 THEN Error ELSE SearchResults(hits)

-----------------------------------------------------------------------------
(* Routing *)

\* the pages that are about an entity of the active workspace
TopicVerbs == {"topic:view", "topic:ensure", "topic:lock", "topic:unlock", "topic:del", "topic:force"}
EntityVerbs == TopicVerbs \cup {"ent:view", "ent:edit", "ent:del", "ident", "eq:pick"}
NoteVerbs == {"note:view", "note:edit", "note:del", "note:post", "note:link-ent", "note:link-tag", "note:unlink-tag"}
MediaVerbs == {"media:view", "media:edit", "media:del", "media:link-ent", "media:link-tag", "media:unlink-tag"}
TagVerbs == {"tag:view", "tag:rename", "tag:del"}
Unlinking == {"note:unlink-ent", "media:unlink-ent"}

\* Is the row there that a callback is about?  Notes, media and tags are looked
\* for in every workspace, entities in the active one.
Finds(d, cb) ==
    /\ cb[1] \in EntityVerbs => FindEntity(d, cb[2])
    /\ cb[1] \in NoteVerbs => Living(d, "note", cb[2])
    /\ cb[1] \in MediaVerbs => Living(d, "media", cb[2])
    /\ cb[1] \in TagVerbs => Living(d, "tag", cb[2])
    /\ cb[1] \in {"note:unlink-tag", "media:unlink-tag"} => Living(d, "tag", cb[3])
    /\ cb[1] \in Unlinking => Living(d, "ent", cb[3])
    /\ cb[1] \in {"ws:detail", "ws:inspect"} => Living(d, "ws", cb[2])
    /\ cb[1] = "ident:active" /\ Active(d) # 0 /\ d.active.entity # 0 => FindEntity(d, d.active.entity)

\* pages that need no active workspace
Anywhere == {"home", "ws:home", "ws:detail", "ws:inspect", "ident:active", "search:home", "search:execute"}

\* _route_page and the pages search_home shows
Render(d, search, cb) ==
    IF cb[1] \notin Anywhere /\ Active(d) = 0
    THEN IF cb[1] \in EntityVerbs \ TopicVerbs THEN Missing ELSE NoSpace
    ELSE IF ~Finds(d, cb) THEN Missing
    ELSE CASE cb[1] = "home" -> ControlHome
           [] cb[1] = "ws:home" -> WorkspacePage(d)
           [] cb[1] = "ws:detail" -> WorkspaceDetail(cb[2])
           [] cb[1] = "ws:inspect" -> WorkspaceInspect(cb[2])
           [] cb[1] = "ent:list" -> EntityHub
           [] cb[1] \in ListVerbs -> EntityList(d, KindListed(cb[1]), cb[3])
           [] cb[1] = "ent:view" -> EntityDetail(d, cb[2])
           [] cb[1] = "topic:home" -> TopicCenter(d, 1)
           [] cb[1] = "topic:view" -> TopicDetail(cb[2])
           [] cb[1] = "ident" -> IdentityInspector(cb[2])
           [] cb[1] = "ident:active" ->
                  IF Active(d) = 0 \/ d.active.entity = 0 THEN NoIdentity ELSE IdentityInspector(d.active.entity)
           [] cb[1] \in {"eq:home", "eq:home:p"} -> EquipHome(d, cb[3])
           [] cb[1] = "eq:pick" -> EquipPick(d, cb[2])
           [] cb[1] \in {"note:home", "note:home:p"} -> NoteHome(LivingIn(d, "note", Active(d)), FALSE, cb[3])
           [] cb[1] = "note:view" -> NoteView(d, cb[2])
           [] cb[1] \in {"media:home", "media:home:p"} -> MediaHome(LivingIn(d, "media", Active(d)), FALSE, cb[3])
           [] cb[1] = "media:list" -> MediaHome(LivingIn(d, "media", Active(d)), TRUE, 1)
           [] cb[1] = "media:view" -> MediaView(d, cb[2])
           [] cb[1] \in {"tag:home", "tag:home:p"} -> TagHome(d, cb[3])
           [] cb[1] = "tag:view" -> TagView(d, cb[2])
           [] cb[1] = "search:home" -> SearchHome(d, [all |-> FALSE, space |-> 0], FALSE)
           [] cb[1] = "search:execute" -> SearchHome(d, search, TRUE)

PageVerbs == Anywhere \cup {"ent:list"} \cup ListVerbs
             \cup {"topic:home", "eq:home", "note:home", "media:home", "media:list", "tag:home"}
RowPages == [ws |-> {"ws:detail", "ws:inspect"}, ent |-> {"ent:view", "topic:view", "ident", "eq:pick"},
             note |-> {"note:view"}, media |-> {"media:view"}, tag |-> {"tag:view"}]

\* the lists whose pagers reach another page
PagedVerbs == ListVerbs \cup {"eq:home:p", "note:home:p", "media:home:p", "tag:home:p"}

\* every page there is in a stored state: a list has no more pages than rows, and what
\* would be the page after the last is the last
Targets(d) ==
    {To(v) : v \in PageVerbs \ {"ws:detail", "ws:inspect"}}
    \cup {With(v, 0, key[2]) : v \in PagedVerbs, key \in DOMAIN d.rows}
    \cup UNION {{Of(v, key[2]) : v \in RowPages[key[1]]} : key \in DOMAIN d.rows}
=============================================================================
