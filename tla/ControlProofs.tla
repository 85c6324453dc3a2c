---------------------------- MODULE ControlProofs ---------------------------
(***************************************************************************)
(* What stands between a wish and its effect, and two parts that need few  *)
(* proofs.  The buttons of the control plane (Control) run what is on the  *)
(* screen, on the row it names, and no locked topic goes unless forced;    *)
(* those of a page just drawn (Pages) find their row.                      *)
(* The streaks of the habits (Habits) agree with their log, for any users, *)
(* rows and days.  As long as processes end by dying only, the instance    *)
(* lock (Lock) lets one run.  The three share no state.                    *)
(***************************************************************************)
EXTENDS Control, Habits, FiniteSetTheorems, WellFoundedInduction, TLAPS

CONSTANTS Loops, MaxFiles
VARIABLES phase, fd, holder, path, files

Lock == INSTANCE InstanceLock

-----------------------------------------------------------------------------
(* The control plane: calls and the states they run on *)

AboutOf(d, c) ==
    {c.on} \cup {key \in {NextKey(d, k) : k \in Tables} :
                    c.on = NoKey \/ (c.tool = "link_tag" /\ key[1] = "tag")}

\* A call as a button or an answer makes it: what creates names no row.
Made(c) == c.tool \in {"create_workspace", "create_entity", "create_note", "create_tag"} => c.on = NoKey

\* What a tool may do: the tables stay in order, rows and links of what it is about
\* change and no others, and no locked topic goes without force.
Proper(d, c, e) ==
    /\ Stored(e, Nat)
    /\ c.tool \notin {"rename_tag", "delete_tag"} =>
          Touched(d, e) \subseteq AboutOf(d, c) /\ \A l \in Bound(d, e) : c.on \in {l[1], l[2]}
    /\ c.tool # "force_topic" =>
          \A x \in DOMAIN d.topics : d.topics[x] = "locked" => e.topics[x] # "none"

-----------------------------------------------------------------------------
(* Keys *)

LEMMA NextKeyIs ==
    ASSUME NEW d, Stored(d, Nat), NEW k \in Tables
    PROVE  /\ NextKey(d, k) \notin DOMAIN d.rows
           /\ NextKey(d, k) = <<k, NextKey(d, k)[2]>>
           /\ NextKey(d, k)[1] = k /\ NextKey(d, k)[2] \in Nat
           /\ \E n \in Nat : /\ {x \in DOMAIN d.rows : x[1] = k} = {<<k, m>> : m \in 1 .. n}
                             /\ NextKey(d, k) = <<k, n + 1>>
  <1>1. PICK n \in Nat : {x \in DOMAIN d.rows : x[1] = k} = {<<k, m>> : m \in 1 .. n}
    BY DEF Stored
  <1> DEFINE S == {<<k, m>> : m \in 1 .. n}
             f == [m \in 1 .. n |-> <<k, m>>]
  <1>2. f \in Bijection(1 .. n, S)
    BY DEF Bijection, Injection, Surjection, IsInjective
  <1>3. Cardinality(S) = n
    BY <1>2, FS_CountingElements DEF ExistsBijection
  <1>4. NextKey(d, k) = <<k, n + 1>>
    <2> DEFINE T == {x \in DOMAIN d.rows : x[1] = k}
    <2>1. NextKey(d, k) = <<k, 1 + Cardinality(T)>>
      BY DEF NextKey
    <2>2. Cardinality(T) = n
      BY <1>1, <1>3
    <2> HIDE DEF T
    <2>3. 1 + n = n + 1
      OBVIOUS
    <2> QED BY <2>1, <2>2, <2>3
  <1>5. <<k, n + 1>> \notin S
    OBVIOUS
  <1> QED BY <1>1, <1>4, <1>5

-----------------------------------------------------------------------------
(* Ways to change a stored state *)

\* the rows, links and topics are as they were
LEMMA RowsKept ==
    ASSUME NEW d, Stored(d, Nat), NEW c, NEW e, DOMAIN e = DOMAIN d, e.rows = d.rows,
           e.links = d.links, e.labels = d.labels, e.topics = d.topics,
           DOMAIN e.active = {"space", "entity"}
    PROVE  Proper(d, c, e)
  <1>1. Stored(e, Nat)
    BY DEF Stored
  <1>2. Touched(d, e) = {} /\ Bound(d, e) = {}
    BY DEF Touched, Bound
  <1> QED BY <1>1, <1>2 DEF Proper

LEMMA TopicsSet ==
    ASSUME NEW d, Stored(d, Nat), NEW c, NEW e, DOMAIN e = DOMAIN d, e.rows = d.rows,
           e.links = d.links, e.labels = d.labels, e.active = d.active, DOMAIN e.topics = DOMAIN d.topics,
           c.tool # "force_topic" =>
              \A x \in DOMAIN d.topics : d.topics[x] = "locked" => e.topics[x] # "none"
    PROVE  Proper(d, c, e)
  <1>1. Stored(e, Nat)
    BY DEF Stored
  <1>2. Touched(d, e) = {} /\ Bound(d, e) = {}
    BY DEF Touched, Bound
  <1> QED BY <1>1, <1>2 DEF Proper

\* a row changes, and links and labels of it
LEMMA RowSet ==
    ASSUME NEW d, Stored(d, Nat), NEW c, NEW e, DOMAIN e = DOMAIN d, DOMAIN e.rows = DOMAIN d.rows,
           c.tool \notin {"rename_tag", "delete_tag"} =>
              /\ \A x \in DOMAIN d.rows : x # c.on => e.rows[x] = d.rows[x]
              /\ \A l \in Bound(d, e) : c.on \in {l[1], l[2]},
           e.topics = d.topics, DOMAIN e.active = {"space", "entity"}
    PROVE  Proper(d, c, e)
  <1>1. Stored(e, Nat)
    BY DEF Stored
  <1>2. c.tool \notin {"rename_tag", "delete_tag"} => Touched(d, e) \subseteq AboutOf(d, c)
    BY DEF Touched, AboutOf
  <1> QED BY <1>1, <1>2 DEF Proper

\* a row is new
LEMMA RowNew ==
    ASSUME NEW d, Stored(d, Nat), NEW c, NEW k \in Tables,
           c.on = NoKey \/ (c.tool = "link_tag" /\ k = "tag"),
           NEW e, DOMAIN e = DOMAIN d, DOMAIN e.rows = DOMAIN d.rows \cup {NextKey(d, k)},
           \A x \in DOMAIN d.rows : e.rows[x] = d.rows[x],
           \A l \in Bound(d, e) : c.on \in {l[1], l[2]},
           DOMAIN e.topics = IF k = "ent" THEN DOMAIN d.topics \cup {NextKey(d, k)[2]} ELSE DOMAIN d.topics,
           \A x \in DOMAIN d.topics : e.topics[x] = d.topics[x],
           DOMAIN e.active = {"space", "entity"}
    PROVE  Proper(d, c, e)
  <1>1. PICK n \in Nat : /\ {x \in DOMAIN d.rows : x[1] = k} = {<<k, m>> : m \in 1 .. n}
                         /\ NextKey(d, k) = <<k, n + 1>>
    BY NextKeyIs
  <1>2. {x \in DOMAIN e.rows : x[1] = k} = {<<k, m>> : m \in 1 .. n + 1}
    <2>1. {x \in DOMAIN e.rows : x[1] = k} = {x \in DOMAIN d.rows : x[1] = k} \cup {<<k, n + 1>>}
      BY <1>1
    <2>2. {<<k, m>> : m \in 1 .. n + 1} = {<<k, m>> : m \in 1 .. n} \cup {<<k, n + 1>>}
      OBVIOUS
    <2> QED BY <1>1, <2>1, <2>2
  <1>3. \A j \in Tables \ {k} : {x \in DOMAIN e.rows : x[1] = j} = {x \in DOMAIN d.rows : x[1] = j}
    BY <1>1
  <1>4. \A j \in Tables : \E i \in Nat : {x \in DOMAIN e.rows : x[1] = j} = {<<j, m>> : m \in 1 .. i}
    <2>1. n + 1 \in Nat
      OBVIOUS
    <2> QED BY <1>2, <1>3, <2>1 DEF Stored
  <1>5. DOMAIN e.topics = {x[2] : x \in {y \in DOMAIN e.rows : y[1] = "ent"}}
    <2>1. CASE k = "ent"
      BY <1>1, <2>1 DEF Stored
    <2>2. CASE k # "ent"
      BY <1>1, <2>2 DEF Stored
    <2> QED BY <2>1, <2>2
  <1>6. Stored(e, Nat)
    <2>1. \A x \in DOMAIN e.rows : x[1] \in Tables
      BY <1>1 DEF Stored
    <2>2. DOMAIN e = {"rows", "links", "labels", "topics", "worn", "active", "hidden"}
      BY DEF Stored
    <2> QED BY <1>4, <1>5, <2>1, <2>2 DEF Stored
  <1>7. Touched(d, e) \subseteq AboutOf(d, c)
    <2>1. Touched(d, e) \subseteq {NextKey(d, k)}
      BY DEF Touched
    <2>2. NextKey(d, k) \in AboutOf(d, c)
      BY <1>1 DEF AboutOf
    <2> QED BY <2>1, <2>2
  <1>8. \A x \in DOMAIN d.topics : d.topics[x] = "locked" => e.topics[x] # "none"
    OBVIOUS
  <1> QED BY <1>6, <1>7, <1>8 DEF Proper

-----------------------------------------------------------------------------
(* The tools *)

LEMMA PutIs ==
    ASSUME NEW d, Stored(d, Nat), NEW key, NEW row, NEW e, e = Put(d, key, row)
    PROVE  /\ DOMAIN e = DOMAIN d /\ DOMAIN e.rows = DOMAIN d.rows \cup {key}
           /\ \A x \in DOMAIN d.rows : x # key => e.rows[x] = d.rows[x]
           /\ e.links = d.links /\ e.labels = d.labels /\ e.topics = d.topics /\ e.active = d.active
           /\ e.hidden = d.hidden
BY DEF Put, Stored

LEMMA Created ==
    ASSUME NEW d, Stored(d, Nat), NEW c, NEW k \in Tables \ {"ent"}, NEW row,
           c.on = NoKey \/ (c.tool = "link_tag" /\ k = "tag")
    PROVE  Proper(d, c, Put(d, NextKey(d, k), row))
  <1> DEFINE e == Put(d, NextKey(d, k), row)
  <1>1. NextKey(d, k) \notin DOMAIN d.rows
    BY NextKeyIs
  <1>2. /\ DOMAIN e = DOMAIN d /\ DOMAIN e.rows = DOMAIN d.rows \cup {NextKey(d, k)}
        /\ \A x \in DOMAIN d.rows : e.rows[x] = d.rows[x]
        /\ e.links = d.links /\ e.labels = d.labels /\ e.topics = d.topics /\ e.active = d.active
    BY <1>1, PutIs
  <1>3. Bound(d, e) = {}
    BY <1>2 DEF Bound
  <1>4. DOMAIN e.active = {"space", "entity"}
    BY <1>2 DEF Stored
  <1> HIDE DEF e
  <1>5. Proper(d, c, e)
    BY <1>2, <1>3, <1>4, RowNew
  <1> QED BY <1>5 DEF e

LEMMA CreateWorkspaceProper ==
    ASSUME NEW d, Stored(d, Nat), NEW c, c.on = NoKey
    PROVE  Proper(d, c, CreateWorkspace(d, c))
  <1> DEFINE key == NextKey(d, "ws")
             p == Put(d, key, Row(key[2], "ws"))
             e == Opens(p, key[2], 0)
  <1>1. key \notin DOMAIN d.rows
    BY NextKeyIs DEF Tables
  <1>2. /\ DOMAIN p = DOMAIN d /\ DOMAIN p.rows = DOMAIN d.rows \cup {key}
        /\ \A x \in DOMAIN d.rows : p.rows[x] = d.rows[x]
        /\ p.links = d.links /\ p.labels = d.labels /\ p.topics = d.topics
    BY <1>1, PutIs
  <1> HIDE DEF p
  <1>3. /\ DOMAIN e = DOMAIN d /\ DOMAIN e.rows = DOMAIN d.rows \cup {key}
        /\ \A x \in DOMAIN d.rows : e.rows[x] = d.rows[x]
        /\ e.links = d.links /\ e.labels = d.labels /\ e.topics = d.topics
        /\ DOMAIN e.active = {"space", "entity"}
    BY <1>2 DEF Opens, Stored
  <1>4. Bound(d, e) = {}
    BY <1>3 DEF Bound
  <1>5. e = CreateWorkspace(d, c)
    BY DEF CreateWorkspace, p
  <1> HIDE DEF e
  <1> QED BY <1>3, <1>4, <1>5, RowNew DEF Tables

LEMMA CreateEntityProper ==
    ASSUME NEW d, Stored(d, Nat), NEW c, c.on = NoKey, NEW topic
    PROVE  Proper(d, c, CreateEntity(d, c, topic))
  <1> DEFINE key == NextKey(d, "ent")
             p == Put(d, key, Row(c.space, c.name))
             e == CreateEntity(d, c, topic)
  <1>1. key \notin DOMAIN d.rows /\ key = <<"ent", key[2]>>
    BY NextKeyIs DEF Tables
  <1>2. /\ DOMAIN p = DOMAIN d /\ DOMAIN p.rows = DOMAIN d.rows \cup {key}
        /\ \A x \in DOMAIN d.rows : p.rows[x] = d.rows[x]
        /\ p.links = d.links /\ p.labels = d.labels /\ p.active = d.active
    BY <1>1, PutIs
  <1>3. e = [p EXCEPT !.topics = [x \in DOMAIN d.topics \cup {key[2]} |-> IF x = key[2] THEN topic ELSE d.topics[x]]]
    BY DEF CreateEntity
  <1>4. key[2] \notin DOMAIN d.topics
    BY <1>1 DEF Stored
  <1> HIDE DEF p, e
  <1>5. /\ DOMAIN e = DOMAIN d /\ DOMAIN e.rows = DOMAIN d.rows \cup {key}
        /\ \A x \in DOMAIN d.rows : e.rows[x] = d.rows[x]
        /\ e.links = d.links /\ e.labels = d.labels /\ e.active = d.active
        /\ DOMAIN e.topics = DOMAIN d.topics \cup {key[2]}
        /\ \A x \in DOMAIN d.topics : e.topics[x] = d.topics[x]
    BY <1>2, <1>3, <1>4 DEF Stored
  <1>6. Bound(d, e) = {} /\ DOMAIN e.active = {"space", "entity"}
    BY <1>5 DEF Bound, Stored
  <1>7. Proper(d, c, e)
    BY <1>5, <1>6, RowNew DEF Tables
  <1> QED BY <1>7 DEF e

\* one row changes its state
LEMMA IsIs ==
    ASSUME NEW d, Stored(d, Nat), NEW key, NEW state, NEW e, e = Is(d, key, state)
    PROVE  /\ DOMAIN e = DOMAIN d /\ DOMAIN e.rows = DOMAIN d.rows
           /\ \A x \in DOMAIN d.rows : x # key => e.rows[x] = d.rows[x]
           /\ e.links = d.links /\ e.labels = d.labels /\ e.topics = d.topics /\ e.active = d.active
           /\ e.worn = d.worn /\ e.hidden = d.hidden
BY DEF Is, Stored

LEMMA Unchanged == ASSUME NEW d, Stored(d, Nat), NEW c PROVE Proper(d, c, d)
BY RowsKept DEF Stored

LEMMA RowStateProper ==
    ASSUME NEW d, Stored(d, Nat), NEW c, NEW state PROVE Proper(d, c, Is(d, c.on, state))
  <1> DEFINE e == Is(d, c.on, state)
  <1>1. /\ DOMAIN e = DOMAIN d /\ DOMAIN e.rows = DOMAIN d.rows
        /\ \A x \in DOMAIN d.rows : x # c.on => e.rows[x] = d.rows[x]
        /\ e.links = d.links /\ e.labels = d.labels /\ e.topics = d.topics /\ e.active = d.active
    BY IsIs
  <1>2. Bound(d, e) = {} /\ DOMAIN e.active = {"space", "entity"}
    BY <1>1 DEF Bound, Stored
  <1> HIDE DEF e
  <1>3. Proper(d, c, e)
    BY <1>1, <1>2, RowSet
  <1> QED BY <1>3 DEF e

LEMMA OpensProper ==
    ASSUME NEW d, Stored(d, Nat), NEW c, NEW w, NEW x PROVE Proper(d, c, Opens(d, w, x))
  <1> DEFINE e == Opens(d, w, x)
  <1>1. /\ DOMAIN e = DOMAIN d /\ e.rows = d.rows /\ e.links = d.links /\ e.labels = d.labels
        /\ e.topics = d.topics /\ DOMAIN e.active = {"space", "entity"}
    BY DEF Opens, Stored
  <1> HIDE DEF e
  <1>2. Proper(d, c, e)
    BY <1>1, RowsKept
  <1> QED BY <1>2 DEF e

LEMMA DeleteEntityProper ==
    ASSUME NEW d, Stored(d, Nat), NEW c PROVE Proper(d, c, DeleteEntity(d, c))
  <1> DEFINE e == DeleteEntity(d, c)
  <1>1. CASE ~There(d, c, c.on)
    BY <1>1, Unchanged DEF DeleteEntity
  <1>2. CASE There(d, c, c.on)
    <2> DEFINE p == Is(d, c.on, "gone")
               links == {l \in p.links : l[2] # c.on}
               act == IF p.active.entity = c.on[2] THEN [space |-> p.active.space, entity |-> 0] ELSE p.active
    <2>1. e = [p EXCEPT !.links = links, !.active = act]
      BY <1>2 DEF DeleteEntity
    <2>2. /\ DOMAIN p = DOMAIN d /\ DOMAIN p.rows = DOMAIN d.rows
          /\ \A x \in DOMAIN d.rows : x # c.on => p.rows[x] = d.rows[x]
          /\ p.links = d.links /\ p.labels = d.labels /\ p.topics = d.topics /\ p.active = d.active
      BY IsIs
    <2>3. DOMAIN act = {"space", "entity"}
      BY <2>2 DEF Stored
    <2> HIDE DEF p, act, e
    <2>4. /\ DOMAIN e = DOMAIN d /\ DOMAIN e.rows = DOMAIN d.rows
          /\ \A x \in DOMAIN d.rows : x # c.on => e.rows[x] = d.rows[x]
          /\ e.links = {l \in d.links : l[2] # c.on} /\ e.labels = d.labels /\ e.topics = d.topics
          /\ DOMAIN e.active = {"space", "entity"}
      BY <2>1, <2>2, <2>3 DEF Stored
    <2>5. \A l \in Bound(d, e) : c.on \in {l[1], l[2]}
      BY <2>4 DEF Bound
    <2>6. Proper(d, c, e)
      BY <2>4, <2>5, RowSet
    <2> QED BY <2>6 DEF e
  <1> QED BY <1>1, <1>2

LEMMA HideMilestoneProper ==
    ASSUME NEW d, Stored(d, Nat), NEW c, NEW how PROVE Proper(d, c, HideMilestone(d, c.on, how))
  <1> DEFINE e == HideMilestone(d, c.on, how)
  <1>1. CASE ~Alive(d, c.on)
    BY <1>1, Unchanged DEF HideMilestone
  <1>2. CASE Alive(d, c.on)
    <2> DEFINE p == Is(d, c.on, "gone")
               links == IF how = "deleted" THEN {l \in p.links : l[2] # c.on} ELSE p.links
               hidden == p.hidden \cup {c.on[2]}
    <2>1. e = [p EXCEPT !.links = links, !.hidden = hidden]
      BY <1>2 DEF HideMilestone
    <2>2. /\ DOMAIN p = DOMAIN d /\ DOMAIN p.rows = DOMAIN d.rows
          /\ \A x \in DOMAIN d.rows : x # c.on => p.rows[x] = d.rows[x]
          /\ p.links = d.links /\ p.labels = d.labels /\ p.topics = d.topics /\ p.active = d.active
      BY IsIs
    <2>3. links \subseteq d.links /\ \A l \in d.links \ links : l[2] = c.on
      BY <2>2
    <2> HIDE DEF p, links, hidden, e
    <2>4. /\ DOMAIN e = DOMAIN d /\ DOMAIN e.rows = DOMAIN d.rows
          /\ \A x \in DOMAIN d.rows : x # c.on => e.rows[x] = d.rows[x]
          /\ e.links = links /\ e.labels = d.labels /\ e.topics = d.topics
          /\ DOMAIN e.active = {"space", "entity"}
      BY <2>1, <2>2 DEF Stored
    <2>5. \A l \in Bound(d, e) : c.on \in {l[1], l[2]}
      BY <2>3, <2>4 DEF Bound
    <2>6. Proper(d, c, e)
      BY <2>4, <2>5, RowSet
    <2> QED BY <2>6 DEF e
  <1> QED BY <1>1, <1>2

LEMMA TopicProper ==
    ASSUME NEW d, Stored(d, Nat), NEW c, NEW x, NEW state,
           c.tool = "force_topic" \/ state # "none" \/ d.topics[x] # "locked"
    PROVE  Proper(d, c, Topic(d, x, state))
  <1> DEFINE e == Topic(d, x, state)
  <1>1. /\ DOMAIN e = DOMAIN d /\ e.rows = d.rows /\ e.links = d.links /\ e.labels = d.labels
        /\ e.active = d.active /\ DOMAIN e.topics = DOMAIN d.topics
        /\ \A y \in DOMAIN d.topics : e.topics[y] = IF y = x THEN state ELSE d.topics[y]
    BY DEF Topic, Stored
  <1> HIDE DEF e
  <1>2. Proper(d, c, e)
    BY <1>1, TopicsSet
  <1> QED BY <1>2 DEF e

LEMMA RepairTopicsProper ==
    ASSUME NEW d, Stored(d, Nat), NEW c PROVE Proper(d, c, RepairTopics(d))
  <1> DEFINE e == RepairTopics(d)
  <1>1. /\ DOMAIN e = DOMAIN d /\ e.rows = d.rows /\ e.links = d.links /\ e.labels = d.labels
        /\ e.active = d.active /\ DOMAIN e.topics = DOMAIN d.topics
        /\ \A y \in DOMAIN d.topics : e.topics[y] \in {"open", d.topics[y]}
    BY DEF RepairTopics, Stored
  <1> HIDE DEF e
  <1>2. Proper(d, c, e)
    BY <1>1, TopicsSet
  <1> QED BY <1>2 DEF e

LEMMA EquipItemProper ==
    ASSUME NEW d, Stored(d, Nat), NEW c PROVE Proper(d, c, EquipItem(d, c))
  <1> DEFINE e == EquipItem(d, c)
  <1>1. e = d \/ \E W : e = [d EXCEPT !.worn = W]
    BY DEF EquipItem
  <1>2. /\ DOMAIN e = DOMAIN d /\ e.rows = d.rows /\ e.links = d.links /\ e.labels = d.labels
        /\ e.active = d.active /\ e.topics = d.topics
    BY <1>1 DEF Stored
  <1> HIDE DEF e
  <1>3. Proper(d, c, e)
    BY <1>2, RowsKept DEF Stored
  <1> QED BY <1>3 DEF e

\* links and labels that name the row of the call
LEMMA BoundProper ==
    ASSUME NEW d, Stored(d, Nat), NEW c, NEW e, DOMAIN e = DOMAIN d, e.rows = d.rows, e.topics = d.topics,
           e.active = d.active, \A l \in Bound(d, e) : c.on = l[1]
    PROVE  Proper(d, c, e)
BY RowSet DEF Stored

LEMMA LinkEntityProper ==
    ASSUME NEW d, Stored(d, Nat), NEW c PROVE Proper(d, c, LinkEntity(d, c)) /\ Proper(d, c, UnlinkEntity(d, c))
  <1>1. ASSUME NEW L, NEW e, e = [d EXCEPT !.links = L],
               L \in {d.links \cup {<<c.on, c.to>>}, d.links \ {<<c.on, c.to>>}}
        PROVE  Proper(d, c, e)
    <2>1. /\ DOMAIN e = DOMAIN d /\ e.rows = d.rows /\ e.links = L /\ e.labels = d.labels
          /\ e.active = d.active /\ e.topics = d.topics
      BY <1>1 DEF Stored
    <2>2. Bound(d, e) \subseteq {<<c.on, c.to>>}
      BY <1>1, <2>1 DEF Bound
    <2> QED BY <2>1, <2>2, BoundProper
  <1>2. Proper(d, c, d)
    BY Unchanged
  <1>3. /\ LinkEntity(d, c) = d \/ LinkEntity(d, c) = [d EXCEPT !.links = d.links \cup {<<c.on, c.to>>}]
        /\ UnlinkEntity(d, c) = d \/ UnlinkEntity(d, c) = [d EXCEPT !.links = d.links \ {<<c.on, c.to>>}]
    BY DEF LinkEntity, UnlinkEntity
  <1> QED BY <1>1, <1>2, <1>3

LEMMA WithTagProper ==
    ASSUME NEW d, Stored(d, Nat), NEW c, NEW w, NEW name, c.on = NoKey \/ c.tool = "link_tag"
    PROVE  Proper(d, c, WithTag(d, w, name))
BY Created, Unchanged DEF WithTag, Tables

LEMMA UnlinkTagProper ==
    ASSUME NEW d, Stored(d, Nat), NEW c PROVE Proper(d, c, UnlinkTag(d, c))
  <1> DEFINE e == UnlinkTag(d, c)
             S == TagsNamed(d, Home(d, c.on), c.name)
             L == {<<c.on, <<"tag", t>>>> : t \in S}
  <1>1. e = d \/ e = [d EXCEPT !.labels = d.labels \ L]
    BY DEF UnlinkTag
  <1>2. \A l \in L : l[1] = c.on
    OBVIOUS
  <1> HIDE DEF e, L
  <1>3. /\ DOMAIN e = DOMAIN d /\ e.rows = d.rows /\ e.links = d.links /\ e.labels \in {d.labels, d.labels \ L}
        /\ e.active = d.active /\ e.topics = d.topics
    BY <1>1 DEF Stored
  <1>4. \A l \in Bound(d, e) : c.on = l[1]
    BY <1>2, <1>3 DEF Bound
  <1>5. Proper(d, c, e)
    BY <1>3, <1>4, BoundProper
  <1> QED BY <1>5 DEF e

\* the tag may be new, the labels are of the row of the call
LEMMA LinkTagProper ==
    ASSUME NEW d, Stored(d, Nat), NEW c, c.tool = "link_tag" PROVE Proper(d, c, LinkTag(d, c))
  <1>1. CASE ~Alive(d, c.on)
    BY <1>1, Unchanged DEF LinkTag
  <1>2. CASE Alive(d, c.on)
    <2> DEFINE p == WithTag(d, Home(d, c.on), c.name)
               S == TagsNamed(p, Home(d, c.on), c.name)
               L == {<<c.on, <<"tag", t>>>> : t \in S}
               e == LinkTag(d, c)
    <2>1. e = [p EXCEPT !.labels = p.labels \cup L]
      BY <1>2 DEF LinkTag
    <2>2. \A l \in L : l[1] = c.on
      OBVIOUS
    <2>3. p = d \/ \E row : p = Put(d, NextKey(d, "tag"), row)
      BY DEF WithTag
    <2>4. NextKey(d, "tag") \notin DOMAIN d.rows
      BY NextKeyIs DEF Tables
    <2>5. /\ DOMAIN p = DOMAIN d /\ DOMAIN p.rows \in {DOMAIN d.rows, DOMAIN d.rows \cup {NextKey(d, "tag")}}
          /\ \A x \in DOMAIN d.rows : p.rows[x] = d.rows[x]
          /\ p.links = d.links /\ p.labels = d.labels /\ p.topics = d.topics /\ p.active = d.active
      <3>1. CASE p = d
        BY <3>1
      <3>2. ASSUME NEW row, p = Put(d, NextKey(d, "tag"), row)
            PROVE  /\ DOMAIN p = DOMAIN d /\ DOMAIN p.rows = DOMAIN d.rows \cup {NextKey(d, "tag")}
                   /\ \A x \in DOMAIN d.rows : x # NextKey(d, "tag") => p.rows[x] = d.rows[x]
                   /\ p.links = d.links /\ p.labels = d.labels /\ p.topics = d.topics /\ p.active = d.active
        <4> HIDE DEF p
        <4> QED BY <3>2, PutIs
      <3> HIDE DEF p
      <3> QED BY <2>3, <2>4, <3>1, <3>2
    <2> HIDE DEF p, L, e
    <2>6. /\ DOMAIN e = DOMAIN d /\ DOMAIN e.rows \in {DOMAIN d.rows, DOMAIN d.rows \cup {NextKey(d, "tag")}}
          /\ \A x \in DOMAIN d.rows : e.rows[x] = d.rows[x]
          /\ e.links = d.links /\ e.labels = d.labels \cup L /\ e.topics = d.topics /\ e.active = d.active
      BY <2>1, <2>5 DEF Stored
    <2>7. \A l \in Bound(d, e) : c.on \in {l[1], l[2]}
      BY <2>2, <2>6 DEF Bound
    <2>8. DOMAIN e.active = {"space", "entity"}
      BY <2>6 DEF Stored
    <2>9. Proper(d, c, e)
      <3>1. CASE DOMAIN e.rows = DOMAIN d.rows
        BY <2>6, <2>7, <2>8, <3>1, RowSet
      <3>2. CASE DOMAIN e.rows = DOMAIN d.rows \cup {NextKey(d, "tag")}
        BY <2>6, <2>7, <2>8, <3>2, RowNew DEF Tables
      <3> QED BY <2>6, <3>1, <3>2
    <2> QED BY <2>9 DEF e
  <1> QED BY <1>1, <1>2

LEMMA RenameTagProper ==
    ASSUME NEW d, Stored(d, Nat), NEW c, c.tool = "rename_tag" PROVE Proper(d, c, RenameTag(d, c))
  <1> DEFINE e == RenameTag(d, c)
  <1>1. e = d \/ \E t : e = [d EXCEPT !.rows[<<"tag", t>>].label = c.new]
    BY DEF RenameTag
  <1> HIDE DEF e
  <1>2. /\ DOMAIN e = DOMAIN d /\ DOMAIN e.rows = DOMAIN d.rows /\ e.topics = d.topics /\ e.active = d.active
    BY <1>1 DEF Stored
  <1>3. Proper(d, c, e)
    BY <1>2, RowSet DEF Stored
  <1> QED BY <1>3 DEF e

LEMMA DeleteTagProper ==
    ASSUME NEW d, Stored(d, Nat), NEW c, c.tool = "delete_tag" PROVE Proper(d, c, DeleteTag(d, c))
  <1> DEFINE e == DeleteTag(d, c)
  <1>1. e = d \/ \E t, L : e = [Is(d, <<"tag", t>>, "gone") EXCEPT !.labels = L]
    BY DEF DeleteTag
  <1> HIDE DEF e
  <1>2. /\ DOMAIN e = DOMAIN d /\ DOMAIN e.rows = DOMAIN d.rows /\ e.topics = d.topics /\ e.active = d.active
    <2>1. CASE e = d
      BY <2>1
    <2>2. ASSUME NEW t, NEW L, e = [Is(d, <<"tag", t>>, "gone") EXCEPT !.labels = L]
          PROVE  /\ DOMAIN e = DOMAIN d /\ DOMAIN e.rows = DOMAIN d.rows
                 /\ e.topics = d.topics /\ e.active = d.active
      BY <2>2, IsIs DEF Stored
    <2> QED BY <1>1, <2>1, <2>2
  <1>3. Proper(d, c, e)
    BY <1>2, RowSet DEF Stored
  <1> QED BY <1>3 DEF e

LEMMA SmallOnes ==
    ASSUME NEW d, Stored(d, Nat), NEW c
    PROVE  /\ Proper(d, c, ArchiveWorkspace(d, c)) /\ Proper(d, c, OpenWorkspace(d, c))
           /\ Proper(d, c, CloseWorkspace(d, c)) /\ Proper(d, c, UpdateEntity(d, c))
           /\ Proper(d, c, Discard(d, c))
BY Unchanged, OpensProper, RowStateProper
   DEF ArchiveWorkspace, OpenWorkspace, CloseWorkspace, UpdateEntity, Discard

LEMMA TopicOnes ==
    ASSUME NEW d, Stored(d, Nat), NEW c
    PROVE  /\ Proper(d, c, EnsureTopic(d, c)) /\ Proper(d, c, SetTopicLocked(d, c, "locked"))
           /\ Proper(d, c, SetTopicLocked(d, c, "open")) /\ Proper(d, c, DeleteTopic(d, c, FALSE))
           /\ c.tool = "force_topic" => Proper(d, c, DeleteTopic(d, c, TRUE))
  <1>1. Proper(d, c, EnsureTopic(d, c))
    BY Unchanged, TopicProper DEF EnsureTopic
  <1>2. \A state \in {"locked", "open"} : Proper(d, c, SetTopicLocked(d, c, state))
    BY Unchanged, TopicProper DEF SetTopicLocked
  <1>3. Proper(d, c, DeleteTopic(d, c, FALSE))
    BY Unchanged, TopicProper DEF DeleteTopic
  <1>4. c.tool = "force_topic" => Proper(d, c, DeleteTopic(d, c, TRUE))
    BY Unchanged, TopicProper DEF DeleteTopic
  <1> QED BY <1>1, <1>2, <1>3, <1>4

LEMMA NewOnes ==
    ASSUME NEW d, Stored(d, Nat), NEW c, c.on = NoKey
    PROVE  /\ Proper(d, c, CreateNote(d)) /\ Proper(d, c, CreateTag(d, c))
           /\ Proper(d, c, CreateWorkspace(d, c)) /\ \A topic : Proper(d, c, CreateEntity(d, c, topic))
  <1>1. Proper(d, c, CreateNote(d))
    BY Created, Unchanged DEF CreateNote, Tables
  <1>2. Proper(d, c, CreateTag(d, c))
    BY WithTagProper DEF CreateTag
  <1> QED BY <1>1, <1>2, CreateWorkspaceProper, CreateEntityProper

LEMMA EffectProper ==
    ASSUME NEW d, Stored(d, Nat), NEW c, Made(c)
    PROVE  Proper(d, c, Effect(d, c))
  <1>1. CASE c.tool \in {"create_workspace", "create_entity", "create_note", "create_tag"}
    <2>1. Effect(d, c) \in {CreateWorkspace(d, c), CreateEntity(d, c, "none"), CreateNote(d), CreateTag(d, c)}
      BY <1>1 DEF Effect
    <2> QED BY <1>1, <2>1, NewOnes DEF Made
  <1>2. CASE c.tool \in {"archive_workspace", "open_workspace", "close_workspace", "update_entity", "delete_item"}
    <2>1. Effect(d, c) \in {ArchiveWorkspace(d, c), OpenWorkspace(d, c), CloseWorkspace(d, c),
                            UpdateEntity(d, c), Discard(d, c)}
      BY <1>2 DEF Effect
    <2> QED BY <2>1, SmallOnes
  <1>3. CASE c.tool \in {"ensure_topic", "lock_topic", "unlock_topic", "delete_topic"}
    <2>1. Effect(d, c) \in {EnsureTopic(d, c), SetTopicLocked(d, c, "locked"),
                            SetTopicLocked(d, c, "open"), DeleteTopic(d, c, FALSE)}
      BY <1>3 DEF Effect
    <2> QED BY <2>1, TopicOnes
  <1>4. CASE c.tool = "force_topic"
    BY <1>4, TopicOnes DEF Effect
  <1>5. CASE c.tool \in {"delete_entity", "repair_topics", "equip_item", "link_entity", "unlink_entity"}
    <2>1. Effect(d, c) \in {DeleteEntity(d, c), RepairTopics(d), EquipItem(d, c),
                            LinkEntity(d, c), UnlinkEntity(d, c)}
      BY <1>5 DEF Effect
    <2> QED BY <2>1, DeleteEntityProper, RepairTopicsProper, EquipItemProper, LinkEntityProper
  <1>6. CASE c.tool \in {"link_tag", "unlink_tag", "rename_tag", "delete_tag"}
    <2>1. /\ c.tool = "link_tag" => Effect(d, c) = LinkTag(d, c)
          /\ c.tool = "unlink_tag" => Effect(d, c) = UnlinkTag(d, c)
          /\ c.tool = "rename_tag" => Effect(d, c) = RenameTag(d, c)
          /\ c.tool = "delete_tag" => Effect(d, c) = DeleteTag(d, c)
      BY DEF Effect
    <2> QED BY <1>6, <2>1, LinkTagProper, UnlinkTagProper, RenameTagProper, DeleteTagProper
  <1>7. CASE c.tool \notin {"create_workspace", "archive_workspace", "open_workspace", "close_workspace",
                            "create_entity", "update_entity", "delete_entity", "ensure_topic", "lock_topic",
                            "unlock_topic", "delete_topic", "force_topic", "repair_topics", "equip_item",
                            "create_note", "delete_item", "link_entity", "unlink_entity", "create_tag",
                            "link_tag", "unlink_tag", "rename_tag", "delete_tag"}
    <2>1. Effect(d, c) = d
      BY <1>7 DEF Effect
    <2> QED BY <2>1, Unchanged
  <1> QED BY <1>1, <1>2, <1>3, <1>4, <1>5, <1>6, <1>7

LEMMA OutcomesProper ==
    ASSUME NEW d, Stored(d, Nat), NEW c, Made(c), NEW e \in Outcomes(d, c)
    PROVE  Proper(d, c, e)
  <1>1. e = d \/ e = Effect(d, c) \/ (c.tool = "create_entity" /\ e = CreateEntity(d, c, "open"))
    BY DEF Outcomes
  <1>2. c.tool = "create_entity" => Proper(d, c, CreateEntity(d, c, "open"))
    BY NewOnes DEF Made
  <1> QED BY <1>1, <1>2, Unchanged, EffectProper

-----------------------------------------------------------------------------
(* The steps *)

\* What a step does: it leaves the rows alone, or runs one call, which is the
\* pending one if that is gone afterwards; what it asks is on the screen.
OneCall ==
    /\ \/ db' = db
       \/ \E c : /\ Made(c) /\ c.tool # "force_topic" /\ Proper(db, c, db')
                 /\ pending' = pending /\ shown' = shown
       \/ Proper(db, pending, db') /\ pending' = None
    /\ \/ pending' = None
       \/ pending' = pending /\ shown' = shown
       \/ pending' \in shown' /\ Made(pending') /\ db' = db

LEMMA AskIs == ASSUME NEW c, Made(c), Ask(c) PROVE OneCall
BY DEF Ask, OneCall

LEMMA RunsIs ==
    ASSUME NEW c, Stored(db, Nat), Made(c), c.tool # "force_topic", Runs(c) PROVE OneCall
BY OutcomesProper DEF Runs, OneCall

LEMMA GatherIs == ASSUME NEW flow, NEW on, NEW name, Gather(flow, on, name) PROVE OneCall
BY DEF Gather, OneCall

\* The calls of the buttons and answers are made of these.
LEMMA CallsMade ==
    ASSUME NEW tool, NEW on, NEW to, NEW name, NEW new, NEW w
    PROVE  /\ Call(tool, on).tool = tool /\ Call(tool, on).on = on
           /\ Named(Call(tool, on), name).tool = tool /\ Named(Call(tool, on), name).on = on
           /\ Toward(Call(tool, on), to).tool = tool /\ Toward(Call(tool, on), to).on = on
           /\ InSpace(Call(tool, on), w).tool = tool /\ InSpace(Call(tool, on), w).on = on
           /\ Toward(InSpace(Call(tool, on), w), to).tool = tool
           /\ InSpace(Named(Call(tool, on), name), w).tool = tool
           /\ InSpace(Named(Call(tool, on), name), w).on = on
           /\ Named(InSpace(Call(tool, on), w), name).tool = tool
           /\ [InSpace(Named(Call(tool, on), name), w) EXCEPT !.new = new].tool = tool
BY DEF Call, Named, Toward, InSpace

LEMMA TapRows ==
    ASSUME NEW w, NEW e, NEW to, Stored(db, Nat),
           TapSpace(w) \/ TapEntity(e) \/ TapTopic(e) \/ TapEquip(e, to)
    PROVE  OneCall
  <1>1. CASE TapSpace(w)
    BY <1>1, AskIs, RunsIs, GatherIs, CallsMade DEF TapSpace, Asks, Made
  <1>2. CASE TapEntity(e)
    BY <1>2, AskIs, GatherIs, CallsMade DEF TapEntity, Asks, Made, Here
  <1>3. CASE TapTopic(e)
    <2>1. CASE \E tool \in {"ensure_topic", "lock_topic", "unlock_topic"} : Runs(Here(Call(tool, e)))
      BY <2>1, RunsIs, CallsMade DEF Made, Here
    <2>2. CASE \/ Asks(Call("repair_topics", NoKey)) \/ Asks(Here(Call("delete_topic", e)))
               \/ Asks(Here(Call("force_topic", e)))
      BY <2>2, AskIs, CallsMade DEF Asks, Made, Here
    <2> QED BY <1>3, <2>1, <2>2 DEF TapTopic
  <1>4. CASE TapEquip(e, to)
    BY <1>4, RunsIs, CallsMade DEF TapEquip, Made, Here
  <1> QED BY <1>1, <1>2, <1>3, <1>4

LEMMA TapItems ==
    ASSUME NEW e, NEW i, NEW t, Stored(db, Nat),
           UnlinkEnt(i, e) \/ TapNote(i) \/ TapMedia(i) \/ TapTag(t) \/ TapSearch
    PROVE  OneCall
  <1>1. CASE UnlinkEnt(i, e)
    BY <1>1, RunsIs, CallsMade DEF UnlinkEnt, Made
  <1>2. CASE TapItem(i)
    <2>1. CASE Asks(Call("delete_item", i))
      BY <2>1, AskIs, CallsMade DEF Asks, Made
    <2>2. ASSUME NEW name, Runs(Named(Call("unlink_tag", i), name)) PROVE OneCall
      BY <2>2, RunsIs, CallsMade DEF Made
    <2> QED BY <1>2, <2>1, <2>2, GatherIs DEF TapItem
  <1>3. CASE TapNote(i)
    <2>1. CASE Runs(Call("post_note", i))
      BY <2>1, RunsIs, CallsMade DEF Made
    <2> QED BY <1>2, <1>3, <2>1, GatherIs DEF TapNote
  <1>4. CASE TapMedia(i)
    BY <1>2, <1>4, GatherIs DEF TapMedia
  <1>5. CASE TapTag(t)
    <2>1. ASSUME NEW name, Asks(Here(Named(Call("delete_tag", t), name))) PROVE OneCall
      BY <2>1, AskIs, CallsMade DEF Asks, Made, Here
    <2> QED BY <1>5, <2>1, GatherIs DEF TapTag
  <1>6. CASE TapSearch
    BY <1>6, GatherIs DEF TapSearch, OneCall
  <1> QED BY <1>1, <1>3, <1>4, <1>5, <1>6

LEMMA YesNo ==
    ASSUME Stored(db, Nat), Made(pending), NEW q, Yes(q) \/ No(q) PROVE OneCall
  <1>1. CASE Yes(q)
    BY <1>1, OutcomesProper DEF Yes, OneCall
  <1>2. CASE No(q)
    BY <1>2 DEF No, OneCall
  <1> QED BY <1>1, <1>2

LEMMA AnswerOne ==
    ASSUME Answer PROVE OneCall
  <1>1. ASSUME NEW flow, NEW c, Made(c), AskEntered(flow, c) PROVE OneCall
    BY <1>1, AskIs DEF AskEntered
  <1>2. CASE AnswerNothing
    BY <1>2 DEF AnswerNothing, OneCall
  <1>3. CASE AnswerSpace
    BY <1>1, <1>3, CallsMade DEF AnswerSpace, Made
  <1>4. CASE AnswerEntity
    BY <1>1, <1>4, CallsMade DEF AnswerEntity, Made, Here
  <1>5. ASSUME NEW e, NEW name, AnswerItem(e, name) PROVE OneCall
    <2>1. \/ AskEntered("note_add", Call("create_note", NoKey))
          \/ AskEntered("edit", Call("update_item", gather.on))
          \/ AskEntered("link_entity", Toward(Call("link_entity", gather.on), e))
          \/ AskEntered("link_tag", Named(Call("link_tag", gather.on), name))
      BY <1>5 DEF AnswerItem
    <2>2. /\ Made(Call("create_note", NoKey)) /\ Made(Call("update_item", gather.on))
          /\ Made(Toward(Call("link_entity", gather.on), e))
          /\ Made(Named(Call("link_tag", gather.on), name))
      BY CallsMade DEF Made
    <2> QED BY <1>1, <2>1, <2>2
  <1>6. ASSUME NEW name, AnswerTag(name) PROVE OneCall
    <2>1. Made(Here(Named(Call("create_tag", NoKey), name)))
      BY CallsMade DEF Made, Here
    <2>2. Made([Here(Named(Call("rename_tag", gather.on), gather.name)) EXCEPT !.new = name])
      BY CallsMade DEF Made, Here
    <2> QED BY <1>1, <1>6, <2>1, <2>2 DEF AnswerTag
  <1>7. ASSUME NEW w, AnswerSearch(w) PROVE OneCall
    BY <1>7 DEF AnswerSearch, OneCall
  <1> QED BY <1>2, <1>3, <1>4, <1>5, <1>6, <1>7 DEF Answer

LEMMA BesideOne ==
    ASSUME Stored(db, Nat), Beside PROVE OneCall
  <1>1. CASE ControlCommand \/ Restart
    BY <1>1 DEF ControlCommand, Restart, OneCall
  <1>2. CASE File
    <2> DEFINE c == Call("none", NoKey)
    <2>1. Made(c) /\ c.tool # "force_topic" /\ c.on = NoKey
      BY CallsMade DEF Made
    <2> HIDE DEF c
    <2>2. Proper(db, c, Put(db, NextKey(db, "media"), Row(Active(db), "media")))
      BY <2>1, Created DEF Tables
    <2> QED BY <1>2, <2>1, <2>2 DEF File, OneCall
  <1>3. ASSUME NEW w, Use(w) PROVE OneCall
    <2> DEFINE c == Call("open_workspace", w)
    <2>1. Made(c) /\ c.tool # "force_topic"
      BY CallsMade DEF Made
    <2>2. Proper(db, c, OpenWorkspace(db, c))
      BY SmallOnes
    <2> QED BY <1>3, <2>1, <2>2 DEF Use, OneCall
  <1>4. ASSUME NEW key, Elsewhere(key) PROVE OneCall
    <2>1. ASSUME NEW c, Made(c), c.tool # "force_topic", Proper(db, c, db'), UNCHANGED <<pending, shown>>
          PROVE  OneCall
      BY <2>1 DEF OneCall
    <2>2. UNCHANGED <<pending, shown>>
      BY <1>4 DEF Elsewhere
    <2>3. ASSUME NEW tool \in {"delete_entity", "update_entity", "lock_topic"},
                 db' \in Outcomes(db, InSpace(Call(tool, key), Home(db, key)))
          PROVE  OneCall
      <3> DEFINE c == InSpace(Call(tool, key), Home(db, key))
      <3>1. Made(c) /\ c.tool # "force_topic"
        BY CallsMade DEF Made
      <3> HIDE DEF c
      <3>2. Proper(db, c, db')
        BY <2>3, <3>1, OutcomesProper DEF c
      <3> QED BY <2>1, <2>2, <3>1, <3>2
    <2>4. CASE db' = Discard(db, Call("delete_item", key))
      <3> DEFINE c == Call("delete_item", key)
      <3>1. Made(c) /\ c.tool # "force_topic"
        BY CallsMade DEF Made
      <3> HIDE DEF c
      <3>2. Proper(db, c, db')
        BY <2>4, SmallOnes DEF c
      <3> QED BY <2>1, <2>2, <3>1, <3>2
    <2>5. CASE db' = DeleteTag(db, Named(InSpace(Call("delete_tag", key), Home(db, key)), db.rows[key].label))
      <3> DEFINE c == Named(InSpace(Call("delete_tag", key), Home(db, key)), db.rows[key].label)
      <3>1. Made(c) /\ c.tool = "delete_tag"
        BY CallsMade DEF Made
      <3> HIDE DEF c
      <3>2. Proper(db, c, db')
        BY <2>5, <3>1, DeleteTagProper DEF c
      <3> QED BY <2>1, <2>2, <3>1, <3>2
    <2> QED BY <1>4, <2>3, <2>4, <2>5 DEF Elsewhere
  <1>5. ASSUME NEW key, HideInChat(key) PROVE OneCall
    <2> DEFINE c == Call("none", key)
    <2>1. Made(c) /\ c.tool # "force_topic" /\ c.on = key
      BY CallsMade DEF Made
    <2> HIDE DEF c
    <2>2. PICK how : db' = HideMilestone(db, key, how)
      BY <1>5 DEF HideInChat
    <2>3. Proper(db, c, db')
      BY <2>1, <2>2, HideMilestoneProper
    <2> QED BY <1>5, <2>1, <2>3 DEF HideInChat, OneCall
  <1> QED BY <1>1, <1>2, <1>3, <1>4, <1>5 DEF Beside

LEMMA NextOne ==
    ASSUME Stored(db, Nat), Made(pending), [Next]_vars PROVE OneCall
  <1>1. CASE Tap
    BY <1>1, TapRows, TapItems, YesNo DEF Tap
  <1>2. CASE UNCHANGED vars
    BY <1>2 DEF vars, OneCall
  <1> QED BY <1>1, <1>2, AnswerOne, BesideOne DEF Next

\* The inductive invariant: were the rows not numbered without a gap, what a call
\* creates could overwrite a row that no question was about.
PlaneInv == Stored(db, Nat) /\ Made(pending) /\ PendingIsShown

LEMMA PlaneInvInit == ASSUME ControlSized PROVE Init => PlaneInv
BY CallsMade DEF Init, ControlSized, Stored, PlaneInv, PendingIsShown, Made, None

LEMMA PlaneInvStep == ASSUME PlaneInv, [Next]_vars PROVE PlaneInv'
  <1>1. OneCall
    BY NextOne DEF PlaneInv
  <1>2. Stored(db, Nat)'
    BY <1>1 DEF OneCall, Proper, PlaneInv
  <1>3. Made(pending)' /\ PendingIsShown'
    <2>1. Made(None)
      BY CallsMade DEF Made, None
    <2> QED BY <1>1, <2>1 DEF OneCall, PlaneInv, PendingIsShown
  <1> QED BY <1>2, <1>3 DEF PlaneInv

\* From any stored state to start with, the tables stay in order and what is pending
\* is on the screen.
THEOREM PlaneInvariance == ASSUME ControlSized PROVE Spec => []PlaneInv
  <1>1. Init => PlaneInv
    BY PlaneInvInit
  <1>2. PlaneInv /\ [Next]_vars => PlaneInv'
    BY PlaneInvStep
  <1> QED BY <1>1, <1>2, PTL DEF Spec

\* What a Yes would run is asked by a message that still has its buttons
\* (begin_confirm, confirm_yes, /control).
THEOREM AskedIsShown == ASSUME ControlSized PROVE Spec => []PendingIsShown
  <1>1. PlaneInv => PendingIsShown
    BY DEF PlaneInv
  <1> QED BY <1>1, PlaneInvariance, PTL

\* Whatever has been opened, deleted or renamed since the question, its Yes changes
\* the row it names and what is linked to it (confirm_yes, execute_tool).
THEOREM YesReaches == ASSUME ControlSized PROVE Spec => YesReachesItsRow
  <1>1. ASSUME PlaneInv, [Next]_vars
        PROVE  [pending # None /\ pending' = None /\ pending.tool \notin {"rename_tag", "delete_tag"} =>
                  /\ Touched(db, db') \subseteq About(pending)
                  /\ \A l \in Bound(db, db') : pending.on \in {l[1], l[2]}]_vars
    <2> SUFFICES ASSUME pending # None, pending' = None, pending.tool \notin {"rename_tag", "delete_tag"}
                 PROVE  /\ Touched(db, db') \subseteq About(pending)
                        /\ \A l \in Bound(db, db') : pending.on \in {l[1], l[2]}
      OBVIOUS
    <2>1. OneCall
      BY <1>1, NextOne DEF PlaneInv
    <2>2. CASE db' = db
      BY <2>2 DEF Touched, Bound
    <2>3. CASE Proper(db, pending, db')
      BY <2>3 DEF Proper, About, AboutOf
    <2> QED BY <2>1, <2>2, <2>3 DEF OneCall
  <1> QED BY <1>1, PlaneInvariance, PTL DEF Spec, YesReachesItsRow

\* A locked topic is deleted by force only (delete_entity_topic), also when it was
\* locked between the question and the Yes.
THEOREM LocksHold == ASSUME ControlSized PROVE Spec => LockHolds
  <1>1. ASSUME PlaneInv, [Next]_vars
        PROVE  [\A e \in DOMAIN db.topics :
                  db.topics[e] = "locked" /\ db'.topics[e] = "none" => pending.tool = "force_topic"]_vars
    <2>1. OneCall
      BY <1>1, NextOne DEF PlaneInv
    <2>2. \A e \in DOMAIN db.topics :
             db.topics[e] = "locked" /\ db'.topics[e] = "none" => pending.tool = "force_topic"
      BY <2>1 DEF OneCall, Proper
    <2> QED BY <2>2
  <1> QED BY <1>1, PlaneInvariance, PTL DEF Spec, LockHolds

-----------------------------------------------------------------------------
(* Lists of numbers *)

LEMMA SmallestOf == ASSUME NEW S \in SUBSET Nat, S # {} PROVE \E n \in S : \A m \in S : n <= m
  <1> DEFINE Less == OpToRel(<, Nat)
  <1>1. IsWellFoundedOn(Less, Nat)
    BY NatLessThanWellFounded DEF OpToRel, Less
  <1>2. PICK n \in S : \A m \in S : <<m, n>> \notin Less
    BY <1>1, WFMin
  <1>3. \A m \in S : ~(m < n)
    BY <1>2 DEF OpToRel, Less
  <1> QED BY <1>3

LEMMA LargestIs == ASSUME NEW N \in Nat, NEW S \in SUBSET (1 .. N), S # {} PROVE Max(S) \in S
  <1> DEFINE D == {N - i : i \in S}
  <1>1. D \in SUBSET Nat /\ D # {}
    <2>1. \A i \in S : N - i \in Nat
      OBVIOUS
    <2>2. PICK i \in S : TRUE
      OBVIOUS
    <2>3. N - i \in D
      OBVIOUS
    <2> QED BY <2>1, <2>3
  <1>2. PICK d \in D : \A e \in D : d <= e
    <2> HIDE DEF D
    <2> QED BY <1>1, SmallestOf
  <1>3. PICK x \in S : d = N - x
    BY <1>2
  <1>4. \A y \in S : x >= y
    <2> SUFFICES ASSUME NEW y \in S PROVE x >= y
      OBVIOUS
    <2>1. N - y \in D
      OBVIOUS
    <2>2. d <= N - y
      BY <1>2, <2>1
    <2>3. x \in 1 .. N /\ y \in 1 .. N
      OBVIOUS
    <2> QED BY <1>3, <2>2, <2>3
  <1> QED BY <1>4 DEF Max

LEMMA Climb ==
    ASSUME NEW n \in Nat, NEW P, 0 \in P, \A i \in 1 .. n : i - 1 \in P => i \in P
    PROVE  n \in P
  <1> DEFINE Bad == {i \in 0 .. n : i \notin P}
  <1>1. SUFFICES ASSUME n \in Bad PROVE FALSE
    OBVIOUS
  <1>2. PICK b \in Bad : \A c \in Bad : b <= c
    <2>1. Bad \in SUBSET Nat
      OBVIOUS
    <2> HIDE DEF Bad
    <2> QED BY <1>1, <2>1, SmallestOf
  <1>3. b \in 1 .. n /\ b - 1 \in 0 .. n
    BY <1>2
  <1>4. b - 1 \notin Bad
    BY <1>2, <1>3
  <1> QED BY <1>2, <1>3, <1>4

\* The prefixes of a list: there is a function that has each from the one before.
Collects(g, n, S) ==
    /\ g \in [0 .. n -> Seq(S)] /\ g[0] = <<>>
    /\ \A i \in 1 .. n : g[i] = IF i \in S THEN Append(g[i - 1], i) ELSE g[i - 1]

LEMMA CollectsAll == ASSUME NEW n \in Nat, NEW S PROVE \E g : Collects(g, n, S)
  <1> DEFINE Extends(g, i) == g[i] = IF i \in S THEN Append(g[i - 1], i) ELSE g[i - 1]
             Upto(m) == \E g \in [0 .. m -> Seq(S)] : g[0] = <<>> /\ \A i \in 1 .. m : Extends(g, i)
             P == {m \in 0 .. n : Upto(m)}
  <1>1. Upto(0)
    <2> DEFINE g == [i \in 0 .. 0 |-> <<>>]
    <2>1. g \in [0 .. 0 -> Seq(S)] /\ g[0] = <<>> /\ \A i \in 1 .. 0 : FALSE
      OBVIOUS
    <2> QED BY <2>1
  <1>2. ASSUME NEW m \in 1 .. n, Upto(m - 1)
        PROVE  Upto(m)
    <2>1. PICK g \in [0 .. (m - 1) -> Seq(S)] : g[0] = <<>> /\ \A i \in 1 .. (m - 1) : Extends(g, i)
      BY <1>2
    <2> DEFINE x == IF m \in S THEN Append(g[m - 1], m) ELSE g[m - 1]
               h == [i \in 0 .. m |-> IF i = m THEN x ELSE g[i]]
    <2>2. x \in Seq(S)
      <3>1. g[m - 1] \in Seq(S)
        BY <2>1
      <3> QED BY <3>1
    <2>3. h \in [0 .. m -> Seq(S)]
      <3> HIDE DEF x
      <3> QED BY <2>1, <2>2
    <2>4. h[0] = <<>> /\ h[m] = x /\ h[m - 1] = g[m - 1]
      <3> HIDE DEF x
      <3> QED BY <2>1
    <2>5. \A i \in 1 .. (m - 1) : h[i] = g[i] /\ h[i - 1] = g[i - 1]
      <3> HIDE DEF x
      <3> QED BY <2>1
    <2>6. \A i \in 1 .. m : i = m \/ i \in 1 .. (m - 1)
      OBVIOUS
    <2>7. \A i \in 1 .. m : Extends(h, i)
      <3> HIDE DEF h
      <3> QED BY <2>1, <2>4, <2>5, <2>6
    <2> HIDE DEF h, Extends
    <2> QED BY <2>3, <2>4, <2>7
  <1>3. 0 \in P /\ \A m \in 1 .. n : m - 1 \in P => m \in P
    <2> HIDE DEF Upto
    <2> QED BY <1>1, <1>2
  <1>4. n \in P
    <2> HIDE DEF P
    <2> QED BY <1>3, Climb
  <1> QED BY <1>4 DEF Collects

\* Rows by number are rows.
LEMMA AscendingIs ==
    ASSUME NEW N \in Nat, NEW S \in SUBSET (1 .. N)
    PROVE  Ascending(S) \in Seq(S) /\ Newest(S) \in Seq(S)
  <1> DEFINE last == IF S = {} THEN 0 ELSE Max(S)
             Eq(f) == f = [n \in 0 .. last |->
                            IF n = 0 THEN <<>> ELSE IF n \in S THEN Append(f[n - 1], n) ELSE f[n - 1]]
             g == CHOOSE f : Eq(f)
  <1>1. last \in Nat
    <2> HIDE DEF Eq, g
    <2>1. CASE S = {}
      BY <2>1
    <2>2. CASE S # {}
      <3>1. Max(S) \in S
        BY <2>2, LargestIs
      <3>2. Max(S) \in 1 .. N /\ last = Max(S)
        BY <2>2, <3>1
      <3> HIDE DEF last
      <3> QED BY <3>2
    <2> QED BY <2>1, <2>2
  <1>2. \E f : Eq(f)
    <2> HIDE DEF last
    <2>1. PICK f : Collects(f, last, S)
      <3> HIDE DEF Eq
      <3> QED BY <1>1, CollectsAll
    <2>2. \A i \in 0 .. last : i = 0 \/ i \in 1 .. last
      BY <1>1
    <2>3. Eq(f)
      BY <2>1, <2>2 DEF Collects
    <2> QED BY <2>3
  <1>3. Eq(g)
    <2> HIDE DEF Eq
    <2> QED BY <1>2
  <1> DEFINE P == {i \in 0 .. last : g[i] \in Seq(S)}
  <1>4. last \in P
    <2> HIDE DEF g, last
    <2>1. 0 \in P
      BY <1>1, <1>3
    <2>2. ASSUME NEW i \in 1 .. last, i - 1 \in P PROVE i \in P
      <3>1. i \in 0 .. last /\ i # 0 /\ g[i - 1] \in Seq(S)
        BY <1>1, <2>2
      <3>2. g[i] = IF i \in S THEN Append(g[i - 1], i) ELSE g[i - 1]
        BY <1>3, <3>1
      <3>3. g[i] \in Seq(S)
        BY <3>1, <3>2
      <3> QED BY <3>1, <3>3
    <2> HIDE DEF P
    <2> QED BY <1>1, <2>1, <2>2, Climb
  <1>5. Ascending(S) = g[last]
    BY DEF Ascending
  <1>6. Ascending(S) \in Seq(S)
    <2> HIDE DEF g, last
    <2> QED BY <1>4, <1>5
  <1>7. Newest(S) \in Seq(S)
    <2> HIDE DEF g, last
    <2> QED BY <1>6 DEF Newest, Reverse
  <1> QED BY <1>6, <1>7

LEMMA AnyPage ==
    ASSUME NEW S, NEW items \in Seq(S), NEW per \in {4, 5, 6, 8}, NEW page \in Nat
    PROVE  /\ Pages(items, per) \in Nat \ {0} /\ Clamped(page, Pages(items, per)) \in 1 .. Pages(items, per)
           /\ Paginate(items, page, per) \in Seq(S)
  <1> DEFINE n == Len(items)
             at == Clamped(page, Pages(items, per))
             start == (at - 1) * per
             end == IF start + per < n THEN start + per ELSE n
  <1>1. n \in Nat /\ (items # <<>> => n # 0)
    OBVIOUS
  <1>2. items # <<>> => (n + per - 1) \div per \in Nat \ {0}
    <2> HIDE DEF n
    <2>1. CASE per = 4
      BY <1>1, <2>1
    <2>2. CASE per = 5
      BY <1>1, <2>2
    <2>3. CASE per = 6
      BY <1>1, <2>3
    <2>4. CASE per = 8
      BY <1>1, <2>4
    <2> QED BY <2>1, <2>2, <2>3, <2>4
  <1>3. Pages(items, per) \in Nat \ {0}
    BY <1>2 DEF Pages
  <1>4. at \in 1 .. Pages(items, per)
    BY <1>3 DEF Clamped
  <1>5. start \in Nat
    <2>1. at \in Nat \ {0}
      BY <1>3, <1>4
    <2> HIDE DEF at
    <2> QED BY <2>1
  <1>6. end \in Nat /\ end <= n
    <2> HIDE DEF start, n
    <2> QED BY <1>1, <1>5
  <1>7. SubSeq(items, start + 1, end) \in Seq(S)
    <2> HIDE DEF start, end
    <2> QED BY <1>5, <1>6
  <1>8. Paginate(items, page, per) = SubSeq(items, start + 1, end)
    BY DEF Paginate
  <1> QED BY <1>3, <1>4, <1>7, <1>8

-----------------------------------------------------------------------------
(* Buttons that lead somewhere *)

KindVerbs == {"ent:list:character", "ent:list:weapon", "ent:list:artifact", "ent:list:entity", "ent:list:all",
              "ent:add:character", "ent:add:weapon", "ent:add:artifact", "ent:add:entity", "ent:add:all"}
SearchVerbs == {"search:home", "search:home:p", "search:execute", "search:clear", "search:ws", "search:entities",
                "search:tags", "search:mode", "search:dates", "search:mtype", "search:scope", "search:kind",
                "search:gather"}
HomeVerbs == {"home", "noop", "ws:home", "ws:home:p", "ws:create", "ws:open", "ws:close", "ws:rename", "ws:archive",
              "ent:list", "ent:add", "topic:home", "topic:home:p", "topic:repair",
              "eq:home", "eq:home:p", "eq:set", "eq:unequip"}
FileVerbs == {"note:home", "note:home:p", "note:add", "note:search",
              "media:home", "media:home:p", "media:list", "media:search",
              "tag:home", "tag:home:p", "tag:add"}

\* verbs that are about no row
Free == KindVerbs \cup SearchVerbs \cup HomeVerbs \cup FileVerbs
Verbs == Free \cup EntityVerbs \cup NoteVerbs \cup MediaVerbs \cup TagVerbs \cup Unlinking
         \cup {"ws:detail", "ws:inspect", "ident:active"}

Callbacks == Verbs \X Nat \X Nat
Leading(d) == {b \in Callbacks : Finds(d, b) \/ AsksHidden(d, b)}

LEMMA FreeVerbs ==
    \A v \in Free : v \notin EntityVerbs \cup NoteVerbs \cup MediaVerbs \cup TagVerbs \cup Unlinking
                             \cup {"ws:detail", "ws:inspect", "ident:active"}
  <1> DEFINE Other == EntityVerbs \cup NoteVerbs \cup MediaVerbs \cup TagVerbs \cup Unlinking
                      \cup {"ws:detail", "ws:inspect", "ident:active"}
  <1>1. \A v \in KindVerbs : v \notin Other
    BY DEF KindVerbs, EntityVerbs, TopicVerbs, NoteVerbs, MediaVerbs, TagVerbs, Unlinking
  <1>2. \A v \in SearchVerbs : v \notin Other
    BY DEF SearchVerbs, EntityVerbs, TopicVerbs, NoteVerbs, MediaVerbs, TagVerbs, Unlinking
  <1>3. \A v \in HomeVerbs : v \notin Other
    BY DEF HomeVerbs, EntityVerbs, TopicVerbs, NoteVerbs, MediaVerbs, TagVerbs, Unlinking
  <1>4. \A v \in FileVerbs : v \notin Other
    BY DEF FileVerbs, EntityVerbs, TopicVerbs, NoteVerbs, MediaVerbs, TagVerbs, Unlinking
  <1> HIDE DEF Other
  <1>5. \A v \in Free : v \notin Other
    BY <1>1, <1>2, <1>3, <1>4 DEF Free
  <1> QED BY <1>5 DEF Other

LEMMA FreeLeads ==
    ASSUME NEW d, NEW v \in Free
    PROVE  /\ To(v) \in Leading(d)
           /\ \A m \in Nat : Of(v, m) \in Leading(d)
           /\ \A m, n \in Nat : With(v, m, n) \in Leading(d)
  <1>1. ASSUME NEW m \in Nat, NEW n \in Nat PROVE <<v, m, n>> \in Leading(d)
    <2>1. <<v, m, n>> \in Callbacks /\ <<v, m, n>>[1] = v
      BY DEF Callbacks, Verbs
    <2>2. v \notin {"note:unlink-tag", "media:unlink-tag"}
      BY FreeVerbs DEF NoteVerbs, MediaVerbs
    <2>3. Finds(d, <<v, m, n>>)
      BY <2>1, <2>2, FreeVerbs DEF Finds
    <2> QED BY <2>1, <2>3 DEF Leading
  <1> QED BY <1>1 DEF To, Of, With

LEMMA ListVerbsFree == \A kind \in DOMAIN ListOf : ListOf[kind] \in Free /\ AddOf[kind] \in Free
  <1>1. \A kind \in DOMAIN ListOf : ListOf[kind] \in KindVerbs /\ AddOf[kind] \in KindVerbs
    BY DEF ListOf, AddOf, KindVerbs
  <1> QED BY <1>1 DEF Free

LEMMA PagerLeads ==
    ASSUME NEW d, NEW v \in Free, NEW S, NEW items \in Seq(S), NEW per \in {4, 5, 6, 8}, NEW page \in Nat
    PROVE  Pager(v, items, page, per) \in Seq(Leading(d))
  <1> DEFINE L == Leading(d)
             all == Pages(items, per)
             at == Clamped(page, all)
             prev == IF at > 1 THEN <<With(v, 0, at - 1)>> ELSE <<>>
             next == IF at < all THEN <<With(v, 0, at + 1)>> ELSE <<>>
  <1>1. To("noop") \in L /\ \A n \in Nat : With(v, 0, n) \in L
    <2>1. "noop" \in Free
      BY DEF Free, HomeVerbs
    <2> QED BY <2>1, FreeLeads
  <1>2. all \in Nat \ {0} /\ at \in 1 .. all
    BY AnyPage
  <1>3. Pager(v, items, page, per) = IF all = 1 THEN <<>> ELSE prev \o <<To("noop")>> \o next
    BY DEF Pager
  <1> HIDE DEF all, at, L
  <1>4. With(v, 0, at - 1) \in L /\ With(v, 0, at + 1) \in L
    <2>1. at - 1 \in Nat /\ at + 1 \in Nat
      BY <1>2
    <2> QED BY <1>1, <2>1
  <1>5. prev \in Seq(L) /\ next \in Seq(L) /\ <<To("noop")>> \in Seq(L) /\ <<>> \in Seq(L)
    BY <1>1, <1>4
  <1>6. prev \o <<To("noop")>> \o next \in Seq(L)
    <2> HIDE DEF prev, next
    <2> QED BY <1>5
  <1> HIDE DEF prev, next
  <1> QED BY <1>3, <1>5, <1>6 DEF L

LEMMA RowsLead ==
    ASSUME NEW d, NEW v, NEW S, NEW items \in Seq(S), \A n \in S : Of(v, n) \in Leading(d),
           NEW per \in {4, 5, 6, 8}, NEW page \in Nat
    PROVE  Rows(v, items) \in Seq(Leading(d)) /\ Listed(v, items, page, per) \in Seq(Leading(d))
  <1> DEFINE L == Leading(d)
  <1>1. ASSUME NEW s \in Seq(S) PROVE Rows(v, s) \in Seq(L)
    <2>1. \A i \in DOMAIN s : Of(v, s[i]) \in L
      OBVIOUS
    <2> HIDE DEF L
    <2> QED BY <2>1 DEF Rows
  <1>2. Paginate(items, page, per) \in Seq(S)
    BY AnyPage
  <1> QED BY <1>1, <1>2 DEF Listed

\* rows and their numbers
LEMMA Numbers ==
    ASSUME NEW d, Stored(d, Nat)
    PROVE  \E N \in Nat : \A x \in DOMAIN d.rows : x = <<x[1], x[2]>> /\ x[2] \in 1 .. N
  <1> DEFINE Of1(k) == {x \in DOMAIN d.rows : x[1] = k}
             To1(k, n) == {<<k, m>> : m \in 1 .. n}
  <1>1. \A k \in Tables : \E n \in Nat : Of1(k) = To1(k, n)
    BY DEF Stored
  <1>2. PICK a \in Nat : Of1("ws") = To1("ws", a)
    BY <1>1 DEF Tables
  <1>3. PICK b \in Nat : Of1("ent") = To1("ent", b)
    BY <1>1 DEF Tables
  <1>4. PICK c \in Nat : Of1("note") = To1("note", c)
    BY <1>1 DEF Tables
  <1>5. PICK e \in Nat : Of1("media") = To1("media", e)
    BY <1>1 DEF Tables
  <1>6. PICK f \in Nat : Of1("tag") = To1("tag", f)
    BY <1>1 DEF Tables
  <1> DEFINE N == a + b + c + e + f
  <1>7. N \in Nat /\ a <= N /\ b <= N /\ c <= N /\ e <= N /\ f <= N
    OBVIOUS
  <1>8. ASSUME NEW k, NEW n \in Nat, n <= N, NEW x \in To1(k, n) PROVE x = <<x[1], x[2]>> /\ x[2] \in 1 .. N
    <2>1. PICK m \in 1 .. n : x = <<k, m>>
      OBVIOUS
    <2> QED BY <1>7, <1>8, <2>1
  <1>9. \A x \in DOMAIN d.rows : x \in To1("ws", a) \cup To1("ent", b) \cup To1("note", c) \cup To1("media", e) \cup To1("tag", f)
    <2>1. \A x \in DOMAIN d.rows : x[1] \in Tables /\ x \in Of1(x[1])
      BY DEF Stored
    <2> HIDE DEF Of1, To1
    <2> QED BY <2>1, <1>2, <1>3, <1>4, <1>5, <1>6 DEF Tables
  <1> HIDE DEF N, To1
  <1>10. \A x \in DOMAIN d.rows : x = <<x[1], x[2]>> /\ x[2] \in 1 .. N
    BY <1>7, <1>8, <1>9
  <1> QED BY <1>7, <1>10

LEMMA LivingIs ==
    ASSUME NEW d, Stored(d, Nat), NEW k, NEW w
    PROVE  /\ \A n \in LivingIn(d, k, w) : n \in Nat /\ Living(d, k, n)
           /\ \E N \in Nat : LivingIn(d, k, w) \subseteq 1 .. N
           /\ \A n : <<k, n>> \in DOMAIN d.rows /\ Living(d, k, n) /\ d.rows[<<k, n>>].space = w => n \in LivingIn(d, k, w)
  <1>1. PICK N \in Nat : \A x \in DOMAIN d.rows : x = <<x[1], x[2]>> /\ x[2] \in 1 .. N
    BY Numbers
  <1>2. \A n \in LivingIn(d, k, w) : n \in 1 .. N /\ Living(d, k, n)
    BY <1>1 DEF LivingIn
  <1>3. \A n \in 1 .. N : n \in Nat
    OBVIOUS
  <1>4. ASSUME NEW n, <<k, n>> \in DOMAIN d.rows, Living(d, k, n), d.rows[<<k, n>>].space = w
        PROVE  n \in LivingIn(d, k, w)
    BY <1>4 DEF LivingIn
  <1> QED BY <1>2, <1>3, <1>4

\* A sorted list of living rows.
LEMMA SortedIs ==
    ASSUME NEW d, Stored(d, Nat), NEW k, NEW w, NEW S \in SUBSET LivingIn(d, k, w)
    PROVE  Ascending(S) \in Seq(S) /\ Newest(S) \in Seq(S)
  <1>1. PICK N \in Nat : LivingIn(d, k, w) \subseteq 1 .. N
    BY LivingIs
  <1>2. S \in SUBSET (1 .. N)
    BY <1>1
  <1> QED BY <1>2, AscendingIs

LEMMA EntityLeads ==
    ASSUME NEW d, Stored(d, Nat), NEW id, FindEntity(d, id), NEW v \in EntityVerbs
    PROVE  Of(v, id) \in Leading(d)
  <1>1. id \in Nat
    BY LivingIs DEF FindEntity
  <1>2. v \notin NoteVerbs \cup MediaVerbs \cup TagVerbs \cup Unlinking \cup {"ws:detail", "ws:inspect", "ident:active"}
    BY DEF EntityVerbs, TopicVerbs, NoteVerbs, MediaVerbs, TagVerbs, Unlinking
  <1>3. v \notin {"note:unlink-tag", "media:unlink-tag"}
    BY <1>2 DEF NoteVerbs, MediaVerbs
  <1>4. <<v, id, 0>> \in Callbacks /\ <<v, id, 0>>[1] = v /\ <<v, id, 0>>[2] = id
    BY <1>1 DEF Callbacks, Verbs
  <1>5. Finds(d, <<v, id, 0>>)
    BY <1>2, <1>3, <1>4 DEF Finds
  <1> QED BY <1>4, <1>5 DEF Leading, Of

LEMMA ItemLeads ==
    ASSUME NEW d, NEW id \in Nat
    PROVE  /\ Living(d, "note", id) => \A v \in NoteVerbs \ {"note:unlink-tag"} : Of(v, id) \in Leading(d)
           /\ Living(d, "media", id) => \A v \in MediaVerbs \ {"media:unlink-tag"} : Of(v, id) \in Leading(d)
           /\ Living(d, "tag", id) => \A v \in TagVerbs : Of(v, id) \in Leading(d)
           /\ Living(d, "ws", id) => \A v \in {"ws:detail", "ws:inspect"} : Of(v, id) \in Leading(d)
  <1>1. ASSUME NEW v \in Verbs, Finds(d, <<v, id, 0>>) PROVE Of(v, id) \in Leading(d)
    BY <1>1 DEF Leading, Callbacks, Of
  <1>2. ASSUME Living(d, "note", id), NEW v \in NoteVerbs \ {"note:unlink-tag"} PROVE Of(v, id) \in Leading(d)
    <2>1. v \notin EntityVerbs \cup MediaVerbs \cup TagVerbs \cup Unlinking
                    \cup {"ws:detail", "ws:inspect", "ident:active", "media:unlink-tag"}
      BY DEF EntityVerbs, TopicVerbs, NoteVerbs, MediaVerbs, TagVerbs, Unlinking
    <2>2. Finds(d, <<v, id, 0>>)
      BY <1>2, <2>1 DEF Finds
    <2> QED BY <1>1, <2>2 DEF Verbs
  <1>3. ASSUME Living(d, "media", id), NEW v \in MediaVerbs \ {"media:unlink-tag"} PROVE Of(v, id) \in Leading(d)
    <2>1. v \notin EntityVerbs \cup NoteVerbs \cup TagVerbs \cup Unlinking
                    \cup {"ws:detail", "ws:inspect", "ident:active", "note:unlink-tag"}
      BY DEF EntityVerbs, TopicVerbs, NoteVerbs, MediaVerbs, TagVerbs, Unlinking
    <2>2. Finds(d, <<v, id, 0>>)
      BY <1>3, <2>1 DEF Finds
    <2> QED BY <1>1, <2>2 DEF Verbs
  <1>4. ASSUME Living(d, "tag", id), NEW v \in TagVerbs PROVE Of(v, id) \in Leading(d)
    <2>1. v \notin EntityVerbs \cup NoteVerbs \cup MediaVerbs \cup Unlinking
                    \cup {"ws:detail", "ws:inspect", "ident:active", "note:unlink-tag", "media:unlink-tag"}
      BY DEF EntityVerbs, TopicVerbs, NoteVerbs, MediaVerbs, TagVerbs, Unlinking
    <2>2. Finds(d, <<v, id, 0>>)
      BY <1>4, <2>1 DEF Finds
    <2> QED BY <1>1, <2>2 DEF Verbs
  <1>5. ASSUME Living(d, "ws", id), NEW v \in {"ws:detail", "ws:inspect"} PROVE Of(v, id) \in Leading(d)
    <2>1. v \notin EntityVerbs \cup NoteVerbs \cup MediaVerbs \cup TagVerbs \cup Unlinking
                    \cup {"ident:active", "note:unlink-tag", "media:unlink-tag"}
      BY DEF EntityVerbs, TopicVerbs, NoteVerbs, MediaVerbs, TagVerbs, Unlinking
    <2>2. Finds(d, <<v, id, 0>>)
      BY <1>5, <2>1 DEF Finds
    <2> QED BY <1>1, <2>2 DEF Verbs
  <1> QED BY <1>2, <1>3, <1>4, <1>5

LEMMA UnlinkLeads ==
    ASSUME NEW d, NEW id \in Nat, NEW t \in Nat, Living(d, "tag", t)
    PROVE  /\ Living(d, "note", id) => With("note:unlink-tag", id, t) \in Leading(d)
           /\ Living(d, "media", id) => With("media:unlink-tag", id, t) \in Leading(d)
  <1> USE DEF Unlinking
  <1>1. "note:unlink-tag" \in Verbs /\ "media:unlink-tag" \in Verbs
    BY DEF Verbs, NoteVerbs, MediaVerbs
  <1>2. Living(d, "note", id) => Finds(d, <<"note:unlink-tag", id, t>>)
    BY DEF Finds, EntityVerbs, TopicVerbs, NoteVerbs, MediaVerbs, TagVerbs
  <1>3. Living(d, "media", id) => Finds(d, <<"media:unlink-tag", id, t>>)
    BY DEF Finds, EntityVerbs, TopicVerbs, NoteVerbs, MediaVerbs, TagVerbs
  <1> QED BY <1>1, <1>2, <1>3 DEF Leading, Callbacks, With

\* the entities an unlink button may name
Linkable(d, id) == Living(d, "ent", id) \/ id \in d.hidden

LEMMA UnlinkEntityLeads ==
    ASSUME NEW d, NEW id \in Nat, NEW n \in Nat, Linkable(d, n), NEW v \in Unlinking
    PROVE  With(v, id, n) \in Leading(d)
  <1> DEFINE cb == <<v, id, n>>
  <1>1. cb \in Callbacks /\ cb[1] = v /\ cb[3] = n
    BY DEF Callbacks, Verbs
  <1>2. v \notin EntityVerbs \cup NoteVerbs \cup MediaVerbs \cup TagVerbs
                  \cup {"ws:detail", "ws:inspect", "ident:active", "note:unlink-tag", "media:unlink-tag"}
    BY DEF EntityVerbs, TopicVerbs, NoteVerbs, MediaVerbs, TagVerbs, Unlinking
  <1> HIDE DEF cb
  <1>3. CASE Living(d, "ent", n)
    <2>1. Finds(d, cb)
      BY <1>1, <1>2, <1>3 DEF Finds
    <2> QED BY <1>1, <2>1 DEF Leading, With, cb
  <1>4. CASE n \in d.hidden
    <2>1. AsksHidden(d, cb)
      BY <1>1, <1>4 DEF AsksHidden
    <2> QED BY <1>1, <2>1 DEF Leading, With, cb
  <1> QED BY <1>3, <1>4 DEF Linkable

LEMMA ActiveLeads == ASSUME NEW d, Sound(d) PROVE To("ident:active") \in Leading(d)
  <1>1. "ident:active" \in Verbs
    BY DEF Verbs
  <1>2. Finds(d, <<"ident:active", 0, 0>>) \/ AsksHidden(d, <<"ident:active", 0, 0>>)
    <2>1. CASE d.active.entity \in d.hidden
      BY <2>1 DEF AsksHidden
    <2>2. CASE d.active.entity \notin d.hidden
      BY <2>2 DEF Finds, EntityVerbs, TopicVerbs, NoteVerbs, MediaVerbs, TagVerbs, Unlinking, Sound, Active
    <2> QED BY <2>1, <2>2
  <1> QED BY <1>1, <1>2 DEF Leading, Callbacks, To

-----------------------------------------------------------------------------
(* The pages *)

Good(d, page) == page.is = "page" => page.buttons \in Seq(Leading(d))

LEMMA PageGood == ASSUME NEW d, NEW s \in Seq(Leading(d)) PROVE Good(d, Page(s))
  <1>1. CASE Len(s) > MaxButtons
    BY <1>1 DEF Good, Page, Error
  <1>2. CASE ~(Len(s) > MaxButtons)
    BY <1>2 DEF Good, Page
  <1> QED BY <1>1, <1>2

LEMMA FreeTos == ASSUME NEW d PROVE \A v \in KindVerbs \cup SearchVerbs \cup HomeVerbs \cup FileVerbs : To(v) \in Leading(d)
BY FreeLeads DEF Free

LEMMA FreeOfs == ASSUME NEW d, NEW id \in Nat PROVE \A v \in HomeVerbs \cup FileVerbs : Of(v, id) \in Leading(d)
BY FreeLeads DEF Free

LEMMA FreeWiths ==
    ASSUME NEW d, NEW id \in Nat, NEW n \in Nat
    PROVE  \A v \in HomeVerbs \cup FileVerbs : With(v, id, n) \in Leading(d)
BY FreeLeads DEF Free

LEMMA HubsGood ==
    ASSUME NEW d, Sound(d)
    PROVE  Good(d, ControlHome) /\ Good(d, EntityHub) /\ Good(d, SearchConfig) /\ Good(d, NoIdentity)
  <1> DEFINE L == Leading(d)
  <1>1. To("ident:active") \in L /\ \A v \in KindVerbs \cup SearchVerbs \cup HomeVerbs \cup FileVerbs : To(v) \in L
    BY ActiveLeads, FreeTos
  <1> HIDE DEF L
  <1>2. <<To("ws:home"), To("ent:list"), To("topic:home"), To("ident:active"), To("eq:home"),
          To("search:home"), To("note:home"), To("media:home"), To("tag:home"), To("home")>> \in Seq(L)
    BY <1>1 DEF HomeVerbs, SearchVerbs, FileVerbs
  <1>3. <<To("ent:add"), To(ListOf.character), To(ListOf.weapon), To(ListOf.artifact),
          To(ListOf.entity), To(ListOf.all), To("home"), To("ent:list")>> \in Seq(L)
    BY <1>1 DEF HomeVerbs, KindVerbs, ListOf
  <1>4. <<To("search:execute"), To("search:clear"), To("search:ws"), To("search:entities"), To("search:tags"),
          To("search:mode"), To("search:dates"), To("search:mtype"), To("search:scope"), To("search:kind"),
          To("home"), To("search:home")>> \in Seq(L)
    BY <1>1 DEF HomeVerbs, SearchVerbs
  <1>5. Nav(To("home"), To("ident:active")) \in Seq(L)
    BY <1>1 DEF HomeVerbs, Nav
  <1> QED BY <1>2, <1>3, <1>4, <1>5, PageGood DEF L, ControlHome, EntityHub, SearchConfig, NoIdentity

LEMMA SpacesGood ==
    ASSUME NEW d, Stored(d, Nat), Sound(d) PROVE Good(d, WorkspacePage(d))
  <1> DEFINE L == Leading(d)
             W == {x[2] : x \in {y \in DOMAIN d.rows : y[1] = "ws"}}
             all == Ascending(W)
  <1>1. PICK N \in Nat : \A x \in DOMAIN d.rows : x = <<x[1], x[2]>> /\ x[2] \in 1 .. N
    BY Numbers
  <1>2. \A n \in W : n \in 1 .. N /\ Living(d, "ws", n)
    <2> SUFFICES ASSUME NEW x \in DOMAIN d.rows, x[1] = "ws" PROVE x[2] \in 1 .. N /\ Living(d, "ws", x[2])
      OBVIOUS
    <2>1. x = <<"ws", x[2]>> /\ x[2] \in 1 .. N
      BY <1>1
    <2> QED BY <2>1 DEF Sound, Living
  <1> HIDE DEF W
  <1>3. all \in Seq(W)
    BY <1>2, AscendingIs
  <1>4. \A n \in W : Of("ws:detail", n) \in L
    <2>1. \A n \in W : n \in Nat
      BY <1>2
    <2> QED BY <1>2, <2>1, ItemLeads
  <1>5. Listed("ws:detail", all, 1, 6) \in Seq(L)
    BY <1>3, <1>4, RowsLead
  <1>6. Pager("ws:home:p", all, 1, 6) \in Seq(L)
    BY <1>3, PagerLeads DEF Free, HomeVerbs
  <1>7. \A v \in HomeVerbs : To(v) \in L
    BY FreeTos
  <1> HIDE DEF L, all
  <1>8. <<To("ws:create")>> \in Seq(L) /\ Nav(To("home"), To("ws:home")) \in Seq(L)
    BY <1>7 DEF HomeVerbs, Nav
  <1>9. <<To("ws:create")>> \o Listed("ws:detail", all, 1, 6)
            \o Nav(To("home"), To("ws:home")) \o Pager("ws:home:p", all, 1, 6) \in Seq(L)
    BY <1>5, <1>6, <1>8
  <1> QED BY <1>9, PageGood DEF L, WorkspacePage, PageLen, all, W

LEMMA SpaceGood ==
    ASSUME NEW d, NEW id \in Nat, Living(d, "ws", id)
    PROVE  Good(d, WorkspaceDetail(id)) /\ Good(d, WorkspaceInspect(id))
  <1> DEFINE L == Leading(d)
  <1>1. /\ \A v \in HomeVerbs : To(v) \in L /\ Of(v, id) \in L
        /\ Of("ws:detail", id) \in L /\ Of("ws:inspect", id) \in L
    BY FreeTos, FreeOfs, ItemLeads
  <1> HIDE DEF L
  <1>2. <<Of("ws:open", id), Of("ws:close", id), Of("ws:inspect", id), Of("ws:rename", id),
          Of("ws:archive", id), To("ent:list"), To("topic:home"), To("ws:home"), Of("ws:detail", id)>> \in Seq(L)
    BY <1>1 DEF HomeVerbs
  <1>3. <<Of("ws:detail", id), Of("ws:inspect", id), To("home")>> \in Seq(L)
    BY <1>1 DEF HomeVerbs
  <1> QED BY <1>2, <1>3, PageGood DEF L, WorkspaceDetail, WorkspaceInspect

\* the lists of entities of a kind
LEMMA KindList ==
    ASSUME NEW d, Stored(d, Nat), NEW kind, NEW page \in Nat, NEW per \in {4, 5, 6, 8},
           NEW v \in EntityVerbs, NEW p \in Free
    PROVE  LET all == Ascending(OfKind(d, kind))
           IN Listed(v, all, page, per) \in Seq(Leading(d)) /\ Pager(p, all, page, per) \in Seq(Leading(d))
  <1> DEFINE S == OfKind(d, kind)
  <1>1. S \in SUBSET LivingIn(d, "ent", Active(d))
    BY DEF OfKind
  <1>2. Ascending(S) \in Seq(S)
    BY <1>1, SortedIs
  <1>3. \A n \in S : Of(v, n) \in Leading(d)
    BY <1>1, EntityLeads DEF FindEntity
  <1> HIDE DEF S
  <1>4. Listed(v, Ascending(S), page, per) \in Seq(Leading(d)) /\ Pager(p, Ascending(S), page, per) \in Seq(Leading(d))
    BY <1>2, <1>3, RowsLead, PagerLeads
  <1> QED BY <1>4 DEF S

LEMMA EntityListGood ==
    ASSUME NEW d, Stored(d, Nat), NEW kind \in DOMAIN ListOf, NEW page \in Nat PROVE Good(d, EntityList(d, kind, page))
  <1> DEFINE L == Leading(d)
             all == Ascending(OfKind(d, kind))
  <1>1. ListOf[kind] \in Free /\ AddOf[kind] \in Free /\ "ent:list" \in Free
    BY ListVerbsFree DEF Free, HomeVerbs
  <1>2. Listed("ent:view", all, page, 5) \in Seq(L) /\ Pager(ListOf[kind], all, page, 5) \in Seq(L)
    BY <1>1, KindList DEF EntityVerbs
  <1>3. To(ListOf[kind]) \in L /\ To(AddOf[kind]) \in L /\ To("ent:list") \in L
    BY <1>1, FreeLeads
  <1> HIDE DEF L, all
  <1>4. <<To(AddOf[kind])>> \in Seq(L) /\ Nav(To("ent:list"), To(ListOf[kind])) \in Seq(L)
    BY <1>3 DEF Nav
  <1>5. <<To(AddOf[kind])>> \o Listed("ent:view", all, page, 5)
            \o Nav(To("ent:list"), To(ListOf[kind])) \o Pager(ListOf[kind], all, page, 5) \in Seq(L)
    BY <1>2, <1>4
  <1> QED BY <1>5, PageGood DEF L, all, EntityList, PageLen

LEMMA EntityGood ==
    ASSUME NEW d, Stored(d, Nat), Sound(d), NEW id, FindEntity(d, id)
    PROVE  /\ Good(d, EntityDetail(d, id)) /\ Good(d, TopicDetail(id)) /\ Good(d, IdentityInspector(id))
  <1> DEFINE L == Leading(d)
             kind == KindOf(d, id)
  <1>1. \A v \in EntityVerbs : Of(v, id) \in L
    BY EntityLeads
  <1>2. \A v \in HomeVerbs : To(v) \in L
    BY FreeTos
  <1>3. kind \in EntityKinds
    BY LivingIs DEF FindEntity, Living, Sound, KindOf
  <1>4. To(ListOf[kind]) \in L
    <2>1. kind \in DOMAIN ListOf
      BY <1>3 DEF EntityKinds, ListOf
    <2> QED BY <2>1, ListVerbsFree, FreeLeads
  <1> HIDE DEF L, kind
  <1> DEFINE head == <<Of("ent:edit", id), Of("ident", id), Of("topic:view", id)>>
             pick == IF kind = "character" THEN <<Of("eq:pick", id)>> ELSE <<>>
             nav == Nav(To(ListOf[kind]), Of("ent:view", id))
  <1>5. head \in Seq(L) /\ pick \in Seq(L) /\ <<Of("ent:del", id)>> \in Seq(L) /\ nav \in Seq(L)
    BY <1>1, <1>4 DEF EntityVerbs, TopicVerbs, Nav
  <1>6. head \o pick \o <<Of("ent:del", id)>> \o nav \in Seq(L)
    <2> HIDE DEF head, pick, nav
    <2> QED BY <1>5
  <1>7. Good(d, EntityDetail(d, id))
    BY <1>6, PageGood DEF L, kind, EntityDetail
  <1>8. <<Of("topic:ensure", id), Of("topic:lock", id), Of("topic:unlock", id), Of("topic:del", id),
          Of("ident", id), To("topic:home"), Of("topic:view", id)>> \in Seq(L)
    BY <1>1, <1>2 DEF EntityVerbs, TopicVerbs, HomeVerbs
  <1>9. <<Of("ent:view", id), Of("topic:view", id), To("topic:home"), Of("ident", id)>> \in Seq(L)
    BY <1>1, <1>2 DEF EntityVerbs, TopicVerbs, HomeVerbs
  <1> QED BY <1>7, <1>8, <1>9, PageGood DEF L, TopicDetail, IdentityInspector

LEMMA TopicsGood == ASSUME NEW d, Stored(d, Nat) PROVE Good(d, TopicCenter(d, 1))
  <1> DEFINE L == Leading(d)
             all == Ascending(OfKind(d, "all"))
  <1>1. Listed("topic:view", all, 1, 4) \in Seq(L) /\ Pager("topic:home:p", all, 1, 4) \in Seq(L)
    BY KindList DEF EntityVerbs, TopicVerbs, Free, HomeVerbs
  <1>2. \A v \in HomeVerbs : To(v) \in L
    BY FreeTos
  <1> HIDE DEF L, all
  <1>3. <<To("topic:repair")>> \in Seq(L) /\ Nav(To("home"), To("topic:home")) \in Seq(L)
    BY <1>2 DEF HomeVerbs, Nav
  <1>4. <<To("topic:repair")>> \o Listed("topic:view", all, 1, 4)
            \o Nav(To("home"), To("topic:home")) \o Pager("topic:home:p", all, 1, 4) \in Seq(L)
    BY <1>1, <1>3
  <1> QED BY <1>4, PageGood DEF L, all, TopicCenter, PageLen

LEMMA EquipGood == ASSUME NEW d, Stored(d, Nat), NEW page \in Nat PROVE Good(d, EquipHome(d, page))
  <1> DEFINE L == Leading(d)
             all == Ascending(OfKind(d, "character"))
  <1>1. Listed("eq:pick", all, page, 6) \in Seq(L) /\ Pager("eq:home:p", all, page, 6) \in Seq(L)
    BY KindList DEF EntityVerbs, Free, HomeVerbs
  <1>2. \A v \in HomeVerbs : To(v) \in L
    BY FreeTos
  <1> HIDE DEF L, all
  <1>3. Nav(To("home"), To("eq:home")) \in Seq(L)
    BY <1>2 DEF HomeVerbs, Nav
  <1>4. Nav(To("home"), To("eq:home")) \o Listed("eq:pick", all, page, 6) \o Pager("eq:home:p", all, page, 6) \in Seq(L)
    BY <1>1, <1>3
  <1> QED BY <1>4, PageGood DEF L, all, EquipHome, PageLen

\* every weapon of the workspace
LEMMA PickGood == ASSUME NEW d, Stored(d, Nat), NEW id, FindEntity(d, id) PROVE Good(d, EquipPick(d, id))
  <1> DEFINE L == Leading(d)
             S == OfKind(d, "weapon")
             weapons == Ascending(S)
             sets == [i \in DOMAIN weapons |-> With("eq:set", id, weapons[i])]
             off == IF id \in d.worn THEN <<Of("eq:unequip", id)>> ELSE <<>>
             nav == Nav(To("eq:home"), Of("eq:pick", id))
  <1>1. id \in Nat /\ \A n \in S : n \in Nat
    BY LivingIs DEF FindEntity, OfKind
  <1>2. weapons \in Seq(S)
    <2>1. S \in SUBSET LivingIn(d, "ent", Active(d))
      BY DEF OfKind
    <2> HIDE DEF S
    <2> QED BY <2>1, SortedIs
  <1>3. \A n \in S : With("eq:set", id, n) \in L
    BY <1>1, FreeWiths DEF HomeVerbs
  <1>4. Of("eq:unequip", id) \in L /\ To("eq:home") \in L
    BY <1>1, FreeOfs, FreeTos DEF HomeVerbs
  <1>5. Of("eq:pick", id) \in L
    BY EntityLeads DEF EntityVerbs
  <1> HIDE DEF L, S, weapons
  <1>6. sets \in Seq(L)
    <2>1. \A i \in DOMAIN weapons : weapons[i] \in S
      BY <1>2
    <2> QED BY <1>2, <1>3, <2>1
  <1>7. off \in Seq(L) /\ nav \in Seq(L)
    BY <1>4, <1>5 DEF Nav
  <1>8. sets \o off \o nav \in Seq(L)
    <2> HIDE DEF sets, off, nav
    <2> QED BY <1>6, <1>7
  <1> QED BY <1>8, PageGood DEF L, S, weapons, EquipPick

\* a page of notes or media
LEMMA FileList ==
    ASSUME NEW d, Stored(d, Nat), NEW k, NEW w, NEW per \in {4, 5, 6, 8}, NEW v, NEW p \in Free,
           \A n \in Nat : Living(d, k, n) => Of(v, n) \in Leading(d)
    PROVE  LET S == LivingIn(d, k, w)
           IN /\ \A page \in Nat : /\ Listed(v, Newest(S), page, per) \in Seq(Leading(d))
                                      /\ Listed(v, Ascending(S), page, per) \in Seq(Leading(d))
                                      /\ Pager(p, Newest(S), page, per) \in Seq(Leading(d))
                                      /\ Pager(p, Ascending(S), page, per) \in Seq(Leading(d))
              /\ Rows(v, Newest(S)) \in Seq(Leading(d))
  <1> DEFINE S == LivingIn(d, k, w)
             L == Leading(d)
  <1>1. Ascending(S) \in Seq(S) /\ Newest(S) \in Seq(S)
    BY SortedIs
  <1>2. \A n \in S : Of(v, n) \in L
    BY LivingIs
  <1> HIDE DEF S
  <1>3. \A page \in Nat : /\ Listed(v, Newest(S), page, per) \in Seq(L)
                             /\ Listed(v, Ascending(S), page, per) \in Seq(L)
                             /\ Pager(p, Newest(S), page, per) \in Seq(L)
                             /\ Pager(p, Ascending(S), page, per) \in Seq(L)
    BY <1>1, <1>2, RowsLead, PagerLeads
  <1>4. Rows(v, Newest(S)) \in Seq(L)
    BY <1>1, <1>2, RowsLead, 4 \in {4, 5, 6, 8}, 0 \in Nat
  <1> QED BY <1>3, <1>4 DEF S

LEMMA NotesGood == ASSUME NEW d, Stored(d, Nat), NEW w, NEW page \in Nat PROVE Good(d, NoteHome(LivingIn(d, "note", w), FALSE, page))
  <1> DEFINE L == Leading(d)
             all == Newest(LivingIn(d, "note", w))
  <1>1. "note:view" \in NoteVerbs \ {"note:unlink-tag"} /\ "note:home:p" \in Free
    BY DEF NoteVerbs, Free, FileVerbs
  <1>2. Listed("note:view", all, page, 6) \in Seq(L) /\ Pager("note:home:p", all, page, 6) \in Seq(L)
    BY <1>1, ItemLeads, FileList
  <1>3. \A v \in HomeVerbs \cup FileVerbs : To(v) \in L
    BY FreeTos
  <1> HIDE DEF L, all
  <1>4. <<To("note:add"), To("note:search")>> \in Seq(L) /\ Nav(To("home"), To("note:home")) \in Seq(L)
    BY <1>3 DEF HomeVerbs, FileVerbs, Nav
  <1>5. <<To("note:add"), To("note:search")>> \o Listed("note:view", all, page, 6)
            \o Nav(To("home"), To("note:home")) \o Pager("note:home:p", all, page, 6) \in Seq(L)
    BY <1>2, <1>4
  <1> QED BY <1>5, PageGood DEF L, all, NoteHome, PageLen

LEMMA PhotosGood ==
    ASSUME NEW d, Stored(d, Nat), NEW w, NEW page \in Nat
    PROVE  /\ Good(d, MediaHome(LivingIn(d, "media", w), FALSE, page))
           /\ Good(d, MediaHome(LivingIn(d, "media", w), TRUE, 1))
  <1> DEFINE L == Leading(d)
             all == Newest(LivingIn(d, "media", w))
             rows0 == Listed("media:view", all, page, 5)
             rows1 == Listed("media:view", all, 1, 5)
             pager == Pager("media:home:p", all, page, 5)
             some == <<To("media:search"), To("media:home")>>
             lists == <<To("media:list"), To("media:list"), To("media:list"), To("media:list"), To("media:search")>>
             nav == Nav(To("home"), To("media:home"))
  <1>1. "media:view" \in MediaVerbs \ {"media:unlink-tag"} /\ "media:home:p" \in Free
    BY DEF MediaVerbs, Free, FileVerbs
  <1>2. rows0 \in Seq(L) /\ rows1 \in Seq(L) /\ pager \in Seq(L)
    BY <1>1, ItemLeads, FileList
  <1>3. \A v \in HomeVerbs \cup FileVerbs : To(v) \in L
    BY FreeTos
  <1> HIDE DEF L, all
  <1>4. some \in Seq(L) /\ lists \in Seq(L) /\ nav \in Seq(L) /\ <<>> \in Seq(L)
    BY <1>3 DEF HomeVerbs, FileVerbs, Nav
  <1>5. lists \o rows0 \o nav \o pager \in Seq(L) /\ some \o rows1 \o nav \o <<>> \in Seq(L)
    <2> HIDE DEF rows0, rows1, pager, some, lists, nav
    <2> QED BY <1>2, <1>4
  <1>6. /\ MediaHome(LivingIn(d, "media", w), FALSE, page) = Page(lists \o rows0 \o nav \o pager)
        /\ MediaHome(LivingIn(d, "media", w), TRUE, 1) = Page(some \o rows1 \o nav \o <<>>)
    BY DEF MediaHome, PageLen, all
  <1> QED BY <1>5, <1>6, PageGood DEF L

LEMMA TagsGood == ASSUME NEW d, Stored(d, Nat), NEW page \in Nat PROVE Good(d, TagHome(d, page))
  <1> DEFINE L == Leading(d)
             all == Ascending(LivingIn(d, "tag", Active(d)))
  <1>1. "tag:view" \in TagVerbs /\ "tag:home:p" \in Free
    BY DEF TagVerbs, Free, FileVerbs
  <1>2. Listed("tag:view", all, page, 8) \in Seq(L) /\ Pager("tag:home:p", all, page, 8) \in Seq(L)
    BY <1>1, ItemLeads, FileList
  <1>3. \A v \in HomeVerbs \cup FileVerbs : To(v) \in L
    BY FreeTos
  <1> HIDE DEF L, all
  <1>4. <<To("tag:add")>> \in Seq(L) /\ Nav(To("home"), To("tag:home")) \in Seq(L)
    BY <1>3 DEF HomeVerbs, FileVerbs, Nav
  <1>5. <<To("tag:add")>> \o Listed("tag:view", all, page, 8)
            \o Nav(To("home"), To("tag:home")) \o Pager("tag:home:p", all, page, 8) \in Seq(L)
    BY <1>2, <1>4
  <1> QED BY <1>5, PageGood DEF L, all, TagHome, PageLen

\* the buttons that take links and labels off
LEMMA UnlinksLead ==
    ASSUME NEW d, Stored(d, Nat), Sound(d), NEW k, NEW id \in Nat, NEW ent \in Unlinking, NEW tag,
           \A t \in Nat : Living(d, "tag", t) => With(tag, id, t) \in Leading(d)
    PROVE  Unlinks(d, k, id, ent, tag) \in Seq(Leading(d))
  <1> DEFINE L == Leading(d)
             E == EntitiesOf(d, k, id)
             T == TagsOf(d, k, id)
  <1>1. PICK N \in Nat : \A x \in DOMAIN d.rows : x = <<x[1], x[2]>> /\ x[2] \in 1 .. N
    BY Numbers
  <1>2. \A n \in E : n \in 1 .. N /\ Linkable(d, n)
    <2> SUFFICES ASSUME NEW l \in d.links PROVE l[2][2] \in 1 .. N /\ Linkable(d, l[2][2])
      BY DEF EntitiesOf
    <2> DEFINE n == l[2][2]
    <2>1. Linkable(d, n)
      BY DEF Sound, Linkable
    <2>2. <<"ent", n>> \in DOMAIN d.rows /\ <<"ent", n>>[2] = n
      BY <2>1 DEF Sound, Linkable, Living
    <2> HIDE DEF n
    <2>3. n \in 1 .. N
      BY <1>1, <2>2
    <2> QED BY <2>1, <2>3 DEF n
  <1>3. \A t \in T : t \in 1 .. N /\ Living(d, "tag", t)
    <2> SUFFICES ASSUME NEW l \in d.labels PROVE l[2][2] \in 1 .. N /\ Living(d, "tag", l[2][2])
      BY DEF TagsOf
    <2>1. l[2] \in DOMAIN d.rows /\ l[2][1] = "tag" /\ d.rows[l[2]].is # "gone"
      BY DEF Sound
    <2>2. l[2] = <<"tag", l[2][2]>> /\ l[2][2] \in 1 .. N
      BY <1>1, <2>1
    <2> QED BY <2>1, <2>2 DEF Living
  <1>4. \A n \in 1 .. N : n \in Nat
    OBVIOUS
  <1>5. (\A n \in E : With(ent, id, n) \in L) /\ (\A n \in T : With(tag, id, n) \in L)
    BY <1>2, <1>3, <1>4, UnlinkEntityLeads
  <1> HIDE DEF L, E, T
  <1>6. Ascending(E) \in Seq(E) /\ Ascending(T) \in Seq(T)
    BY <1>2, <1>3, AscendingIs
  <1>7. ASSUME NEW S, NEW s \in Seq(S), NEW v, \A n \in S : With(v, id, n) \in L
        PROVE  [i \in DOMAIN s |-> With(v, id, s[i])] \in Seq(L)
    <2>1. \A i \in DOMAIN s : With(v, id, s[i]) \in L
      BY <1>7
    <2> QED BY <2>1
  <1>8. [i \in DOMAIN Ascending(E) |-> With(ent, id, Ascending(E)[i])] \in Seq(L)
    BY <1>5, <1>6, <1>7
  <1>9. [i \in DOMAIN Ascending(T) |-> With(tag, id, Ascending(T)[i])] \in Seq(L)
    BY <1>5, <1>6, <1>7
  <1> QED BY <1>8, <1>9 DEF Unlinks, L, E, T

LEMMA NoteGood ==
    ASSUME NEW d, Stored(d, Nat), Sound(d), NEW id \in Nat, Living(d, "note", id) PROVE Good(d, NoteView(d, id))
  <1> DEFINE L == Leading(d)
             head == <<Of("note:edit", id), Of("note:del", id)>>
             post == IF Projected /\ EntitiesOf(d, "note", id) # {} THEN <<Of("note:post", id)>> ELSE <<>>
             link == <<Of("note:link-ent", id), Of("note:link-tag", id)>>
             unlinks == Unlinks(d, "note", id, "note:unlink-ent", "note:unlink-tag")
             nav == Nav(To("note:home"), Of("note:view", id))
  <1>1. \A v \in NoteVerbs \ {"note:unlink-tag"} : Of(v, id) \in L
    BY ItemLeads
  <1>2. unlinks \in Seq(L)
    BY UnlinkLeads, UnlinksLead DEF Unlinking
  <1>3. To("note:home") \in L
    BY FreeTos DEF FileVerbs
  <1> HIDE DEF L
  <1>4. head \in Seq(L) /\ post \in Seq(L) /\ link \in Seq(L) /\ nav \in Seq(L)
    BY <1>1, <1>3 DEF NoteVerbs, Nav
  <1>5. head \o post \o link \o unlinks \o nav \in Seq(L)
    <2> HIDE DEF head, post, link, unlinks, nav
    <2> QED BY <1>2, <1>4
  <1> QED BY <1>5, PageGood DEF L, NoteView

LEMMA PhotoGood ==
    ASSUME NEW d, Stored(d, Nat), Sound(d), NEW id \in Nat, Living(d, "media", id) PROVE Good(d, MediaView(d, id))
  <1> DEFINE L == Leading(d)
             head == <<Of("media:edit", id), Of("media:del", id), Of("media:link-ent", id), Of("media:link-tag", id)>>
             unlinks == Unlinks(d, "media", id, "media:unlink-ent", "media:unlink-tag")
             nav == Nav(To("media:home"), Of("media:view", id))
  <1>1. \A v \in MediaVerbs \ {"media:unlink-tag"} : Of(v, id) \in L
    BY ItemLeads
  <1>2. unlinks \in Seq(L)
    BY UnlinkLeads, UnlinksLead DEF Unlinking
  <1>3. To("media:home") \in L
    BY FreeTos DEF FileVerbs
  <1> HIDE DEF L
  <1>4. head \in Seq(L) /\ nav \in Seq(L)
    BY <1>1, <1>3 DEF MediaVerbs, Nav
  <1>5. head \o unlinks \o nav \in Seq(L)
    <2> HIDE DEF head, unlinks, nav
    <2> QED BY <1>2, <1>4
  <1> QED BY <1>5, PageGood DEF L, MediaView

LEMMA ResultsGood == ASSUME NEW d, NEW hits \in Seq(Leading(d)) PROVE Good(d, SearchResults(hits))
  <1> DEFINE L == Leading(d)
             head == <<To("search:gather"), To("search:clear"), To("search:ws"), To("search:entities"), To("search:tags"),
                       To("search:mode"), To("search:dates"), To("search:mtype"), To("search:scope")>>
             first == SubSeq(hits, 1, IF Len(hits) < 5 THEN Len(hits) ELSE 5)
             nav == Nav(To("home"), To("search:home"))
             more == IF Len(hits) > 5 THEN <<To("noop"), With("search:home:p", 0, 2)>> ELSE <<>>
  <1>1. (\A v \in SearchVerbs \cup HomeVerbs : To(v) \in L) /\ With("search:home:p", 0, 2) \in L
    <2>1. "search:home:p" \in Free
      BY DEF Free, SearchVerbs
    <2> QED BY <2>1, FreeTos, FreeLeads
  <1>2. hits \in Seq(L)
    OBVIOUS
  <1> HIDE DEF L
  <1>3. head \in Seq(L)
    BY <1>1 DEF SearchVerbs
  <1>4. nav \in Seq(L) /\ more \in Seq(L)
    BY <1>1 DEF SearchVerbs, HomeVerbs, Nav
  <1>5. first \in Seq(L)
    BY <1>2
  <1>6. head \o first \o nav \o more \in Seq(L)
    <2> HIDE DEF head, first, nav, more
    <2> QED BY <1>3, <1>4, <1>5
  <1>7. SearchResults(hits) = Page(head \o first \o nav \o more)
    BY DEF SearchResults, PageLen
  <1> QED BY <1>6, <1>7, PageGood DEF L

LEMMA NotPages == ASSUME NEW d PROVE Good(d, Missing) /\ Good(d, NoSpace) /\ Good(d, Error)
BY DEF Good, Missing, NoSpace, Error

LEMMA SearchGood ==
    ASSUME NEW d, Stored(d, Nat), Sound(d), NEW filters
    PROVE  Good(d, SearchHome(d, filters, TRUE)) /\ Good(d, SearchHome(d, filters, FALSE))
  <1> DEFINE w == SearchSpace(d, filters)
             notes == Rows("note:view", Newest(LivingIn(d, "note", w)))
             photos == Rows("media:view", Newest(LivingIn(d, "media", w)))
  <1>1. notes \in Seq(Leading(d))
    BY ItemLeads, FileList, "home" \in Free, 4 \in {4, 5, 6, 8}, "note:view" \in NoteVerbs \ {"note:unlink-tag"}
       DEF Free, HomeVerbs, NoteVerbs
  <1>2. photos \in Seq(Leading(d))
    BY ItemLeads, FileList, "home" \in Free, 4 \in {4, 5, 6, 8}, "media:view" \in MediaVerbs \ {"media:unlink-tag"}
       DEF Free, HomeVerbs, MediaVerbs
  <1>3. Good(d, SearchResults(notes \o photos))
    <2> DEFINE L == Leading(d)
               hits == notes \o photos
    <2>1. hits \in Seq(L)
      <3> HIDE DEF notes, photos, L
      <3> QED BY <1>1, <1>2 DEF L
    <2> HIDE DEF hits
    <2>2. Good(d, SearchResults(hits))
      BY <2>1, ResultsGood
    <2> QED BY <2>2 DEF hits
  <1>4. /\ SearchHome(d, filters, TRUE) \in {NoSpace, Error, SearchResults(notes \o photos)}
        /\ SearchHome(d, filters, FALSE) \in {NoSpace, SearchConfig}
    BY DEF SearchHome
  <1> HIDE DEF notes, photos
  <1> QED BY <1>3, <1>4, HubsGood, NotPages

LEMMA NoList ==
    /\ \A v \in {"home", "ws:home", "ws:detail", "ws:inspect", "ident:active", "search:home", "search:execute",
                "ent:list", "topic:home", "eq:home", "note:home", "media:home", "media:list", "tag:home",
                "ent:view", "topic:view", "ident", "eq:pick", "note:view", "media:view", "tag:view",
                "eq:home:p", "note:home:p", "media:home:p", "tag:home:p"} :
          \A kind \in DOMAIN ListOf : v # ListOf[kind]
    /\ \A kind \in DOMAIN ListOf : /\ \A j \in DOMAIN ListOf : ListOf[j] = ListOf[kind] => j = kind
                                   /\ ListOf[kind] \in KindVerbs
BY DEF ListOf, KindVerbs

\* the pages that are about no row
LEMMA HubRendered ==
    ASSUME NEW d, NEW filters,
           NEW v \in {"home", "ws:home", "ident:active", "search:home", "search:execute",
                      "ent:list", "topic:home", "eq:home", "note:home", "media:home", "media:list", "tag:home"}
    PROVE  LET page == Render(d, filters, To(v))
           IN \/ page \in {Missing, NoSpace}
              \/ v = "home" /\ page = ControlHome
              \/ v = "ws:home" /\ page = WorkspacePage(d)
              \/ v = "ent:list" /\ page = EntityHub
              \/ v = "topic:home" /\ page = TopicCenter(d, 1)
              \/ /\ v = "ident:active"
                 /\ \/ page = NoIdentity
                    \/ FindEntity(d, d.active.entity) /\ page = IdentityInspector(d.active.entity)
              \/ v = "eq:home" /\ page = EquipHome(d, 0)
              \/ v = "note:home" /\ page = NoteHome(LivingIn(d, "note", Active(d)), FALSE, 0)
              \/ v = "media:home" /\ page = MediaHome(LivingIn(d, "media", Active(d)), FALSE, 0)
              \/ v = "media:list" /\ page = MediaHome(LivingIn(d, "media", Active(d)), TRUE, 1)
              \/ v = "tag:home" /\ page = TagHome(d, 0)
              \/ v = "search:home" /\ page = SearchHome(d, [all |-> FALSE, space |-> 0], FALSE)
              \/ v = "search:execute" /\ page = SearchHome(d, filters, TRUE)
  <1>1. To(v)[1] = v /\ To(v)[2] = 0 /\ To(v)[3] = 0
    BY DEF To
  <1>2. v \notin ListVerbs
    BY NoList DEF ListVerbs
  <1> HIDE DEF To
  <1>3. CASE v = "home"
    BY <1>1, <1>2, <1>3 DEF Render
  <1>4. CASE v = "ws:home"
    BY <1>1, <1>2, <1>4 DEF Render
  <1>5. CASE v = "ident:active"
    <2>1. CASE ~Finds(d, To(v))
      BY <1>1, <1>5, <2>1 DEF Render
    <2>2. CASE Finds(d, To(v))
      <3>1. Active(d) # 0 /\ d.active.entity # 0 => FindEntity(d, d.active.entity)
        BY <1>1, <1>5, <2>2 DEF Finds
      <3>2. \/ Render(d, filters, To(v)) \in {Missing, NoSpace}
            \/ Render(d, filters, To(v)) = IF Active(d) = 0 \/ d.active.entity = 0
                                           THEN NoIdentity ELSE IdentityInspector(d.active.entity)
        BY <1>1, <1>2, <1>5, <2>2 DEF Render
      <3> QED BY <1>5, <3>1, <3>2
    <2> QED BY <2>1, <2>2
  <1>6. CASE v = "search:home"
    BY <1>1, <1>2, <1>6 DEF Render
  <1>7. CASE v = "search:execute"
    BY <1>1, <1>2, <1>7 DEF Render
  <1>8. CASE v = "ent:list"
    BY <1>1, <1>2, <1>8 DEF Render
  <1>9. CASE v = "topic:home"
    BY <1>1, <1>2, <1>9 DEF Render
  <1>10. CASE v = "eq:home"
    BY <1>1, <1>2, <1>10 DEF Render
  <1>11. CASE v = "note:home"
    BY <1>1, <1>2, <1>11 DEF Render
  <1>12. CASE v = "media:home"
    BY <1>1, <1>2, <1>12 DEF Render
  <1>13. CASE v = "media:list"
    BY <1>1, <1>2, <1>13 DEF Render
  <1>14. CASE v = "tag:home"
    BY <1>1, <1>2, <1>14 DEF Render
  <1> QED BY <1>3, <1>4, <1>5, <1>6, <1>7, <1>8, <1>9, <1>10, <1>11, <1>12, <1>13, <1>14

LEMMA ListRendered ==
    ASSUME NEW d, NEW filters, NEW kind \in DOMAIN ListOf, NEW page
    PROVE  Render(d, filters, With(ListOf[kind], 0, page)) \in {Missing, NoSpace, EntityList(d, kind, page)}
  <1> DEFINE v == ListOf[kind]
  <1>1. With(v, 0, page)[1] = v /\ With(v, 0, page)[3] = page
    BY DEF With
  <1>2. v \notin {"home", "ws:home", "ws:detail", "ws:inspect", "ident:active", "search:home", "search:execute",
                  "ent:list", "topic:home", "eq:home", "note:home", "media:home", "media:list", "tag:home",
                  "ent:view", "topic:view", "ident", "eq:pick", "note:view", "media:view", "tag:view",
                  "eq:home:p", "note:home:p", "media:home:p", "tag:home:p"}
    BY NoList
  <1>3. v \in ListVerbs
    BY DEF ListVerbs
  <1>4. KindListed(v) = kind
    BY NoList DEF KindListed
  <1> HIDE DEF v
  <1>5. Render(d, filters, With(v, 0, page)) \in {Missing, NoSpace, EntityList(d, KindListed(v), page)}
    <2> HIDE DEF With
    <2> QED BY <1>1, <1>2, <1>3 DEF Render
  <1> QED BY <1>4, <1>5 DEF v

\* the other lists with more than one page
LEMMA PageRendered ==
    ASSUME NEW d, NEW filters, NEW n, NEW v \in {"eq:home:p", "note:home:p", "media:home:p", "tag:home:p"}
    PROVE  LET page == Render(d, filters, With(v, 0, n))
           IN \/ page \in {Missing, NoSpace}
              \/ page = EquipHome(d, n)
              \/ page = NoteHome(LivingIn(d, "note", Active(d)), FALSE, n)
              \/ page = MediaHome(LivingIn(d, "media", Active(d)), FALSE, n)
              \/ page = TagHome(d, n)
  <1>1. With(v, 0, n)[1] = v /\ With(v, 0, n)[3] = n
    BY DEF With
  <1>2. v \notin ListVerbs
    BY NoList DEF ListVerbs
  <1> HIDE DEF With
  <1>3. CASE v = "eq:home:p"
    BY <1>1, <1>2, <1>3 DEF Render
  <1>4. CASE v = "note:home:p"
    BY <1>1, <1>2, <1>4 DEF Render
  <1>5. CASE v = "media:home:p"
    BY <1>1, <1>2, <1>5 DEF Render
  <1>6. CASE v = "tag:home:p"
    BY <1>1, <1>2, <1>6 DEF Render
  <1> QED BY <1>3, <1>4, <1>5, <1>6

\* the pages that are about a row
LEMMA RowRendered ==
    ASSUME NEW d, NEW filters, NEW id,
           NEW v \in {"ws:detail", "ws:inspect", "ent:view", "topic:view", "ident", "eq:pick", "note:view", "media:view"}
    PROVE  LET page == Render(d, filters, Of(v, id))
           IN \/ page \in {Missing, NoSpace}
              \/ v = "ws:detail" /\ page = WorkspaceDetail(id) /\ Finds(d, Of(v, id))
              \/ v = "ws:inspect" /\ page = WorkspaceInspect(id) /\ Finds(d, Of(v, id))
              \/ v = "ent:view" /\ page = EntityDetail(d, id) /\ Finds(d, Of(v, id))
              \/ v = "topic:view" /\ page = TopicDetail(id) /\ Finds(d, Of(v, id))
              \/ v = "ident" /\ page = IdentityInspector(id) /\ Finds(d, Of(v, id))
              \/ v = "eq:pick" /\ page = EquipPick(d, id) /\ Finds(d, Of(v, id))
              \/ v = "note:view" /\ page = NoteView(d, id) /\ Finds(d, Of(v, id))
              \/ v = "media:view" /\ page = MediaView(d, id) /\ Finds(d, Of(v, id))
  <1>1. Of(v, id)[1] = v /\ Of(v, id)[2] = id /\ Of(v, id)[3] = 0
    BY DEF Of
  <1>2. v \notin ListVerbs
    BY NoList DEF ListVerbs
  <1> HIDE DEF Of
  <1>3. CASE v = "ws:detail"
    BY <1>1, <1>2, <1>3 DEF Render
  <1>4. CASE v = "ws:inspect"
    BY <1>1, <1>2, <1>4 DEF Render
  <1>5. CASE v = "ent:view"
    BY <1>1, <1>2, <1>5 DEF Render
  <1>6. CASE v = "topic:view"
    BY <1>1, <1>2, <1>6 DEF Render
  <1>7. CASE v = "ident"
    BY <1>1, <1>2, <1>7 DEF Render
  <1>8. CASE v = "eq:pick"
    BY <1>1, <1>2, <1>8 DEF Render
  <1>9. CASE v = "note:view"
    BY <1>1, <1>2, <1>9 DEF Render
  <1>10. CASE v = "media:view"
    BY <1>1, <1>2, <1>10 DEF Render
  <1> QED BY <1>3, <1>4, <1>5, <1>6, <1>7, <1>8, <1>9, <1>10

\* Every page drawn from a sound state leads somewhere.
LEMMA RenderGood ==
    ASSUME NEW d, Stored(d, Nat), Sound(d), NEW filters, NEW cb \in Targets(d), cb[1] # "tag:view"
    PROVE  Good(d, Render(d, filters, cb))
  <1> DEFINE Hubs == {"home", "ws:home", "ident:active", "search:home", "search:execute", "ent:list", "topic:home",
                      "eq:home", "note:home", "media:home", "media:list", "tag:home"}
             Paged == {"eq:home:p", "note:home:p", "media:home:p", "tag:home:p"}
             OfRow == {"ws:detail", "ws:inspect", "ent:view", "topic:view", "ident", "eq:pick", "note:view", "media:view"}
  <1>1. CASE \E v \in Hubs : cb = To(v)
    <2>1. PICK v \in Hubs : cb = To(v)
      BY <1>1
    <2>2. FindEntity(d, d.active.entity) => Good(d, IdentityInspector(d.active.entity))
      BY EntityGood
    <2>3. /\ Good(d, ControlHome) /\ Good(d, EntityHub) /\ Good(d, NoIdentity) /\ Good(d, WorkspacePage(d))
          /\ Good(d, Missing) /\ Good(d, NoSpace)
          /\ Good(d, TopicCenter(d, 1)) /\ Good(d, EquipHome(d, 0)) /\ Good(d, TagHome(d, 0))
      BY HubsGood, NotPages, SpacesGood, TopicsGood, EquipGood, TagsGood, 0 \in Nat
    <2>4. /\ Good(d, NoteHome(LivingIn(d, "note", Active(d)), FALSE, 0))
          /\ Good(d, MediaHome(LivingIn(d, "media", Active(d)), FALSE, 0))
          /\ Good(d, MediaHome(LivingIn(d, "media", Active(d)), TRUE, 1))
      BY NotesGood, PhotosGood, 0 \in Nat
    <2>5. /\ Good(d, SearchHome(d, [all |-> FALSE, space |-> 0], FALSE)) /\ Good(d, SearchHome(d, filters, TRUE))
      BY SearchGood
    <2> DEFINE Shown == {Missing, NoSpace, ControlHome, WorkspacePage(d), EntityHub, TopicCenter(d, 1), NoIdentity,
                         EquipHome(d, 0), NoteHome(LivingIn(d, "note", Active(d)), FALSE, 0),
                         MediaHome(LivingIn(d, "media", Active(d)), FALSE, 0),
                         MediaHome(LivingIn(d, "media", Active(d)), TRUE, 1), TagHome(d, 0),
                         SearchHome(d, [all |-> FALSE, space |-> 0], FALSE), SearchHome(d, filters, TRUE)}
               page == Render(d, filters, To(v))
    <2>6. page \in Shown \/ (FindEntity(d, d.active.entity) /\ page = IdentityInspector(d.active.entity))
      BY HubRendered
    <2>7. \A p \in Shown : Good(d, p)
      BY <2>3, <2>4, <2>5
    <2> HIDE DEF page, Shown
    <2>8. Good(d, page)
      BY <2>2, <2>6, <2>7
    <2> QED BY <2>1, <2>8 DEF page
  <1>2. CASE \E kind \in DOMAIN ListOf, n \in Nat : cb = With(ListOf[kind], 0, n)
    BY <1>2, ListRendered, EntityListGood, NotPages
  <1>3. CASE \E key \in DOMAIN d.rows : \E v \in OfRow : cb = Of(v, key[2])
    <2>1. PICK key \in DOMAIN d.rows, v \in OfRow : cb = Of(v, key[2])
      BY <1>3
    <2> DEFINE id == key[2]
    <2>2. id \in Nat
      <3>1. PICK N \in Nat : \A x \in DOMAIN d.rows : x = <<x[1], x[2]>> /\ x[2] \in 1 .. N
        BY Numbers
      <3>2. id \in 1 .. N
        BY <3>1
      <3> HIDE DEF id
      <3> QED BY <3>1, <3>2
    <2> HIDE DEF id
    <2>3. Of(v, id)[1] = v /\ Of(v, id)[2] = id
      BY DEF Of
    <2>4. CASE v \in {"ws:detail", "ws:inspect"}
      <3>1. Finds(d, Of(v, id)) => Living(d, "ws", id)
        BY <2>3, <2>4 DEF Finds
      <3> QED BY <2>1, <2>2, <2>4, <3>1, RowRendered, SpaceGood, NotPages DEF id
    <2>5. CASE v \in {"ent:view", "topic:view", "ident", "eq:pick"}
      <3>1. Finds(d, Of(v, id)) => FindEntity(d, id)
        BY <2>3, <2>5 DEF Finds, EntityVerbs, TopicVerbs
      <3> QED BY <2>1, <2>5, <3>1, RowRendered, EntityGood, PickGood, NotPages DEF id
    <2>6. CASE v = "note:view"
      <3>1. Finds(d, Of(v, id)) => Living(d, "note", id)
        BY <2>3, <2>6 DEF Finds, NoteVerbs
      <3> QED BY <2>1, <2>2, <2>6, <3>1, RowRendered, NoteGood, NotPages DEF id
    <2>7. CASE v = "media:view"
      <3>1. Finds(d, Of(v, id)) => Living(d, "media", id)
        BY <2>3, <2>7 DEF Finds, MediaVerbs
      <3> QED BY <2>1, <2>2, <2>7, <3>1, RowRendered, PhotoGood, NotPages DEF id
    <2> QED BY <2>4, <2>5, <2>6, <2>7
  <1>4. CASE \E v \in Paged, n \in Nat : cb = With(v, 0, n)
    <2>1. PICK v \in Paged, n \in Nat : cb = With(v, 0, n)
      BY <1>4
    <2>2. /\ Good(d, EquipHome(d, n)) /\ Good(d, TagHome(d, n))
          /\ Good(d, NoteHome(LivingIn(d, "note", Active(d)), FALSE, n))
          /\ Good(d, MediaHome(LivingIn(d, "media", Active(d)), FALSE, n))
          /\ Good(d, Missing) /\ Good(d, NoSpace)
      BY EquipGood, TagsGood, NotesGood, PhotosGood, NotPages
    <2> QED BY <2>1, <2>2, PageRendered
  <1>5. \/ \E v \in Hubs : cb = To(v)
        \/ \E kind \in DOMAIN ListOf, n \in Nat : cb = With(ListOf[kind], 0, n)
        \/ \E v \in Paged, n \in Nat : cb = With(v, 0, n)
        \/ \E key \in DOMAIN d.rows : \E v \in OfRow : cb = Of(v, key[2])
    <2>1. CASE cb \in {To(v) : v \in PageVerbs \ {"ws:detail", "ws:inspect"}}
      <3>1. PICK v \in PageVerbs \ {"ws:detail", "ws:inspect"} : cb = To(v)
        BY <2>1
      <3>2. v \in Hubs \/ v \in ListVerbs
        BY DEF PageVerbs, Anywhere
      <3>3. CASE v \in Hubs
        BY <3>1, <3>3
      <3>4. CASE v \in ListVerbs
        BY <3>1, <3>4, 0 \in Nat DEF ListVerbs, To, With
      <3> QED BY <3>2, <3>3, <3>4
    <2>2. CASE cb \in UNION {{Of(v, key[2]) : v \in RowPages[key[1]]} : key \in DOMAIN d.rows}
      <3>1. PICK key \in DOMAIN d.rows : \E v \in RowPages[key[1]] : cb = Of(v, key[2])
        BY <2>2
      <3>2. PICK v \in RowPages[key[1]] : cb = Of(v, key[2])
        BY <3>1
      <3>3. cb[1] = v
        BY <3>2 DEF Of
      <3>4. key[1] \in Tables
        BY DEF Stored
      <3>5. RowPages[key[1]] \subseteq OfRow \cup {"tag:view"}
        BY <3>4 DEF Tables, RowPages
      <3> QED BY <3>2, <3>3, <3>5
    <2>3. CASE cb \in {With(v, 0, key[2]) : v \in PagedVerbs, key \in DOMAIN d.rows}
      <3>1. PICK v \in PagedVerbs, key \in DOMAIN d.rows : cb = With(v, 0, key[2])
        BY <2>3
      <3>2. PICK N \in Nat : \A x \in DOMAIN d.rows : x = <<x[1], x[2]>> /\ x[2] \in 1 .. N
        BY Numbers
      <3>3. key[2] \in Nat
        BY <3>2
      <3>4. CASE v \in Paged
        BY <3>1, <3>3, <3>4
      <3>5. CASE v \in ListVerbs
        BY <3>1, <3>3, <3>5 DEF ListVerbs
      <3> QED BY <3>4, <3>5 DEF PagedVerbs
    <2> QED BY <2>1, <2>2, <2>3 DEF Targets
  <1> QED BY <1>1, <1>2, <1>3, <1>4, <1>5

LEMMA SoundLeads ==
    ASSUME NEW d, Stored(d, Nat), Sound(d), NEW filters, NEW cb \in Targets(d), cb[1] # "tag:view",
           Render(d, filters, cb).is = "page"
    PROVE  \A b \in DOMAIN Render(d, filters, cb).buttons :
              \/ Finds(d, Render(d, filters, cb).buttons[b])
              \/ AsksHidden(d, Render(d, filters, cb).buttons[b])
  <1> DEFINE buttons == Render(d, filters, cb).buttons
  <1>1. buttons \in Seq(Leading(d))
    BY RenderGood DEF Good
  <1>2. \A b \in DOMAIN buttons : buttons[b] \in Leading(d)
    <2> HIDE DEF buttons
    <2> QED BY <1>1
  <1> QED BY <1>2 DEF Leading

-----------------------------------------------------------------------------
(* The tools keep the state sound *)

\* A call as a button or an answer makes it names rows of the table it is for.
Apt(c) ==
    /\ c.tool \in {"delete_entity", "update_entity"} => c.on = <<"ent", c.on[2]>>
    /\ c.tool = "delete_item" => c.on[1] \in {"note", "media"}
    /\ c.tool = "create_entity" => c.name \in EntityKinds
    /\ c.tool = "link_entity" => c.to = <<"ent", c.to[2]>>

LEMMA EntityStays ==
    ASSUME NEW d, NEW e, NEW id, FindEntity(d, id), Active(e) = Active(d),
           <<"ent", id>> \in DOMAIN e.rows, e.rows[<<"ent", id>>].is # "gone",
           \A x \in DOMAIN d.rows : x[1] = "ent" => x \in DOMAIN e.rows /\ e.rows[x].space = d.rows[x].space
    PROVE  FindEntity(e, id)
  <1>1. PICK x \in DOMAIN d.rows : /\ x[1] = "ent" /\ x[2] = id
                                   /\ d.rows[x].space = Active(d)
    BY DEF FindEntity, LivingIn
  <1>2. x \in DOMAIN e.rows /\ e.rows[x].space = Active(e)
    BY <1>1
  <1>3. Living(e, "ent", x[2])
    BY <1>1 DEF Living
  <1> QED BY <1>1, <1>2, <1>3 DEF FindEntity, LivingIn

\* No workspace or entity goes, and no entity comes back.
LEMMA SoundStays ==
    ASSUME NEW d, Sound(d), NEW e, DOMAIN d.rows \subseteq DOMAIN e.rows,
           \A x \in DOMAIN d.rows :
              /\ DOMAIN e.rows[x] = DOMAIN d.rows[x] /\ e.rows[x].space = d.rows[x].space
              /\ x[1] = "ent" => e.rows[x].label = d.rows[x].label
              /\ x[1] \in {"ws", "ent"} /\ d.rows[x].is # "gone" => e.rows[x].is # "gone"
              /\ x[1] = "ent" /\ d.rows[x].is = "gone" => e.rows[x].is = "gone",
           \A x \in DOMAIN e.rows \ DOMAIN d.rows :
              /\ DOMAIN e.rows[x] = {"space", "label", "is"} /\ e.rows[x].is # "gone"
              /\ x[1] = "ent" => e.rows[x].label \in EntityKinds,
           \A l \in e.links : l \in d.links, e.hidden = d.hidden,
           \A l \in e.labels : /\ l \in d.labels \/ (l[2] \in DOMAIN e.rows /\ l[2][1] = "tag")
                               /\ e.rows[l[2]].is # "gone",
           e.active = d.active \/ e.active.space = 0 \/ e.active.entity = 0
    PROVE  Sound(e)
  <1>1. \A x \in DOMAIN e.rows : /\ DOMAIN e.rows[x] = {"space", "label", "is"}
                                 /\ x[1] = "ws" => e.rows[x].is # "gone"
                                 /\ x[1] = "ent" => e.rows[x].label \in EntityKinds
    <2> SUFFICES ASSUME NEW x \in DOMAIN e.rows
                 PROVE  /\ DOMAIN e.rows[x] = {"space", "label", "is"}
                        /\ x[1] = "ws" => e.rows[x].is # "gone"
                        /\ x[1] = "ent" => e.rows[x].label \in EntityKinds
      OBVIOUS
    <2>1. CASE x \in DOMAIN d.rows
      BY <2>1 DEF Sound
    <2>2. CASE x \notin DOMAIN d.rows
      BY <2>2
    <2> QED BY <2>1, <2>2
  <1>2. /\ \A id \in e.hidden : <<"ent", id>> \in DOMAIN e.rows /\ ~Living(e, "ent", id)
        /\ \A l \in e.links : l[2] = <<"ent", l[2][2]>> /\ (Living(e, "ent", l[2][2]) \/ l[2][2] \in e.hidden)
        /\ \A l \in e.labels : l[2] \in DOMAIN e.rows /\ l[2][1] = "tag" /\ e.rows[l[2]].is # "gone"
    <2>1. \A id : <<"ent", id>> \in DOMAIN d.rows =>
             <<"ent", id>> \in DOMAIN e.rows /\ (Living(d, "ent", id) <=> Living(e, "ent", id))
      <3> SUFFICES ASSUME NEW id, <<"ent", id>> \in DOMAIN d.rows
                   PROVE  <<"ent", id>> \in DOMAIN e.rows /\ (Living(d, "ent", id) <=> Living(e, "ent", id))
        OBVIOUS
      <3> DEFINE x == <<"ent", id>>
      <3>1. x \in DOMAIN d.rows /\ x[1] = "ent"
        OBVIOUS
      <3> HIDE DEF x
      <3>2. x \in DOMAIN e.rows /\ (d.rows[x].is = "gone" <=> e.rows[x].is = "gone")
        BY <3>1
      <3> QED BY <3>1, <3>2 DEF Living, x
    <2>2. \A id \in d.hidden : <<"ent", id>> \in DOMAIN d.rows /\ ~Living(d, "ent", id)
      BY DEF Sound
    <2>3. \A l \in d.links : l[2] = <<"ent", l[2][2]>> /\ (Living(d, "ent", l[2][2]) \/ l[2][2] \in d.hidden)
      BY DEF Sound
    <2>4. \A id : Living(d, "ent", id) => Living(e, "ent", id)
      BY <2>1 DEF Living
    <2>5. \A id \in e.hidden : <<"ent", id>> \in DOMAIN e.rows /\ ~Living(e, "ent", id)
      BY <2>1, <2>2
    <2>6. \A l \in e.links : l[2] = <<"ent", l[2][2]>> /\ (Living(e, "ent", l[2][2]) \/ l[2][2] \in e.hidden)
      BY <2>3, <2>4
    <2>7. \A l \in e.labels : l[2] \in DOMAIN e.rows /\ l[2][1] = "tag" /\ e.rows[l[2]].is # "gone"
      BY DEF Sound
    <2> QED BY <2>5, <2>6, <2>7
  <1>3. e.active.space # 0 /\ e.active.entity # 0 => FindEntity(e, e.active.entity) \/ e.active.entity \in e.hidden
    <2> SUFFICES ASSUME e.active.space # 0, e.active.entity # 0, e.active.entity \notin e.hidden
                 PROVE  FindEntity(e, e.active.entity)
      OBVIOUS
    <2> DEFINE id == d.active.entity
    <2>1. e.active = d.active /\ FindEntity(d, id)
      BY DEF Sound
    <2>2. <<"ent", id>> \in DOMAIN d.rows /\ d.rows[<<"ent", id>>].is # "gone"
      BY <2>1 DEF FindEntity, LivingIn, Living
    <2>3. <<"ent", id>>[1] = "ent"
      OBVIOUS
    <2>4. <<"ent", id>> \in DOMAIN e.rows /\ e.rows[<<"ent", id>>].is # "gone"
      BY <2>2, <2>3
    <2>5. \A x \in DOMAIN d.rows : x[1] = "ent" => x \in DOMAIN e.rows /\ e.rows[x].space = d.rows[x].space
      OBVIOUS
    <2>6. Active(e) = Active(d)
      BY <2>1 DEF Active
    <2> HIDE DEF id
    <2>7. FindEntity(e, id)
      BY ONLY <2>1, <2>4, <2>5, <2>6, EntityStays
    <2> QED BY <2>1, <2>7 DEF id
  <1> QED BY <1>1, <1>2, <1>3 DEF Sound

\* the rows, links and labels are as they were
LEMMA SoundSame ==
    ASSUME NEW d, Sound(d), NEW e, e.rows = d.rows, e.links = d.links, e.labels = d.labels, e.hidden = d.hidden,
           e.active = d.active \/ e.active.space = 0 \/ e.active.entity = 0
    PROVE  Sound(e)
  <1>1. \A l \in e.labels : /\ l \in d.labels \/ (l[2] \in DOMAIN e.rows /\ l[2][1] = "tag")
                            /\ e.rows[l[2]].is # "gone"
    BY DEF Sound
  <1>2. \A x \in DOMAIN d.rows :
           /\ DOMAIN e.rows[x] = DOMAIN d.rows[x] /\ e.rows[x].space = d.rows[x].space
           /\ x[1] = "ent" => e.rows[x].label = d.rows[x].label
           /\ x[1] \in {"ws", "ent"} /\ d.rows[x].is # "gone" => e.rows[x].is # "gone"
           /\ x[1] = "ent" /\ d.rows[x].is = "gone" => e.rows[x].is = "gone"
    OBVIOUS
  <1>3. DOMAIN d.rows \subseteq DOMAIN e.rows /\ \A x \in DOMAIN e.rows \ DOMAIN d.rows : FALSE
    OBVIOUS
  <1>4. \A l \in e.links : l \in d.links
    OBVIOUS
  <1> QED BY <1>1, <1>2, <1>3, <1>4, SoundStays

LEMMA PutSound ==
    ASSUME NEW d, Stored(d, Nat), Sound(d), NEW k \in Tables, NEW w, NEW label,
           k = "ent" => label \in EntityKinds
    PROVE  Sound(Put(d, NextKey(d, k), Row(w, label)))
  <1> DEFINE key == NextKey(d, k)
             e == Put(d, key, Row(w, label))
  <1>1. key \notin DOMAIN d.rows /\ key[1] = k
    BY NextKeyIs
  <1>2. /\ DOMAIN e.rows = DOMAIN d.rows \cup {key} /\ \A x \in DOMAIN d.rows : e.rows[x] = d.rows[x]
        /\ e.links = d.links /\ e.labels = d.labels /\ e.active = d.active /\ e.hidden = d.hidden
    BY <1>1, PutIs
  <1>3. e.rows[key] = Row(w, label)
    BY DEF Put, Stored
  <1>4. DOMAIN e.rows[key] = {"space", "label", "is"} /\ e.rows[key].is = "open" /\ e.rows[key].label = label
    BY <1>3 DEF Row
  <1> HIDE DEF e, key
  <1>5. \A l \in e.labels : e.rows[l[2]].is # "gone"
    BY <1>2 DEF Sound
  <1>6. \A x \in DOMAIN d.rows :
           /\ DOMAIN e.rows[x] = DOMAIN d.rows[x] /\ e.rows[x].space = d.rows[x].space
           /\ x[1] = "ent" => e.rows[x].label = d.rows[x].label
           /\ x[1] \in {"ws", "ent"} /\ d.rows[x].is # "gone" => e.rows[x].is # "gone"
           /\ x[1] = "ent" /\ d.rows[x].is = "gone" => e.rows[x].is = "gone"
    BY <1>2
  <1>7. \A x \in DOMAIN e.rows \ DOMAIN d.rows :
           /\ DOMAIN e.rows[x] = {"space", "label", "is"} /\ e.rows[x].is # "gone"
           /\ x[1] = "ent" => e.rows[x].label \in EntityKinds
    BY <1>1, <1>2, <1>4
  <1>8. /\ DOMAIN d.rows \subseteq DOMAIN e.rows
        /\ \A l \in e.links : l \in d.links
        /\ \A l \in e.labels : /\ l \in d.labels \/ (l[2] \in DOMAIN e.rows /\ l[2][1] = "tag")
                               /\ e.rows[l[2]].is # "gone"
    BY <1>2, <1>5
  <1>9. Sound(e)
    BY <1>2, <1>6, <1>7, <1>8, SoundStays
  <1> QED BY <1>9 DEF e, key

\* a row of another table, or that stays
LEMMA IsSound ==
    ASSUME NEW d, Stored(d, Nat), Sound(d), NEW key, NEW state,
           (state # "gone" /\ Alive(d, key)) \/ key[1] \in {"note", "media"}
    PROVE  Sound(Is(d, key, state))
  <1> DEFINE e == Is(d, key, state)
  <1>1. /\ DOMAIN e.rows = DOMAIN d.rows /\ \A x \in DOMAIN d.rows : x # key => e.rows[x] = d.rows[x]
        /\ e.links = d.links /\ e.labels = d.labels /\ e.active = d.active /\ e.hidden = d.hidden
    BY IsIs
  <1>2. key \in DOMAIN d.rows => e.rows[key] = [d.rows[key] EXCEPT !.is = state]
    BY DEF Is, Stored
  <1>3. key \in DOMAIN d.rows => /\ DOMAIN e.rows[key] = DOMAIN d.rows[key]
                                 /\ e.rows[key].space = d.rows[key].space /\ e.rows[key].label = d.rows[key].label
                                 /\ e.rows[key].is = state
    BY <1>2 DEF Sound
  <1>8. key \in DOMAIN d.rows /\ key[1] = "ent" => d.rows[key].is # "gone"
    <2>1. key \in DOMAIN d.rows => key = <<key[1], key[2]>>
      BY Numbers
    <2> QED BY <2>1 DEF Alive, Living
  <1> HIDE DEF e
  <1>4. \A l \in e.labels : e.rows[l[2]].is # "gone"
    <2> SUFFICES ASSUME NEW l \in d.labels PROVE e.rows[l[2]].is # "gone"
      BY <1>1
    <2>1. l[2] \in DOMAIN d.rows /\ l[2][1] = "tag" /\ d.rows[l[2]].is # "gone"
      BY DEF Sound
    <2> QED BY <1>1, <1>3, <2>1
  <1>5. \A x \in DOMAIN d.rows :
           /\ DOMAIN e.rows[x] = DOMAIN d.rows[x] /\ e.rows[x].space = d.rows[x].space
           /\ x[1] = "ent" => e.rows[x].label = d.rows[x].label
           /\ x[1] \in {"ws", "ent"} /\ d.rows[x].is # "gone" => e.rows[x].is # "gone"
           /\ x[1] = "ent" /\ d.rows[x].is = "gone" => e.rows[x].is = "gone"
    BY <1>1, <1>3, <1>8
  <1>6. /\ DOMAIN d.rows \subseteq DOMAIN e.rows /\ \A x \in DOMAIN e.rows \ DOMAIN d.rows : FALSE
        /\ \A l \in e.links : l \in d.links
        /\ \A l \in e.labels : /\ l \in d.labels \/ (l[2] \in DOMAIN e.rows /\ l[2][1] = "tag")
                               /\ e.rows[l[2]].is # "gone"
    BY <1>1, <1>4
  <1>7. Sound(e)
    BY <1>1, <1>5, <1>6, SoundStays
  <1> QED BY <1>7 DEF e

LEMMA OpensSound == ASSUME NEW d, Stored(d, Nat), Sound(d), NEW w PROVE Sound(Opens(d, w, 0))
  <1> DEFINE e == Opens(d, w, 0)
  <1>1. /\ e.rows = d.rows /\ e.links = d.links /\ e.labels = d.labels
        /\ e.active.entity = 0 /\ e.hidden = d.hidden
    BY DEF Opens, Stored
  <1> HIDE DEF e
  <1>2. Sound(e)
    BY <1>1, SoundSame
  <1> QED BY <1>2 DEF e

LEMMA SpacesSound ==
    ASSUME NEW d, Stored(d, Nat), Sound(d), NEW c
    PROVE  /\ Sound(CreateWorkspace(d, c)) /\ Sound(ArchiveWorkspace(d, c))
           /\ Sound(OpenWorkspace(d, c)) /\ Sound(CloseWorkspace(d, c))
  <1>1. Sound(CreateWorkspace(d, c))
    <2> DEFINE key == NextKey(d, "ws")
               p == Put(d, key, Row(key[2], "ws"))
               e == Opens(p, key[2], 0)
    <2>1. Sound(p)
      BY PutSound DEF Tables
    <2>2. DOMAIN p = DOMAIN d
      BY PutIs
    <2> HIDE DEF p
    <2>3. /\ e.rows = p.rows /\ e.links = p.links /\ e.labels = p.labels
          /\ e.active.entity = 0 /\ e.hidden = p.hidden
      BY <2>2 DEF Opens, Stored
    <2> HIDE DEF e
    <2>4. Sound(e)
      BY <2>1, <2>3, SoundSame
    <2> QED BY <2>4 DEF e, p, CreateWorkspace
  <1>2. Sound(ArchiveWorkspace(d, c))
    BY IsSound DEF ArchiveWorkspace
  <1>3. Sound(OpenWorkspace(d, c)) /\ Sound(CloseWorkspace(d, c))
    BY OpensSound DEF OpenWorkspace, CloseWorkspace
  <1> QED BY <1>1, <1>2, <1>3

LEMMA CreateEntitySound ==
    ASSUME NEW d, Stored(d, Nat), Sound(d), NEW c, c.name \in EntityKinds, NEW topic
    PROVE  Sound(CreateEntity(d, c, topic))
  <1> DEFINE p == Put(d, NextKey(d, "ent"), Row(c.space, c.name))
             e == CreateEntity(d, c, topic)
  <1>1. Sound(p)
    BY PutSound DEF Tables
  <1>2. /\ e.rows = p.rows /\ e.links = p.links /\ e.labels = p.labels
        /\ e.active = p.active /\ e.hidden = p.hidden
    BY DEF CreateEntity
  <1> HIDE DEF p, e
  <1>3. Sound(e)
    BY <1>1, <1>2, SoundSame
  <1> QED BY <1>3 DEF e

LEMMA UpdateEntitySound ==
    ASSUME NEW d, Stored(d, Nat), Sound(d), NEW c, c.on = <<"ent", c.on[2]>> PROVE Sound(UpdateEntity(d, c))
  <1>1. CASE ~There(d, c, c.on)
    BY <1>1 DEF UpdateEntity
  <1>2. CASE There(d, c, c.on)
    <2> DEFINE id == c.on[2]
               e == Opens(d, c.space, id)
    <2>1. UpdateEntity(d, c) = e
      BY <1>2 DEF UpdateEntity
    <2>2. /\ e.rows = d.rows /\ e.links = d.links /\ e.labels = d.labels /\ e.hidden = d.hidden
          /\ e.active.space = c.space /\ e.active.entity = id
      BY DEF Opens, Stored
    <2>3. c.on \in DOMAIN d.rows /\ Living(d, "ent", id) /\ d.rows[c.on].space = c.space /\ c.on[1] = "ent"
      BY <1>2 DEF There, Alive, Home, Living
    <2> HIDE DEF e
    <2>4. FindEntity(e, id)
      <3>1. Living(e, "ent", id)
        BY <2>2, <2>3 DEF Living
      <3> QED BY <2>2, <2>3, <3>1 DEF FindEntity, LivingIn, Active
    <2>5. \A n : Living(e, "ent", n) <=> Living(d, "ent", n)
      BY <2>2 DEF Living
    <2>6. Sound(e)
      BY <2>2, <2>4, <2>5 DEF Sound
    <2> QED BY <2>1, <2>6
  <1> QED BY <1>1, <1>2

\* An entity goes: its links and its place in the active context go with it, or it is
\* one of those that are hidden.
LEMMA EntityGone ==
    ASSUME NEW d, Stored(d, Nat), Sound(d), NEW id, <<"ent", id>> \in DOMAIN d.rows,
           NEW e, e.rows = Is(d, <<"ent", id>>, "gone").rows,
           e.hidden \in {d.hidden, d.hidden \cup {id}}, e.links \subseteq d.links, e.labels = d.labels,
           id \in e.hidden \/ \A l \in e.links : l[2] # <<"ent", id>>,
           \/ e.active.entity = 0
           \/ e.active = d.active /\ (d.active.entity # id \/ id \in e.hidden)
    PROVE  Sound(e)
  <1> DEFINE key == <<"ent", id>>
             p == Is(d, key, "gone")
  <1>1. DOMAIN p.rows = DOMAIN d.rows /\ \A x \in DOMAIN d.rows : x # key => p.rows[x] = d.rows[x]
    BY IsIs
  <1>2. p.rows[key] = [d.rows[key] EXCEPT !.is = "gone"]
    BY DEF Is, Stored
  <1>3. e.rows = p.rows /\ key[1] = "ent"
    OBVIOUS
  <1>4. \A n : <<"ent", n>> = key <=> n = id
    OBVIOUS
  <1> HIDE DEF p, key
  <1>5. key \in DOMAIN d.rows /\ DOMAIN e.rows = DOMAIN d.rows /\ \A x \in DOMAIN d.rows : x # key => e.rows[x] = d.rows[x]
    BY <1>1, <1>3 DEF key
  <1>6. /\ DOMAIN e.rows[key] = DOMAIN d.rows[key] /\ e.rows[key].space = d.rows[key].space
        /\ e.rows[key].label = d.rows[key].label /\ e.rows[key].is = "gone"
    BY <1>2, <1>3, <1>5 DEF Sound
  <1>7. \A x \in DOMAIN e.rows : /\ DOMAIN e.rows[x] = {"space", "label", "is"}
                                 /\ x[1] = "ws" => e.rows[x].is # "gone"
                                 /\ x[1] = "ent" => e.rows[x].label \in EntityKinds
    <2> SUFFICES ASSUME NEW x \in DOMAIN d.rows
                 PROVE  /\ DOMAIN e.rows[x] = {"space", "label", "is"}
                        /\ x[1] = "ws" => e.rows[x].is # "gone"
                        /\ x[1] = "ent" => e.rows[x].label \in EntityKinds
      BY <1>5
    <2>1. CASE x = key
      BY <1>3, <1>6, <2>1 DEF Sound
    <2>2. CASE x # key
      BY <1>5, <2>2 DEF Sound
    <2> QED BY <2>1, <2>2
  <1>8. \A n : Living(e, "ent", n) <=> n # id /\ Living(d, "ent", n)
    <2> SUFFICES ASSUME NEW n PROVE Living(e, "ent", n) <=> n # id /\ Living(d, "ent", n)
      OBVIOUS
    <2>1. CASE n = id
      BY <1>4, <1>6, <2>1 DEF Living
    <2>2. CASE n # id
      BY <1>4, <1>5, <2>2 DEF Living
    <2> QED BY <2>1, <2>2
  <1>9. \A n \in e.hidden : <<"ent", n>> \in DOMAIN e.rows /\ ~Living(e, "ent", n)
    BY <1>5, <1>8 DEF Sound, key
  <1>10. \A l \in e.links : l[2] = <<"ent", l[2][2]>> /\ (Living(e, "ent", l[2][2]) \/ l[2][2] \in e.hidden)
    <2> SUFFICES ASSUME NEW l \in e.links
                 PROVE  l[2] = <<"ent", l[2][2]>> /\ (Living(e, "ent", l[2][2]) \/ l[2][2] \in e.hidden)
      OBVIOUS
    <2> DEFINE n == l[2][2]
    <2>1. l[2] = <<"ent", n>> /\ (Living(d, "ent", n) \/ n \in d.hidden)
      BY DEF Sound
    <2>2. n = id => id \in e.hidden
      BY <2>1
    <2> HIDE DEF n
    <2>3. Living(e, "ent", n) \/ n \in e.hidden
      BY <1>8, <2>1, <2>2
    <2> QED BY <2>1, <2>3 DEF n
  <1>11. \A l \in e.labels : l[2] \in DOMAIN e.rows /\ l[2][1] = "tag" /\ e.rows[l[2]].is # "gone"
    <2> SUFFICES ASSUME NEW l \in d.labels
                 PROVE  l[2] \in DOMAIN e.rows /\ l[2][1] = "tag" /\ e.rows[l[2]].is # "gone"
      OBVIOUS
    <2>1. l[2] \in DOMAIN d.rows /\ l[2][1] = "tag" /\ d.rows[l[2]].is # "gone"
      BY DEF Sound
    <2>2. l[2] # key
      BY <1>3, <2>1
    <2> QED BY <1>5, <2>1, <2>2
  <1>12. e.active.space # 0 /\ e.active.entity # 0 => FindEntity(e, e.active.entity) \/ e.active.entity \in e.hidden
    <2> SUFFICES ASSUME e.active.space # 0, e.active.entity # 0, e.active.entity \notin e.hidden
                 PROVE  FindEntity(e, e.active.entity)
      OBVIOUS
    <2> DEFINE n == d.active.entity
    <2>1. e.active = d.active /\ n # id /\ FindEntity(d, n)
      BY DEF Sound
    <2>2. <<"ent", n>> \in DOMAIN d.rows /\ d.rows[<<"ent", n>>].is # "gone" /\ <<"ent", n>> # key
      BY <1>4, <2>1 DEF FindEntity, LivingIn, Living
    <2>3. <<"ent", n>> \in DOMAIN e.rows /\ e.rows[<<"ent", n>>].is # "gone"
      BY <1>5, <2>2
    <2>4. \A x \in DOMAIN d.rows : x[1] = "ent" => x \in DOMAIN e.rows /\ e.rows[x].space = d.rows[x].space
      BY <1>5, <1>6
    <2>5. Active(e) = Active(d)
      BY <2>1 DEF Active
    <2> HIDE DEF n
    <2>6. FindEntity(e, n)
      BY ONLY <2>1, <2>3, <2>4, <2>5, EntityStays
    <2> QED BY <2>1, <2>6 DEF n
  <1> QED BY <1>7, <1>9, <1>10, <1>11, <1>12 DEF Sound

LEMMA DeleteEntitySound ==
    ASSUME NEW d, Stored(d, Nat), Sound(d), NEW c, c.on = <<"ent", c.on[2]>> PROVE Sound(DeleteEntity(d, c))
  <1>1. CASE ~There(d, c, c.on)
    BY <1>1 DEF DeleteEntity
  <1>2. CASE There(d, c, c.on)
    <2> DEFINE id == c.on[2]
               p == Is(d, <<"ent", id>>, "gone")
               links == {l \in p.links : l[2] # <<"ent", id>>}
               act == IF p.active.entity = id THEN [space |-> p.active.space, entity |-> 0] ELSE p.active
               e == DeleteEntity(d, c)
    <2>1. e = [p EXCEPT !.links = links, !.active = act]
      BY <1>2 DEF DeleteEntity
    <2>2. /\ DOMAIN p = DOMAIN d /\ p.links = d.links /\ p.labels = d.labels
          /\ p.active = d.active /\ p.hidden = d.hidden
      BY IsIs
    <2>3. links \subseteq d.links /\ \A l \in links : l[2] # <<"ent", id>>
      BY <2>2
    <2>4. act.entity = 0 \/ (act = d.active /\ d.active.entity # id)
      BY <2>2
    <2>5. <<"ent", id>> \in DOMAIN d.rows
      BY <1>2 DEF There, Alive, Living
    <2> HIDE DEF p, links, act, id, e
    <2>6. /\ e.rows = p.rows /\ e.links = links /\ e.labels = d.labels
          /\ e.active = act /\ e.hidden = d.hidden
      BY <2>1, <2>2 DEF Stored
    <2>7. Sound(e)
      BY <2>3, <2>4, <2>5, <2>6, EntityGone DEF p
    <2> QED BY <2>7 DEF e
  <1> QED BY <1>1, <1>2

LEMMA HideMilestoneSound ==
    ASSUME NEW d, Stored(d, Nat), Sound(d), NEW key, key = <<"ent", key[2]>>, NEW how
    PROVE  Sound(HideMilestone(d, key, how))
  <1>1. CASE ~Alive(d, key)
    BY <1>1 DEF HideMilestone
  <1>2. CASE Alive(d, key)
    <2> DEFINE id == key[2]
               p == Is(d, <<"ent", id>>, "gone")
               links == IF how = "deleted" THEN {l \in p.links : l[2] # <<"ent", id>>} ELSE p.links
               hidden == p.hidden \cup {id}
               e == HideMilestone(d, key, how)
    <2>1. e = [p EXCEPT !.links = links, !.hidden = hidden]
      BY <1>2 DEF HideMilestone
    <2>2. /\ DOMAIN p = DOMAIN d /\ p.links = d.links /\ p.labels = d.labels
          /\ p.active = d.active /\ p.hidden = d.hidden
      BY IsIs
    <2>3. links \subseteq d.links /\ hidden = d.hidden \cup {id}
      BY <2>2
    <2>4. <<"ent", id>> \in DOMAIN d.rows
      BY <1>2 DEF Alive, Living
    <2> HIDE DEF p, links, hidden, id, e
    <2>5. /\ e.rows = p.rows /\ e.links = links /\ e.labels = d.labels
          /\ e.active = d.active /\ e.hidden = hidden
      BY <2>1, <2>2 DEF Stored
    <2>6. Sound(e)
      BY <2>3, <2>4, <2>5, EntityGone DEF p
    <2> QED BY <2>6 DEF e
  <1> QED BY <1>1, <1>2

LEMMA TopicsSound ==
    ASSUME NEW d, Stored(d, Nat), Sound(d), NEW c
    PROVE  /\ Sound(EnsureTopic(d, c)) /\ \A state : Sound(SetTopicLocked(d, c, state))
           /\ \A force : Sound(DeleteTopic(d, c, force)) /\ Sound(RepairTopics(d)) /\ Sound(EquipItem(d, c))
  <1>1. ASSUME NEW e, e.rows = d.rows, e.links = d.links, e.labels = d.labels, e.active = d.active,
               e.hidden = d.hidden
        PROVE  Sound(e)
    BY <1>1, SoundSame
  <1>2. ASSUME NEW x, NEW state PROVE Sound(Topic(d, x, state))
    <2> DEFINE e == Topic(d, x, state)
    <2>1. /\ e.rows = d.rows /\ e.links = d.links /\ e.labels = d.labels
          /\ e.active = d.active /\ e.hidden = d.hidden
      BY DEF Topic
    <2> HIDE DEF e
    <2>2. Sound(e)
      BY <1>1, <2>1
    <2> QED BY <2>2 DEF e
  <1>3. Sound(RepairTopics(d))
    <2> DEFINE e == RepairTopics(d)
    <2>1. /\ e.rows = d.rows /\ e.links = d.links /\ e.labels = d.labels
          /\ e.active = d.active /\ e.hidden = d.hidden
      BY DEF RepairTopics
    <2> HIDE DEF e
    <2>2. Sound(e)
      BY <1>1, <2>1
    <2> QED BY <2>2 DEF e
  <1>4. Sound(EquipItem(d, c))
    <2> DEFINE e == EquipItem(d, c)
    <2>1. e = d \/ \E S : e = [d EXCEPT !.worn = S]
      BY DEF EquipItem
    <2>2. /\ e.rows = d.rows /\ e.links = d.links /\ e.labels = d.labels
          /\ e.active = d.active /\ e.hidden = d.hidden
      <3> HIDE DEF e
      <3> QED BY <2>1 DEF Stored
    <2> HIDE DEF e
    <2>3. Sound(e)
      BY <1>1, <2>2
    <2> QED BY <2>3 DEF e
  <1> QED BY <1>2, <1>3, <1>4 DEF EnsureTopic, SetTopicLocked, DeleteTopic

LEMMA LinksSound ==
    ASSUME NEW d, Stored(d, Nat), Sound(d), NEW c
    PROVE  /\ c.to = <<"ent", c.to[2]>> => Sound(LinkEntity(d, c))
           /\ Sound(UnlinkEntity(d, c)) /\ Sound(UnlinkTag(d, c))
  <1>1. ASSUME NEW L, \A l \in L : \/ l \in d.links
                                   \/ l[2] = <<"ent", l[2][2]>> /\ Living(d, "ent", l[2][2])
        PROVE  Sound([d EXCEPT !.links = L])
    <2> DEFINE e == [d EXCEPT !.links = L]
    <2>1. /\ e.rows = d.rows /\ e.links = L /\ e.labels = d.labels
          /\ e.active = d.active /\ e.hidden = d.hidden
      BY DEF Stored
    <2> HIDE DEF e
    <2>2. /\ FindEntity(d, e.active.entity) => FindEntity(e, e.active.entity)
          /\ \A n : Living(e, "ent", n) <=> Living(d, "ent", n)
      BY <2>1 DEF FindEntity, LivingIn, Living, Active
    <2>3. Sound(e)
      BY <1>1, <2>1, <2>2 DEF Sound
    <2> QED BY <2>3 DEF e
  <1>2. c.to = <<"ent", c.to[2]>> => Sound(LinkEntity(d, c))
    <2> SUFFICES ASSUME c.to = <<"ent", c.to[2]>>, Alive(d, c.to)
                 PROVE  Sound([d EXCEPT !.links = d.links \cup {<<c.on, c.to>>}])
      BY DEF LinkEntity
    <2>1. Living(d, "ent", c.to[2])
      BY DEF Alive
    <2> DEFINE L == d.links \cup {<<c.on, c.to>>}
    <2>2. \A l \in L : \/ l \in d.links
                       \/ l[2] = <<"ent", l[2][2]>> /\ Living(d, "ent", l[2][2])
      BY <2>1
    <2> HIDE DEF L
    <2>3. Sound([d EXCEPT !.links = L])
      BY ONLY <1>1, <2>2
    <2> QED BY <2>3 DEF L
  <1>3. Sound(UnlinkEntity(d, c))
    <2> DEFINE L == d.links \ {<<c.on, c.to>>}
    <2>1. UnlinkEntity(d, c) \in {d, [d EXCEPT !.links = L]}
      BY DEF UnlinkEntity
    <2>2. \A l \in L : \/ l \in d.links
                       \/ l[2] = <<"ent", l[2][2]>> /\ Living(d, "ent", l[2][2])
      OBVIOUS
    <2> HIDE DEF L
    <2>3. Sound([d EXCEPT !.links = L])
      BY ONLY <1>1, <2>2
    <2> QED BY <2>1, <2>3
  <1>4. Sound(UnlinkTag(d, c))
    <2> DEFINE e == UnlinkTag(d, c)
    <2>1. e = d \/ \E S : e = [d EXCEPT !.labels = d.labels \ S]
      BY DEF UnlinkTag
    <2> HIDE DEF e
    <2>2. /\ e.rows = d.rows /\ e.links = d.links /\ e.labels \subseteq d.labels
          /\ e.active = d.active /\ e.hidden = d.hidden
      BY <2>1 DEF Stored
    <2>3. /\ FindEntity(d, e.active.entity) => FindEntity(e, e.active.entity)
          /\ \A n : Living(e, "ent", n) <=> Living(d, "ent", n)
      BY <2>2 DEF FindEntity, LivingIn, Living, Active
    <2>4. Sound(e)
      BY <2>2, <2>3 DEF Sound
    <2> QED BY <2>4 DEF e
  <1> QED BY <1>2, <1>3, <1>4

LEMMA LinkTagSound == ASSUME NEW d, Stored(d, Nat), Sound(d), NEW c PROVE Sound(LinkTag(d, c)) /\ Sound(CreateTag(d, c))
  <1>1. \A w : Sound(WithTag(d, w, c.name)) /\ DOMAIN WithTag(d, w, c.name) = DOMAIN d
    <2> TAKE w
    <2>1. Sound(Put(d, NextKey(d, "tag"), Row(w, c.name)))
      BY PutSound DEF Tables
    <2>2. DOMAIN Put(d, NextKey(d, "tag"), Row(w, c.name)) = DOMAIN d
      BY PutIs
    <2> QED BY <2>1, <2>2 DEF WithTag
  <1>2. Sound(CreateTag(d, c))
    BY <1>1 DEF CreateTag
  <1>3. CASE ~Alive(d, c.on)
    BY <1>2, <1>3 DEF LinkTag
  <1>4. CASE Alive(d, c.on)
    <2> DEFINE p == WithTag(d, Home(d, c.on), c.name)
               S == TagsNamed(p, Home(d, c.on), c.name)
               L == {<<c.on, <<"tag", t>>>> : t \in S}
               e == LinkTag(d, c)
    <2>1. e = [p EXCEPT !.labels = p.labels \cup L]
      BY <1>4 DEF LinkTag
    <2>2. Sound(p) /\ DOMAIN p = DOMAIN d
      BY <1>1
    <2> HIDE DEF p, e
    <2>3. \A l \in L : l[2] \in DOMAIN p.rows /\ l[2][1] = "tag" /\ p.rows[l[2]].is # "gone"
      <3>1. \A t \in S : <<"tag", t>> \in DOMAIN p.rows /\ p.rows[<<"tag", t>>].is # "gone"
        BY DEF TagsNamed, LivingIn, Living
      <3> HIDE DEF S
      <3> QED BY <3>1
    <2> HIDE DEF L
    <2>4. /\ e.rows = p.rows /\ e.links = p.links /\ e.labels = p.labels \cup L
          /\ e.active = p.active /\ e.hidden = p.hidden
      BY <2>1, <2>2 DEF Stored
    <2>5. /\ FindEntity(p, e.active.entity) => FindEntity(e, e.active.entity)
          /\ \A n : Living(e, "ent", n) <=> Living(p, "ent", n)
      BY <2>4 DEF FindEntity, LivingIn, Living, Active
    <2>6. Sound(e)
      BY <2>2, <2>3, <2>4, <2>5 DEF Sound
    <2> QED BY <1>2, <2>6 DEF e
  <1> QED BY <1>3, <1>4

\* a tag that goes takes its labels with it
LEMMA TagsSound == ASSUME NEW d, Stored(d, Nat), Sound(d), NEW c PROVE Sound(RenameTag(d, c)) /\ Sound(DeleteTag(d, c))
  <1>1. ASSUME NEW e, NEW key, key[1] = "tag", DOMAIN e.rows = DOMAIN d.rows, e.links = d.links, e.active = d.active,
               e.hidden = d.hidden, \A x \in DOMAIN d.rows : x # key => e.rows[x] = d.rows[x],
               key \in DOMAIN d.rows => DOMAIN e.rows[key] = DOMAIN d.rows[key] /\ e.rows[key].space = d.rows[key].space,
               e.labels \subseteq d.labels, \A l \in e.labels : e.rows[l[2]].is = d.rows[l[2]].is
        PROVE  Sound(e)
    <2>1. \A x \in DOMAIN d.rows :
             /\ DOMAIN e.rows[x] = DOMAIN d.rows[x] /\ e.rows[x].space = d.rows[x].space
             /\ x[1] = "ent" => e.rows[x].label = d.rows[x].label
             /\ x[1] \in {"ws", "ent"} /\ d.rows[x].is # "gone" => e.rows[x].is # "gone"
             /\ x[1] = "ent" /\ d.rows[x].is = "gone" => e.rows[x].is = "gone"
      BY <1>1
    <2>2. /\ DOMAIN d.rows \subseteq DOMAIN e.rows /\ \A x \in DOMAIN e.rows \ DOMAIN d.rows : FALSE
          /\ \A l \in e.links : l \in d.links
      BY <1>1
    <2>3. \A l \in e.labels : /\ l \in d.labels \/ (l[2] \in DOMAIN e.rows /\ l[2][1] = "tag")
                              /\ e.rows[l[2]].is # "gone"
      BY <1>1 DEF Sound
    <2> QED BY <1>1, <2>1, <2>2, <2>3, SoundStays
  <1>2. Sound(RenameTag(d, c))
    <2> DEFINE e == RenameTag(d, c)
    <2>1. e = d \/ \E t : e = [d EXCEPT !.rows[<<"tag", t>>].label = c.new]
      BY DEF RenameTag
    <2> HIDE DEF e
    <2>2. ASSUME NEW t, e = [d EXCEPT !.rows[<<"tag", t>>].label = c.new] PROVE Sound(e)
      <3> DEFINE key == <<"tag", t>>
      <3>1. /\ key[1] = "tag" /\ DOMAIN e.rows = DOMAIN d.rows /\ e.links = d.links /\ e.active = d.active
            /\ \A x \in DOMAIN d.rows : x # key => e.rows[x] = d.rows[x]
            /\ e.labels = d.labels /\ e.hidden = d.hidden
        BY <2>2 DEF Stored
      <3>2. key \in DOMAIN d.rows => e.rows[key] = [d.rows[key] EXCEPT !.label = c.new]
        BY <2>2 DEF Stored
      <3> HIDE DEF key
      <3>3. key \in DOMAIN d.rows => /\ DOMAIN e.rows[key] = DOMAIN d.rows[key] /\ e.rows[key].space = d.rows[key].space
                                     /\ e.rows[key].is = d.rows[key].is
        BY <3>2 DEF Sound
      <3>4. \A l \in e.labels : e.rows[l[2]].is = d.rows[l[2]].is
        BY <3>1, <3>3 DEF Sound
      <3> QED BY <1>1, <3>1, <3>3, <3>4
    <2>3. Sound(e)
      BY <2>1, <2>2
    <2> QED BY <2>3 DEF e
  <1>3. Sound(DeleteTag(d, c))
    <2> DEFINE e == DeleteTag(d, c)
    <2>1. e = d \/ \E t : e = [Is(d, <<"tag", t>>, "gone") EXCEPT
                                !.labels = {l \in Is(d, <<"tag", t>>, "gone").labels : l[2] # <<"tag", t>>}]
      BY DEF DeleteTag
    <2> HIDE DEF e
    <2>2. ASSUME NEW t, e = [Is(d, <<"tag", t>>, "gone") EXCEPT
                               !.labels = {l \in Is(d, <<"tag", t>>, "gone").labels : l[2] # <<"tag", t>>}]
          PROVE  Sound(e)
      <3> DEFINE key == <<"tag", t>>
                 p == Is(d, key, "gone")
      <3>1. e = [p EXCEPT !.labels = {l \in p.labels : l[2] # key}] /\ key[1] = "tag"
        BY <2>2
      <3>2. /\ DOMAIN p = DOMAIN d /\ DOMAIN p.rows = DOMAIN d.rows /\ \A x \in DOMAIN d.rows : x # key => p.rows[x] = d.rows[x]
            /\ p.links = d.links /\ p.labels = d.labels /\ p.active = d.active /\ p.hidden = d.hidden
        BY IsIs
      <3>3. key \in DOMAIN d.rows => p.rows[key] = [d.rows[key] EXCEPT !.is = "gone"]
        BY DEF Is, Stored
      <3> HIDE DEF p, key
      <3>4. /\ e.rows = p.rows /\ e.links = d.links /\ e.active = d.active /\ e.hidden = d.hidden
            /\ e.labels = {l \in d.labels : l[2] # key}
        BY <3>1, <3>2 DEF Stored
      <3>5. key \in DOMAIN d.rows => DOMAIN e.rows[key] = DOMAIN d.rows[key] /\ e.rows[key].space = d.rows[key].space
        BY <3>3, <3>4 DEF Sound
      <3>6. e.labels \subseteq d.labels /\ \A l \in e.labels : e.rows[l[2]].is = d.rows[l[2]].is
        BY <3>2, <3>4 DEF Sound
      <3> QED BY <1>1, <3>1, <3>2, <3>4, <3>5, <3>6
    <2>3. Sound(e)
      BY <2>1, <2>2
    <2> QED BY <2>3 DEF e
  <1> QED BY <1>2, <1>3

LEMMA ItemsSound ==
    ASSUME NEW d, Stored(d, Nat), Sound(d), NEW c
    PROVE  Sound(CreateNote(d)) /\ (c.on[1] \in {"note", "media"} => Sound(Discard(d, c)))
  <1>1. Sound(CreateNote(d))
    BY PutSound DEF CreateNote, Tables
  <1> QED BY <1>1, IsSound DEF Discard

LEMMA EffectSound ==
    ASSUME NEW d, Stored(d, Nat), Sound(d), NEW c, Apt(c)
    PROVE  Sound(Effect(d, c))
  <1>1. CASE c.tool \in {"create_workspace", "archive_workspace", "open_workspace", "close_workspace"}
    <2>1. Effect(d, c) \in {CreateWorkspace(d, c), ArchiveWorkspace(d, c), OpenWorkspace(d, c), CloseWorkspace(d, c)}
      BY <1>1 DEF Effect
    <2> QED BY <2>1, SpacesSound
  <1>2. CASE c.tool \in {"create_entity", "update_entity", "delete_entity"}
    <2>1. /\ c.tool = "create_entity" => Effect(d, c) = CreateEntity(d, c, "none")
          /\ c.tool = "update_entity" => Effect(d, c) = UpdateEntity(d, c)
          /\ c.tool = "delete_entity" => Effect(d, c) = DeleteEntity(d, c)
      BY DEF Effect
    <2> QED BY <1>2, <2>1, CreateEntitySound, UpdateEntitySound, DeleteEntitySound DEF Apt
  <1>3. CASE c.tool \in TopicTools \cup {"equip_item"}
    <2>1. Effect(d, c) \in {EnsureTopic(d, c), SetTopicLocked(d, c, "locked"), SetTopicLocked(d, c, "open"),
                            DeleteTopic(d, c, FALSE), DeleteTopic(d, c, TRUE), RepairTopics(d), EquipItem(d, c)}
      BY <1>3 DEF Effect, TopicTools
    <2> QED BY <2>1, TopicsSound
  <1>4. CASE c.tool \in {"create_note", "delete_item", "create_tag", "link_tag", "unlink_tag", "rename_tag", "delete_tag"}
    <2>1. /\ c.tool = "delete_item" => Effect(d, c) = Discard(d, c)
          /\ c.tool # "delete_item" => Effect(d, c) \in {CreateNote(d), CreateTag(d, c), LinkTag(d, c), UnlinkTag(d, c),
                                                         RenameTag(d, c), DeleteTag(d, c)}
      BY <1>4 DEF Effect
    <2>2. c.tool = "delete_item" => Sound(Effect(d, c))
      BY <2>1, ItemsSound DEF Apt
    <2>3. /\ Sound(CreateNote(d)) /\ Sound(CreateTag(d, c)) /\ Sound(LinkTag(d, c)) /\ Sound(UnlinkTag(d, c))
          /\ Sound(RenameTag(d, c)) /\ Sound(DeleteTag(d, c))
      BY ItemsSound, LinkTagSound, LinksSound, TagsSound
    <2> QED BY <2>1, <2>2, <2>3
  <1>5. CASE c.tool \in {"link_entity", "unlink_entity"}
    <2>1. /\ c.tool = "link_entity" => Effect(d, c) = LinkEntity(d, c)
          /\ c.tool = "unlink_entity" => Effect(d, c) = UnlinkEntity(d, c)
      BY DEF Effect
    <2> QED BY <1>5, <2>1, LinksSound DEF Apt
  <1>6. CASE c.tool \notin {"create_workspace", "archive_workspace", "open_workspace", "close_workspace",
                            "create_entity", "update_entity", "delete_entity", "ensure_topic", "lock_topic",
                            "unlock_topic", "delete_topic", "force_topic", "repair_topics", "equip_item",
                            "create_note", "delete_item", "link_entity", "unlink_entity", "create_tag",
                            "link_tag", "unlink_tag", "rename_tag", "delete_tag"}
    <2>1. Effect(d, c) = d
      BY <1>6 DEF Effect
    <2> QED BY <2>1
  <1> QED BY <1>1, <1>2, <1>3, <1>4, <1>5, <1>6 DEF TopicTools

LEMMA OutcomesSound ==
    ASSUME NEW d, Stored(d, Nat), Sound(d), NEW c, Apt(c), NEW e \in Outcomes(d, c)
    PROVE  Sound(e)
  <1>1. e = d \/ e = Effect(d, c) \/ (c.tool = "create_entity" /\ e = CreateEntity(d, c, "open"))
    BY DEF Outcomes
  <1>2. c.tool = "create_entity" => Sound(CreateEntity(d, c, "open"))
    BY CreateEntitySound DEF Apt
  <1> QED BY <1>1, <1>2, EffectSound

-----------------------------------------------------------------------------
(* The steps keep the state sound *)

EntryApt(entry) ==
    /\ entry.flow = "edit_entity" => entry.on = <<"ent", entry.on[2]>>
    /\ entry.flow = "add_entity" => entry.name \in EntityKinds

\* The inductive invariant of the pages.
SoundInv == Stored(db, Nat) /\ Sound(db) /\ Apt(pending) /\ EntryApt(gather)
SoundNext == Sound(db)' /\ Apt(pending)' /\ EntryApt(gather)'

LEMMA NothingApt == Apt(None) /\ EntryApt(NoEntry)
BY DEF Apt, EntryApt, None, Call, NoEntry

\* Calls of most tools need nothing to be apt.
Plain == {"create_workspace", "rename_workspace", "archive_workspace", "open_workspace", "close_workspace",
          "ensure_topic", "lock_topic", "unlock_topic", "delete_topic", "force_topic", "repair_topics", "equip_item",
          "create_note", "update_item", "post_note", "unlink_entity", "create_tag", "link_tag", "unlink_tag",
          "rename_tag", "delete_tag"}

LEMMA PlainApt == ASSUME NEW c, c.tool \in Plain PROVE Apt(c)
BY DEF Plain, Apt

LEMMA CallsApt ==
    ASSUME NEW on, NEW to, NEW name, NEW new, NEW w
    PROVE  /\ \A tool \in Plain : /\ Apt(Call(tool, on)) /\ Apt(InSpace(Call(tool, on), w))
                                  /\ Apt(Toward(Call(tool, on), to)) /\ Apt(Toward(InSpace(Call(tool, on), w), to))
                                  /\ Apt(Named(Call(tool, on), name)) /\ Apt(InSpace(Named(Call(tool, on), name), w))
                                  /\ Apt(Named(InSpace(Call(tool, on), w), name))
                                  /\ Apt([InSpace(Named(Call(tool, on), name), w) EXCEPT !.new = new])
           /\ on = <<"ent", on[2]>> => \A tool \in {"delete_entity", "update_entity"} : Apt(InSpace(Call(tool, on), w))
           /\ on[1] \in {"note", "media"} => Apt(Call("delete_item", on))
           /\ name \in EntityKinds => Apt(InSpace(Named(Call("create_entity", on), name), w))
           /\ to = <<"ent", to[2]>> => Apt(Toward(Call("link_entity", on), to))
  <1>1. ASSUME NEW tool \in Plain
        PROVE  /\ Apt(Call(tool, on)) /\ Apt(InSpace(Call(tool, on), w))
               /\ Apt(Toward(Call(tool, on), to)) /\ Apt(Toward(InSpace(Call(tool, on), w), to))
               /\ Apt(Named(Call(tool, on), name)) /\ Apt(InSpace(Named(Call(tool, on), name), w))
               /\ Apt(Named(InSpace(Call(tool, on), w), name))
               /\ Apt([InSpace(Named(Call(tool, on), name), w) EXCEPT !.new = new])
    <2>1. \A c : c.tool = tool => Apt(c)
      BY PlainApt
    <2>2. /\ Call(tool, on).tool = tool /\ InSpace(Call(tool, on), w).tool = tool
          /\ Toward(Call(tool, on), to).tool = tool /\ Toward(InSpace(Call(tool, on), w), to).tool = tool
          /\ Named(Call(tool, on), name).tool = tool /\ InSpace(Named(Call(tool, on), name), w).tool = tool
          /\ Named(InSpace(Call(tool, on), w), name).tool = tool
          /\ [InSpace(Named(Call(tool, on), name), w) EXCEPT !.new = new].tool = tool
      BY CallsMade
    <2> QED BY ONLY <2>1, <2>2
  <1>2. on = <<"ent", on[2]>> => \A tool \in {"delete_entity", "update_entity"} : Apt(InSpace(Call(tool, on), w))
    BY CallsMade DEF Apt
  <1>3. on[1] \in {"note", "media"} => Apt(Call("delete_item", on))
    BY CallsMade DEF Apt
  <1>4. name \in EntityKinds => Apt(InSpace(Named(Call("create_entity", on), name), w))
    <2> DEFINE c == InSpace(Named(Call("create_entity", on), name), w)
    <2>1. c.name = name
      BY DEF Call, Named, InSpace
    <2>2. c.tool = "create_entity"
      BY CallsMade
    <2> HIDE DEF c
    <2>3. name \in EntityKinds => Apt(c)
      BY <2>1, <2>2 DEF Apt
    <2> QED BY <2>3 DEF c
  <1>5. to = <<"ent", to[2]>> => Apt(Toward(Call("link_entity", on), to))
    <2> DEFINE c == Toward(Call("link_entity", on), to)
    <2>1. c.to = to
      BY DEF Call, Toward
    <2>2. c.tool = "link_entity"
      BY CallsMade
    <2> HIDE DEF c
    <2>3. to = <<"ent", to[2]>> => Apt(c)
      BY <2>1, <2>2 DEF Apt
    <2> QED BY <2>3 DEF c
  <1> QED BY <1>1, <1>2, <1>3, <1>4, <1>5

LEMMA AsksApt == ASSUME SoundInv, NEW c, Apt(c), Asks(c) PROVE SoundNext
BY DEF SoundInv, SoundNext, Asks, Ask

LEMMA RunsApt == ASSUME SoundInv, NEW c, Apt(c), Runs(c) PROVE SoundNext
BY OutcomesSound DEF SoundInv, SoundNext, Runs

LEMMA AnswersApt == ASSUME SoundInv, NEW flow, NEW c, Apt(c), AskEntered(flow, c) PROVE SoundNext
BY NothingApt DEF SoundInv, SoundNext, AskEntered, Entered, Ask

LEMMA EntriesApt ==
    ASSUME SoundInv, NEW flow, NEW on, NEW name, Gather(flow, on, name),
           flow = "edit_entity" => on = <<"ent", on[2]>>, flow = "add_entity" => name \in EntityKinds
    PROVE  SoundNext
BY DEF SoundInv, SoundNext, Gather, EntryApt

LEMMA TapRowsApt ==
    ASSUME SoundInv, NEW w, NEW e, e = <<"ent", e[2]>>, NEW to,
           TapSpace(w) \/ TapEntity(e) \/ TapTopic(e) \/ TapEquip(e, to)
    PROVE  SoundNext
  <1>1. CASE TapSpace(w)
    BY <1>1, CallsApt, AsksApt, RunsApt, EntriesApt DEF TapSpace, Plain
  <1>2. CASE TapEntity(e)
    <2>1. \A kind \in {"character", "weapon"} : kind \in EntityKinds
      BY DEF EntityKinds
    <2>2. Apt(Here(Call("delete_entity", e)))
      BY CallsApt DEF Here
    <2> QED BY <1>2, <2>1, <2>2, AsksApt, EntriesApt DEF TapEntity
  <1>3. CASE TapTopic(e)
    <2>1. /\ \A tool \in {"ensure_topic", "lock_topic", "unlock_topic", "delete_topic", "force_topic"} :
                Apt(Here(Call(tool, e)))
          /\ Apt(Call("repair_topics", NoKey))
      BY CallsApt DEF Here, Plain
    <2> QED BY <1>3, <2>1, AsksApt, RunsApt DEF TapTopic
  <1>4. CASE TapEquip(e, to)
    <2>1. Apt(Toward(Here(Call("equip_item", e)), to))
      BY CallsApt DEF Here, Plain
    <2> QED BY <1>4, <2>1, RunsApt DEF TapEquip
  <1> QED BY <1>1, <1>2, <1>3, <1>4

LEMMA TapItemsApt ==
    ASSUME SoundInv, NEW e, NEW i, i[1] \in {"note", "media"}, NEW t,
           UnlinkEnt(i, e) \/ TapNote(i) \/ TapMedia(i) \/ TapTag(t) \/ TapSearch
    PROVE  SoundNext
  <1>1. CASE UnlinkEnt(i, e)
    <2>1. Apt(Toward(Call("unlink_entity", i), e))
      BY CallsApt DEF Plain
    <2> QED BY <1>1, <2>1, RunsApt DEF UnlinkEnt
  <1>2. CASE TapItem(i)
    <2>1. Apt(Call("delete_item", i)) /\ \A name : Apt(Named(Call("unlink_tag", i), name))
      BY CallsApt DEF Plain
    <2> QED BY <1>2, <2>1, AsksApt, RunsApt, EntriesApt DEF TapItem
  <1>3. CASE TapNote(i)
    <2>1. Apt(Call("post_note", i))
      BY CallsApt DEF Plain
    <2> QED BY <1>2, <1>3, <2>1, RunsApt, EntriesApt DEF TapNote
  <1>4. CASE TapMedia(i)
    BY <1>2, <1>4, EntriesApt DEF TapMedia
  <1>5. CASE TapTag(t)
    <2>1. \A name : Apt(Here(Named(Call("delete_tag", t), name)))
      BY CallsApt DEF Plain, Here
    <2> QED BY <1>5, <2>1, AsksApt, EntriesApt DEF TapTag
  <1>6. CASE TapSearch
    BY <1>6, EntriesApt DEF TapSearch, SoundInv, SoundNext
  <1> QED BY <1>1, <1>3, <1>4, <1>5, <1>6

LEMMA YesNoApt == ASSUME SoundInv, NEW q, Yes(q) \/ No(q) PROVE SoundNext
  <1>1. CASE Yes(q)
    BY <1>1, OutcomesSound, NothingApt DEF Yes, SoundInv, SoundNext
  <1>2. CASE No(q)
    BY <1>2, NothingApt DEF No, SoundInv, SoundNext
  <1> QED BY <1>1, <1>2

LEMMA AnswerApt == ASSUME SoundInv, Answer PROVE SoundNext
  <1>1. CASE AnswerNothing
    BY <1>1, NothingApt DEF AnswerNothing, SoundInv, SoundNext
  <1>2. CASE AnswerSpace
    <2>1. Apt(Call("create_workspace", NoKey)) /\ Apt(Call("rename_workspace", gather.on))
      BY CallsApt DEF Plain
    <2> QED BY <1>2, <2>1, AnswersApt DEF AnswerSpace
  <1>3. CASE AnswerEntity
    <2>1. gather.flow = "add_entity" => Apt(Here(Named(Call("create_entity", NoKey), gather.name)))
      BY CallsApt DEF Here, SoundInv, EntryApt
    <2>2. gather.flow = "edit_entity" => Apt(Here(Call("update_entity", gather.on)))
      BY CallsApt DEF Here, SoundInv, EntryApt
    <2>3. CASE AskEntered("add_entity", Here(Named(Call("create_entity", NoKey), gather.name)))
      <3>1. gather.flow = "add_entity"
        BY <2>3 DEF AskEntered, Entered
      <3> QED BY <2>1, <2>3, <3>1, AnswersApt
    <2>4. CASE AskEntered("edit_entity", Here(Call("update_entity", gather.on)))
      <3>1. gather.flow = "edit_entity"
        BY <2>4 DEF AskEntered, Entered
      <3> QED BY <2>2, <2>4, <3>1, AnswersApt
    <2> QED BY <1>3, <2>3, <2>4 DEF AnswerEntity
  <1>4. ASSUME NEW e \in Keys("ent"), NEW name, AnswerItem(e, name) PROVE SoundNext
    <2>1. e = <<"ent", e[2]>>
      BY Numbers DEF SoundInv, Keys
    <2>2. /\ Apt(Call("create_note", NoKey)) /\ Apt(Call("update_item", gather.on))
          /\ Apt(Toward(Call("link_entity", gather.on), e)) /\ Apt(Named(Call("link_tag", gather.on), name))
      BY <2>1, CallsApt DEF Plain
    <2> QED BY <1>4, <2>2, AnswersApt DEF AnswerItem
  <1>5. ASSUME NEW name, AnswerTag(name) PROVE SoundNext
    <2>1. /\ Apt(Here(Named(Call("create_tag", NoKey), name)))
          /\ Apt([Here(Named(Call("rename_tag", gather.on), gather.name)) EXCEPT !.new = name])
      BY CallsApt DEF Plain, Here
    <2> QED BY <1>5, <2>1, AnswersApt DEF AnswerTag
  <1>6. ASSUME NEW w, AnswerSearch(w) PROVE SoundNext
    BY <1>6, NothingApt DEF AnswerSearch, Entered, SoundInv, SoundNext
  <1> QED BY <1>1, <1>2, <1>3, <1>4, <1>5, <1>6 DEF Answer

LEMMA BesideApt == ASSUME SoundInv, Beside PROVE SoundNext
  <1>1. CASE ControlCommand \/ Restart
    BY <1>1, NothingApt DEF ControlCommand, Restart, SoundInv, SoundNext
  <1>2. CASE File
    <2>1. Sound(Put(db, NextKey(db, "media"), Row(Active(db), "media")))
      BY PutSound DEF Tables, SoundInv
    <2> QED BY <1>2, <2>1 DEF File, SoundInv, SoundNext
  <1>3. ASSUME NEW w, Use(w) PROVE SoundNext
    <2>1. Sound(OpenWorkspace(db, Call("open_workspace", w)))
      BY SpacesSound DEF SoundInv
    <2> QED BY <1>3, <2>1, NothingApt DEF Use, SoundInv, SoundNext
  <1>4. ASSUME NEW key \in DOMAIN db.rows, Elsewhere(key) PROVE SoundNext
    <2>1. UNCHANGED <<pending, gather>>
      BY <1>4 DEF Elsewhere
    <2>2. ASSUME key[1] = "ent", NEW tool \in {"delete_entity", "update_entity", "lock_topic"},
                 db' \in Outcomes(db, InSpace(Call(tool, key), Home(db, key)))
          PROVE  Sound(db')
      <3>1. key = <<"ent", key[2]>>
        BY <2>2, Numbers DEF SoundInv
      <3>2. Apt(InSpace(Call(tool, key), Home(db, key)))
        BY <3>1, CallsApt DEF Plain
      <3> QED BY <2>2, <3>2, OutcomesSound DEF SoundInv
    <2>3. ASSUME key[1] \in {"note", "media"}, db' = Discard(db, Call("delete_item", key)) PROVE Sound(db')
      <3> DEFINE c == Call("delete_item", key)
      <3>1. c.on[1] \in {"note", "media"}
        BY <2>3, CallsMade
      <3> HIDE DEF c
      <3>2. Sound(Discard(db, c))
        BY <3>1, ItemsSound DEF SoundInv
      <3> QED BY <2>3, <3>2 DEF c
    <2>4. ASSUME NEW c, db' = DeleteTag(db, c) PROVE Sound(db')
      BY <2>4, TagsSound DEF SoundInv
    <2>5. Sound(db')
      BY <1>4, <2>2, <2>3, <2>4 DEF Elsewhere
    <2> QED BY <2>1, <2>5 DEF SoundInv, SoundNext
  <1>5. ASSUME NEW key \in DOMAIN db.rows, HideInChat(key) PROVE SoundNext
    <2>1. key = <<"ent", key[2]>>
      BY <1>5, Numbers DEF HideInChat, SoundInv
    <2>2. PICK how : db' = HideMilestone(db, key, how)
      BY <1>5 DEF HideInChat
    <2>3. Sound(db')
      BY <2>1, <2>2, HideMilestoneSound DEF SoundInv
    <2> QED BY <1>5, <2>3 DEF HideInChat, SoundInv, SoundNext
  <1> QED BY <1>1, <1>2, <1>3, <1>4, <1>5 DEF Beside

LEMMA NextSound == ASSUME SoundInv, [Next]_vars PROVE SoundNext
  <1>1. CASE Tap
    <2>1. \A e \in Keys("ent") : e = <<"ent", e[2]>>
      BY Numbers DEF SoundInv, Keys
    <2>2. \A i \in Keys("note") \cup Keys("media") : i[1] \in {"note", "media"}
      BY DEF Keys
    <2>3. ASSUME NEW w, TapSpace(w) PROVE SoundNext
      <3>1. PICK e : e = <<"ent", 0>>
        OBVIOUS
      <3>2. e = <<"ent", e[2]>>
        BY <3>1
      <3> QED BY <2>3, <3>2, TapRowsApt
    <2>4. ASSUME NEW t, TapTag(t) \/ TapSearch PROVE SoundNext
      <3>1. PICK i : i = <<"note", 0>>
        OBVIOUS
      <3>2. i[1] \in {"note", "media"}
        BY <3>1
      <3> QED BY <2>4, <3>2, TapItemsApt
    <2> QED BY <1>1, <2>1, <2>2, <2>3, <2>4, TapRowsApt, TapItemsApt, YesNoApt DEF Tap
  <1>2. CASE UNCHANGED vars
    BY <1>2 DEF vars, SoundInv, SoundNext
  <1> QED BY <1>1, <1>2, AnswerApt, BesideApt DEF Next

\* Whatever page is drawn at any time, its buttons find their row (pages.py,
\* router.py): no list, link, label or active context still leads to what a tool has
\* deleted, but for the notes and media of a tag page.  What the chat orchestrator has
\* hidden may still be led to, by the Identity button and by an archived entity's link.
THEOREM EveryPageLeads == ASSUME ControlSized PROVE Spec => []PagesLead
  <1> DEFINE Inv == PlaneInv /\ SoundInv
  <1>1. Init => Inv
    BY PlaneInvInit, NothingApt DEF Init, ControlSized, PlaneInv, SoundInv
  <1>2. Inv /\ [Next]_vars => Inv'
    BY PlaneInvStep, NextSound DEF PlaneInv, SoundInv, SoundNext
  <1>3. Inv => PagesLead
    BY SoundLeads DEF PlaneInv, SoundInv, PagesLead
  <1> QED BY <1>1, <1>2, <1>3, PTL DEF Spec

\* The same where nothing is asked or entered, which is where the run looks.
THEOREM ButtonsLead == ASSUME ControlSized PROVE Spec => []FreshButtonsLead
  <1>1. PagesLead => FreshButtonsLead
    BY DEF FreshButtonsLead
  <1> QED BY <1>1, EveryPageLeads, PTL

-----------------------------------------------------------------------------
(* The instance lock *)

\* Everybody who has a file open has the one file there ever was, and whoever
\* runs has the lock on it.
OneFile ==
    /\ phase \in [Loops -> {"waiting", "opened", "running", "leaving"}]
    /\ fd \in [Loops -> Lock!Files \cup {Lock!None}]
    /\ holder \in [Lock!Files -> SUBSET Loops]
    /\ path \in Lock!Files \cup {Lock!None} /\ files \in 0 .. MaxFiles
    /\ path = Lock!None => \A l \in Loops : phase[l] = "waiting"
    /\ \A l \in Loops : phase[l] \in {"opened", "running"} => fd[l] = path
    /\ \A l \in Loops : phase[l] = "running" => holder[path] = {l}
    /\ \A l \in Loops : phase[l] # "leaving"

LEMMA OneFileInit == ASSUME MaxFiles \in Nat PROVE Lock!Init => OneFile
BY DEF Lock!Init, OneFile, Lock!None

LEMMA OneFileStep ==
    ASSUME MaxFiles \in Nat, OneFile, [Lock!DeathsOnly]_Lock!vars PROVE OneFile'
<1>1. ASSUME NEW l \in Loops, Lock!Open(l) PROVE OneFile'
  <2>1. CASE path # Lock!None
    BY <1>1, <2>1 DEF OneFile, Lock!Open, Lock!None, Lock!Files
  <2>2. CASE path = Lock!None
    BY <1>1, <2>2 DEF OneFile, Lock!Open, Lock!None, Lock!Files
  <2> QED BY <2>1, <2>2
<1>2. ASSUME NEW l \in Loops, Lock!Lock(l) PROVE OneFile'
  <2>1. /\ phase[l] = "opened" /\ fd[l] = path /\ path \in Lock!Files /\ holder[path] = {}
        /\ holder' = [holder EXCEPT ![path] = {l}]
        /\ phase' = [phase EXCEPT ![l] = "running"]
    BY <1>2 DEF OneFile, Lock!Lock
  <2>2. \A k \in Loops : phase[k] # "running"
    BY <2>1 DEF OneFile
  <2> QED BY <1>2, <2>1, <2>2 DEF OneFile, Lock!Lock
<1>3. ASSUME NEW l \in Loops, Lock!Blocked(l) PROVE OneFile'
  BY <1>3 DEF OneFile, Lock!Blocked, Lock!None
<1>4. ASSUME NEW l \in Loops, Lock!Dies(l) PROVE OneFile'
  <2>1. \A k \in Loops : phase'[k] = "running" => k # l /\ phase[k] = "running"
    BY <1>4 DEF OneFile, Lock!Dies
  <2>2. path \in Lock!Files => holder'[path] = holder[path] \ {l}
    BY <1>4 DEF OneFile, Lock!Dies
  <2>3. \A k \in Loops : phase'[k] = "running" => holder'[path'] = {k}
    BY <1>4, <2>1, <2>2 DEF OneFile, Lock!Dies, Lock!None
  <2> QED BY <1>4, <2>3 DEF OneFile, Lock!Dies, Lock!None
<1>5. CASE UNCHANGED Lock!vars
  BY <1>5 DEF OneFile, Lock!vars
<1> QED BY <1>1, <1>2, <1>3, <1>4, <1>5 DEF Lock!DeathsOnly

LEMMA OneFileOneInstance == OneFile => Lock!OneInstance
BY DEF OneFile, Lock!OneInstance

\* At most one instance runs, for any number of restart loops, if the lock is
\* only ever given up by the death of its holder (instance_lock.py: "the safety
\* guarantee comes from the OS releasing the lock automatically").
THEOREM DeathsAreSafe == ASSUME MaxFiles \in Nat PROVE Lock!CrashSpec => []Lock!OneInstance
<1>1. Lock!Init => OneFile
  BY OneFileInit
<1>2. OneFile /\ [Lock!DeathsOnly]_Lock!vars => OneFile'
  BY OneFileStep
<1>3. OneFile => Lock!OneInstance
  BY OneFileOneInstance
<1> QED BY <1>1, <1>2, <1>3, PTL DEF Lock!CrashSpec

-----------------------------------------------------------------------------
(* The habits.  The three invariants need each other: a new row is numbered    *)
(* beyond every row there is (TypeOK), so a log row of its number would have   *)
(* no owner (LogsHaveOwners), so the new habit starts with an empty log and no *)
(* streak; a completion then adds the last day of all, which changes no count  *)
(* that ends earlier.                                                          *)

HabitInv == TypeOK /\ LogsHaveOwners /\ StreakMatchesLog

\* what StreakMatchesLog says of one habit
Match(D, row) ==
    /\ \A d \in D : d <= row.last
    /\ row.last # 0 => row.last \in D
    /\ row.current # 0 => Streak(D, row.last, row.current)
    /\ \A d \in D, n \in 0 .. MaxDay : Streak(D, d, n) => n <= row.longest
    /\ row.longest # 0 => \E d \in D : Streak(D, d, row.longest)

LEMMA MatchesEach ==
    StreakMatchesLog <=>
        \A h \in DOMAIN rows : rows[h].habit /\ h \notin stray => Match(LoggedDays(log, h), rows[h])
  BY DEF StreakMatchesLog, Match

-----------------------------------------------------------------------------
(* Counting back *)

\* There is one count from a day.
LEMMA StreakUnique ==
    ASSUME NEW D, NEW d \in Int, NEW m \in Nat, NEW n \in Nat, Streak(D, d, m), Streak(D, d, n)
    PROVE  m = n
  <1>1. ~(m < n)
    BY m \in 0 .. (n - 1) \/ ~(m < n) DEF Streak
  <1>2. ~(n < m)
    BY n \in 0 .. (m - 1) \/ ~(n < m) DEF Streak
  <1> QED BY <1>1, <1>2

\* A later day changes no count.
LEMMA LaterDay ==
    ASSUME NEW D, NEW t \in Int, NEW d \in Int, d < t, NEW n \in Nat
    PROVE  Streak(D \cup {t}, d, n) <=> Streak(D, d, n)
  <1>1. \A i \in Nat : d - i # t
    OBVIOUS
  <1> QED BY <1>1 DEF Streak

LEMMA DayAdded ==
    ASSUME NEW t \in Days, NEW D \in SUBSET (1 .. (t - 1)), NEW n \in 0 .. MaxDay,
           NEW row \in TaskRows, Match(D, row), Streak(D \cup {t}, t, n)
    PROVE  Match(D \cup {t}, [row EXCEPT !.current = n, !.last = t,
                                         !.longest = IF n > @ THEN n ELSE @])
  <1> DEFINE new == [row EXCEPT !.current = n, !.last = t, !.longest = IF n > @ THEN n ELSE @]
  <1> USE HabitSizes
  <1>1. /\ new.current = n /\ new.last = t
        /\ new.longest = IF n > row.longest THEN n ELSE row.longest
        /\ row.longest \in 0 .. MaxDay
    BY DEF TaskRows
  <1>2. n # 0
    BY DEF Streak, Days
  <1>3. \A d \in D, m \in 0 .. MaxDay : Streak(D \cup {t}, d, m) <=> Streak(D, d, m)
    BY LaterDay DEF Days
  <1>4. \A d \in D \cup {t} : d <= new.last
    BY <1>1 DEF Days
  <1>5. \A d \in D \cup {t}, m \in 0 .. MaxDay : Streak(D \cup {t}, d, m) => m <= new.longest
    <2> SUFFICES ASSUME NEW d \in D \cup {t}, NEW m \in 0 .. MaxDay, Streak(D \cup {t}, d, m)
                 PROVE  m <= new.longest
      OBVIOUS
    <2>1. CASE d \in D
      <3>1. Streak(D, d, m)
        BY <2>1, <1>3
      <3>2. m <= row.longest
        BY <3>1, <2>1 DEF Match
      <3> QED BY <3>2, <1>1
    <2>2. CASE d = t
      <3>1. m = n
        BY <2>2, StreakUnique DEF Days
      <3> QED BY <3>1, <1>1
    <2> QED BY <2>1, <2>2
  <1>6. \E d \in D \cup {t} : Streak(D \cup {t}, d, new.longest)
    <2>1. CASE n > row.longest
      BY <2>1, <1>1
    <2>2. CASE ~(n > row.longest)
      <3>1. PICK d \in D : Streak(D, d, row.longest)
        BY <2>2, <1>1, <1>2 DEF Match
      <3> QED BY <3>1, <2>2, <1>1, <1>3
    <2> QED BY <2>1, <2>2
  <1> QED BY <1>1, <1>4, <1>5, <1>6 DEF Match

-----------------------------------------------------------------------------

LEMMA HabitStart == ASSUME HabitInit PROVE HabitInv
  <1> USE HabitSizes DEF HabitInit
  <1>1. TypeOK
    BY DEF TypeOK, Ids, Days
  <1>2. LogsHaveOwners
    BY DEF LogsHaveOwners
  <1>3. StreakMatchesLog
    BY DEF StreakMatchesLog
  <1> QED BY <1>1, <1>2, <1>3 DEF HabitInv

\* A row is inserted with the next number, which no row has and no log row names.
LEMMA InsertKeeps ==
    ASSUME HabitInv, NEW u \in Users, NEW habit \in BOOLEAN, Insert(NewRow(u, habit))
    PROVE  HabitInv'
  <1> DEFINE h == seq + 1
             row == NewRow(u, habit)
  <1> USE HabitSizes DEF HabitInv
  <1>1. /\ h \in Ids /\ h \notin DOMAIN rows /\ seq' = h
        /\ DOMAIN rows' = DOMAIN rows \cup {h}
        /\ rows'[h] = row /\ \A g \in DOMAIN rows : rows'[g] = rows[g]
        /\ today' = today /\ log' = log /\ stray' = stray
    BY DEF Insert, TypeOK, Ids
  <1>2. row \in TaskRows /\ row.owner = u /\ row.habit = habit /\ row.current = 0 /\ row.longest = 0 /\ row.last = 0
    BY DEF NewRow, TaskRows
  <1>3. TypeOK'
    BY <1>1, <1>2 DEF TypeOK, Ids
  <1>4. LogsHaveOwners'
    BY <1>1 DEF LogsHaveOwners, HabitOf, Owned
  <1>5. h \notin stray => LoggedDays(log, h) = {}
    BY <1>1 DEF LoggedDays, LogsHaveOwners, HabitOf, Owned
  <1>6. h \notin stray => Match(LoggedDays(log, h), row)
    BY <1>2, <1>5 DEF Match
  <1>7. \A g \in DOMAIN rows' : rows'[g].habit /\ g \notin stray' => Match(LoggedDays(log', g), rows'[g])
    BY <1>1, <1>6, MatchesEach
  <1>8. StreakMatchesLog'
    BY <1>7 DEF StreakMatchesLog, Match
  <1> QED BY <1>3, <1>4, <1>8

LEMMA UnchangedKeeps == ASSUME HabitInv, UNCHANGED habitVars PROVE HabitInv'
  <1> USE DEF HabitInv, habitVars
  <1>1. TypeOK'
    BY DEF TypeOK
  <1>2. LogsHaveOwners'
    BY DEF LogsHaveOwners, HabitOf, Owned
  <1>3. StreakMatchesLog'
    BY DEF StreakMatchesLog, LoggedDays, Streak
  <1> QED BY <1>1, <1>2, <1>3

LEMMA CompleteKeeps ==
    ASSUME HabitInv, NEW u \in Users, NEW h \in Ids, Complete(u, h)
    PROVE  HabitInv'
  <1> USE HabitSizes DEF HabitInv
  <1>0. CASE today \in LoggedDays(log, h)
    <2>1. UNCHANGED habitVars
      BY <1>0 DEF Complete, LogHabitCompletion, habitVars
    <2> QED BY <2>1, UnchangedKeeps
  <1>1. CASE today \notin LoggedDays(log, h)
    <2> DEFINE D == LoggedDays(log, h)
    <2>1. /\ h \in DOMAIN rows /\ rows[h].owner = u /\ rows[h].habit /\ rows[h] \in TaskRows
          /\ today \in Days /\ today' = today /\ seq' = seq /\ stray' = stray
          /\ log' = log \cup {<<h, u, today>>}
      BY <1>1 DEF Complete, LogHabitCompletion, HabitOf, Owned, TypeOK
    <2>2. LoggedDays(log', h) = D \cup {today}
      BY <2>1 DEF LoggedDays
    <2>3. \A g : g # h => LoggedDays(log', g) = LoggedDays(log, g)
      BY <2>1 DEF LoggedDays
    <2>4. PICK n \in 0 .. MaxDay :
             /\ Streak(D \cup {today}, today, n)
             /\ rows' = [rows EXCEPT ![h].current = n, ![h].last = today,
                                     ![h].longest = IF n > @ THEN n ELSE @]
      BY <1>1, <2>2 DEF Complete, LogHabitCompletion
    <2> DEFINE row == [rows[h] EXCEPT !.current = n, !.last = today,
                                      !.longest = IF n > @ THEN n ELSE @]
    <2>5. DOMAIN rows' = DOMAIN rows /\ rows'[h] = row /\ \A g \in DOMAIN rows : g # h => rows'[g] = rows[g]
      BY <2>1, <2>4
    <2>6. row \in TaskRows /\ row.owner = u /\ row.habit
      BY <2>1, <2>4 DEF TaskRows, Days
    <2>7. D \in SUBSET (1 .. (today - 1))
      <3>1. \A v, d : <<h, v, d>> \in log => d \in 1 .. today
        BY DEF TypeOK
      <3>2. \A d \in D : d \in 1 .. today /\ d # today
        BY <1>1, <3>1 DEF LoggedDays
      <3>3. \A d \in 1 .. today : d # today => d \in 1 .. (today - 1)
        BY <2>1 DEF Days
      <3> HIDE DEF D
      <3> QED BY <3>2, <3>3
    <2>8. TypeOK'
      BY <2>1, <2>5, <2>6 DEF TypeOK, Days
    <2>9. LogsHaveOwners'
      <3> HIDE DEF row
      <3>1. \A g, v : HabitOf(v, g) => HabitOf(v, g)'
        BY <2>1, <2>5, <2>6 DEF HabitOf, Owned
      <3>2. HabitOf(u, h)'
        BY <2>1, <2>5, <2>6 DEF HabitOf, Owned
      <3> QED BY <2>1, <3>1, <3>2 DEF LogsHaveOwners
    <2>10. h \notin stray => Match(D \cup {today}, row)
      BY <2>1, <2>4, <2>7, DayAdded, MatchesEach
    <2>11. \A g \in DOMAIN rows' : rows'[g].habit /\ g \notin stray' => Match(LoggedDays(log', g), rows'[g])
      BY <2>1, <2>2, <2>3, <2>5, <2>10, MatchesEach
    <2>12. StreakMatchesLog'
      BY <2>11 DEF StreakMatchesLog, Match
    <2> QED BY <2>8, <2>9, <2>12
  <1> QED BY <1>0, <1>1

\* A completion by another puts the habit among the stray.
LEMMA AnothersKeeps ==
    ASSUME HabitInv, NEW h \in Ids, CompleteAnothers(h)
    PROVE  HabitInv'
  <1> USE HabitSizes DEF HabitInv
  <1>1. /\ h \in DOMAIN rows /\ rows[h] \in TaskRows /\ rows[h].habit
        /\ today \in Days /\ today' = today /\ seq' = seq /\ stray' = stray \cup {h}
        /\ log \subseteq log' /\ log' \subseteq log \cup {<<h, Admin, today>>}
    BY DEF CompleteAnothers, LogHabitCompletion, TypeOK
  <1>2. /\ DOMAIN rows' = DOMAIN rows /\ rows'[h] \in TaskRows
        /\ rows'[h].owner = rows[h].owner /\ rows'[h].habit
        /\ \A g \in DOMAIN rows : g # h => rows'[g] = rows[g]
    <2>1. CASE rows' = rows
      BY <1>1, <2>1
    <2>2. CASE \E n \in 0 .. MaxDay :
                  rows' = [rows EXCEPT ![h].current = n, ![h].last = today,
                                       ![h].longest = IF n > @ THEN n ELSE @]
      BY <1>1, <2>2 DEF TaskRows, Days
    <2> QED BY <2>1, <2>2 DEF CompleteAnothers, LogHabitCompletion
  <1>3. TypeOK'
    BY <1>1, <1>2 DEF TypeOK, Days
  <1>4. LogsHaveOwners'
    <2>1. \A g, v : HabitOf(v, g) => HabitOf(v, g)'
      BY <1>1, <1>2 DEF HabitOf, Owned
    <2> QED BY <1>1, <2>1 DEF LogsHaveOwners
  <1>5. \A g : g # h => LoggedDays(log', g) = LoggedDays(log, g)
    BY <1>1 DEF LoggedDays
  <1>6. \A g \in DOMAIN rows' : rows'[g].habit /\ g \notin stray' => Match(LoggedDays(log', g), rows'[g])
    BY <1>1, <1>2, <1>5, MatchesEach
  <1>7. StreakMatchesLog'
    BY <1>6 DEF StreakMatchesLog, Match
  <1> QED BY <1>3, <1>4, <1>7

LEMMA SkipKeeps ==
    ASSUME HabitInv, NEW u \in Users, NEW h \in Ids, Skip(u, h)
    PROVE  HabitInv'
  <1> USE HabitSizes DEF HabitInv
  <1> DEFINE row == [rows[h] EXCEPT !.current = 0]
  <1>1. /\ h \in DOMAIN rows /\ rows[h] \in TaskRows /\ rows[h].habit
        /\ DOMAIN rows' = DOMAIN rows /\ rows'[h] = row
        /\ \A g \in DOMAIN rows : g # h => rows'[g] = rows[g]
        /\ today' = today /\ log' = log /\ seq' = seq /\ stray' = stray
    BY DEF Skip, HabitOf, Owned, TypeOK
  <1>2. /\ row \in TaskRows /\ row.owner = rows[h].owner /\ row.habit /\ row.current = 0
        /\ row.last = rows[h].last /\ row.longest = rows[h].longest
    BY <1>1 DEF TaskRows
  <1>3. TypeOK'
    BY <1>1, <1>2 DEF TypeOK
  <1>4. LogsHaveOwners'
    <2> HIDE DEF row
    <2>1. \A g, v : HabitOf(v, g) => HabitOf(v, g)'
      BY <1>1, <1>2 DEF HabitOf, Owned
    <2> QED BY <1>1, <2>1 DEF LogsHaveOwners
  <1>5. h \notin stray => Match(LoggedDays(log, h), row)
    BY <1>1, <1>2, MatchesEach DEF Match
  <1>6. \A g \in DOMAIN rows' : rows'[g].habit /\ g \notin stray' => Match(LoggedDays(log', g), rows'[g])
    BY <1>1, <1>5, MatchesEach
  <1>7. StreakMatchesLog'
    BY <1>6 DEF StreakMatchesLog, Match
  <1> QED BY <1>3, <1>4, <1>7

\* Deleting a habit leaves its log behind, and says so.
LEMMA DeleteKeeps ==
    ASSUME HabitInv, NEW u \in Users, NEW h \in Ids, DeleteTask(u, h)
    PROVE  HabitInv'
  <1> USE HabitSizes DEF HabitInv
  <1>1. /\ DOMAIN rows' = DOMAIN rows \ {h} /\ \A g \in DOMAIN rows' : rows'[g] = rows[g]
        /\ today' = today /\ log' = log /\ seq' = seq
        /\ stray \subseteq stray' /\ stray' \subseteq Ids
        /\ rows[h].habit /\ LoggedDays(log, h) # {} => h \in stray'
    BY DEF DeleteTask, Kept, TypeOK
  <1>2. TypeOK'
    BY <1>1 DEF TypeOK
  <1>3. LogsHaveOwners'
    <2> SUFFICES ASSUME NEW l \in log, l[1] \notin stray'
                 PROVE  HabitOf(l[2], l[1])'
      BY <1>1 DEF LogsHaveOwners
    <2>1. HabitOf(l[2], l[1])
      BY <1>1 DEF LogsHaveOwners
    <2>2. l[1] # h
      <3>1. l = <<l[1], l[2], l[3]>> /\ l[2] \in Users /\ l[3] \in Days
        BY DEF TypeOK, Days
      <3>2. l[3] \in LoggedDays(log, l[1])
        BY <3>1 DEF LoggedDays
      <3> QED BY <3>2, <2>1, <1>1 DEF HabitOf
    <2> QED BY <1>1, <2>1, <2>2 DEF HabitOf, Owned
  <1>4. \A g \in DOMAIN rows' : rows'[g].habit /\ g \notin stray' => Match(LoggedDays(log', g), rows'[g])
    BY <1>1, MatchesEach
  <1>5. StreakMatchesLog'
    BY <1>4 DEF StreakMatchesLog, Match
  <1> QED BY <1>2, <1>3, <1>5

\* The resets take whole users' rows, and with a row either its log or no log of it.
Resets(u, S) ==
    /\ rows' = Kept(S)
    /\ seq' \in {seq, Restarted(rows')}
    /\ (log' = log /\ S \cap HabitsOf(u) = {}) \/ log' = OthersLog(u)
    /\ UNCHANGED <<today, stray>>

LEMMA ResetKeeps ==
    ASSUME HabitInv, NEW u \in Users, NEW S \in SUBSET OfUser(u), Resets(u, S),
           log' = log \/ HabitsOf(u) \subseteq S
    PROVE  HabitInv'
  <1> USE HabitSizes DEF HabitInv
  <1>1. /\ DOMAIN rows' = DOMAIN rows \ S /\ \A g \in DOMAIN rows' : rows'[g] = rows[g]
        /\ today' = today /\ stray' = stray /\ log' \subseteq log
        /\ seq' = seq \/ (seq' = 0 /\ DOMAIN rows' = {})
    BY DEF Resets, Kept, Restarted, OthersLog
  <1>2. TypeOK'
    BY <1>1 DEF TypeOK
  <1>3. \A l \in log' : l[1] \notin stray => HabitOf(l[2], l[1]) /\ l[1] \notin S
    BY <1>1 DEF Resets, LogsHaveOwners, HabitOf, Owned, HabitsOf, OfUser, OthersLog
  <1>4. LogsHaveOwners'
    BY <1>1, <1>3 DEF LogsHaveOwners, HabitOf, Owned
  <1>5. ASSUME NEW g \in DOMAIN rows', rows'[g].habit, g \notin stray
        PROVE  LoggedDays(log', g) = LoggedDays(log, g)
    <2>1. g \in DOMAIN rows /\ g \notin S /\ rows[g].habit
      BY <1>1, <1>5
    <2>2. \A v, d : <<g, v, d>> \in log => rows[g].owner = v
      BY <1>5 DEF LogsHaveOwners, HabitOf, Owned
    <2>3. log' # log => rows[g].owner # u
      BY <2>1 DEF HabitsOf, OfUser
    <2>4. \A v, d : <<g, v, d>> \in log' <=> <<g, v, d>> \in log
      <3>1. CASE log' = log
        BY <3>1
      <3>2. CASE log' # log
        BY <3>2, <2>2, <2>3 DEF Resets, OthersLog
      <3> QED BY <3>1, <3>2
    <2> QED BY <2>4 DEF LoggedDays
  <1>6. \A g \in DOMAIN rows' : rows'[g].habit /\ g \notin stray' => Match(LoggedDays(log', g), rows'[g])
    BY <1>1, <1>5, MatchesEach
  <1>7. StreakMatchesLog'
    BY <1>6 DEF StreakMatchesLog, Match
  <1> QED BY <1>2, <1>4, <1>7

LEMMA NewDayKeeps == ASSUME HabitInv, NewDay PROVE HabitInv'
  <1> USE HabitSizes DEF HabitInv
  <1>1. TypeOK'
    BY DEF NewDay, TypeOK, Days
  <1>2. LogsHaveOwners' /\ StreakMatchesLog'
    BY DEF NewDay, LogsHaveOwners, StreakMatchesLog, HabitOf, Owned, LoggedDays, Streak
  <1> QED BY <1>1, <1>2

LEMMA HabitStep == ASSUME HabitInv, [HabitNext]_habitVars PROVE HabitInv'
  <1>1. CASE NewDay
    BY <1>1, NewDayKeeps
  <1>2. CASE \E u \in Users : AddTask(u) \/ AddHabit(u)
    BY <1>2, InsertKeeps DEF AddTask, AddHabit
  <1>3. CASE \E u \in Users, h \in Ids : Complete(u, h) \/ Skip(u, h) \/ DeleteTask(u, h)
    BY <1>3, CompleteKeeps, SkipKeeps, DeleteKeeps
  <1>4. CASE ResetAllTasks
    <2>1. Resets(Admin, OfUser(Admin) \ HabitsOf(Admin)) /\ log' = log
      BY <1>4 DEF ResetAllTasks, Resets
    <2> QED BY <2>1, ResetKeeps, HabitSizes
  <1>5. CASE ResetAllHabits
    <2>1. Resets(Admin, HabitsOf(Admin)) /\ HabitsOf(Admin) \subseteq OfUser(Admin)
      BY <1>5 DEF ResetAllHabits, Resets, HabitsOf
    <2> QED BY <2>1, ResetKeeps, HabitSizes
  <1>6. CASE ResetEverything
    <2>1. Resets(Admin, OfUser(Admin)) /\ HabitsOf(Admin) \subseteq OfUser(Admin)
      BY <1>6 DEF ResetEverything, Resets, HabitsOf
    <2> QED BY <2>1, ResetKeeps, HabitSizes
  <1>7. CASE \E h \in Ids : CompleteAnothers(h)
    BY <1>7, AnothersKeeps
  <1>8. CASE UNCHANGED habitVars
    BY <1>8, UnchangedKeeps
  <1>9. CASE HabitNext
    <2>1. ASSUME NEW u \in Users, AddTask(u) \/ AddHabit(u)
                                  \/ \E h \in Ids : Complete(u, h) \/ Skip(u, h) \/ DeleteTask(u, h)
          PROVE  HabitInv'
      BY <2>1, <1>2, <1>3
    <2> QED BY <1>1, <1>4, <1>5, <1>6, <1>7, <1>9, <2>1 DEF HabitNext
  <1> QED BY <1>8, <1>9

LEMMA HabitsSound == HabitSpec => []HabitInv
  <1>1. HabitInit => HabitInv
    BY HabitStart
  <1>2. HabitInv /\ [HabitNext]_habitVars => HabitInv'
    BY HabitStep
  <1> QED BY <1>1, <1>2, PTL DEF HabitSpec

-----------------------------------------------------------------------------

\* Rows are numbered up to the counter, through every restart of it.
THEOREM HabitsTypeCorrect == HabitSpec => []TypeOK
  BY HabitsSound, PTL DEF HabitInv

\* No reset leaves a log row without its habit (database.py, finding E1).
THEOREM NoLogWithoutOwner == HabitSpec => []LogsHaveOwners
  BY HabitsSound, PTL DEF HabitInv

\* The streaks shown are those of the log.
THEOREM StreaksAreEarned == HabitSpec => []StreakMatchesLog
  BY HabitsSound, PTL DEF HabitInv
=============================================================================
