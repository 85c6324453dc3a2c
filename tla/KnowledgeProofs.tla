-------------------------- MODULE KnowledgeProofs --------------------------
(***************************************************************************)
(* No ghost references, a timeline that is true but for the faults, a      *)
(* search that finds what it is asked for, and every step of the engine a  *)
(* step of KnowledgePromise or none, for any workspaces, tag names and     *)
(* numbers of rows and faults.                                             *)
(*                                                                         *)
(* Each step changes the tables in one of a few ways, or not at all: the   *)
(* lemmas of the second part say of each way that the tables stay sound    *)
(* and which step of the promise it is.  The third part is about the       *)
(* handler, which carries what a chain of transactions still has to do     *)
(* from its first transaction to its last, the fourth about the events     *)
(* that follow the changes, the fifth about the filters of a search.       *)
(***************************************************************************)
EXTENDS Knowledge, FiniteSetTheorems, WellFoundedInduction, TLAPS

\* The rows of each kind are numbered from one without a gap.
Numbered ==
    \A k \in Kinds : \E n \in 0 .. MaxOf[k] : {i \in DOMAIN items : i[1] = k} = {<<k, m>> : m \in 1 .. n}

\* NoGhosts needs to know that links lead to entities, which only delete_milestone
\* deletes.
LinksHold ==
    /\ NoGhosts
    /\ \A l \in links : l[2][1] = "entity"
    /\ \A l \in labels : items[l[1]].ws = tags[l[2]].ws

Tables == TypeOK /\ Numbered /\ LinksHold

Handlers ==
    [item : Ids \cup {Unknown}, ents : SUBSET (Ids \cup {Unknown}), names : SUBSET Names,
     left : SUBSET (Ids \X Ids), drop : BOOLEAN,
     say : [of : Ids \cup {Unknown} \cup ({"tag"} \X TagIds), status : Statuses, gone : BOOLEAN]]

Alive(i) == i \in DOMAIN items /\ ~items[i].gone

\* an entity that a row may be linked to
Beside(i, e) == Alive(e) /\ e[1] = "entity" /\ items[e].ws = items[i].ws

\* What an operation has still to do, it has to do with living rows of one
\* workspace; a deletion holds every link of its entity.
HandlerHolds ==
    /\ handler \in Handlers
    /\ handler.ents # {} \/ handler.names # {} =>
          /\ Alive(handler.item)
          /\ \A e \in handler.ents : e = Unknown \/ Beside(handler.item, e)
    /\ handler.drop =>
          /\ Alive(handler.item) /\ handler.item[1] = "entity"
          /\ handler.ents = {} /\ handler.names = {} /\ handler.say = Silence
          /\ \A l \in links : l[2] = handler.item => l \in handler.left

Inv == Tables /\ HandlerHolds

PromiseStep == [Promise!Next]_(Promise!vars)

-----------------------------------------------------------------------------
(* Ids *)

LEMMA IdsAre ==
    /\ \A k \in Kinds : \A n \in 1 .. MaxOf[k] : <<k, n>> \in Ids
    /\ \A i \in Ids : i[1] \in Kinds /\ i[2] \in 1 .. MaxOf[i[1]] /\ i = <<i[1], i[2]>>
  BY DEF Ids

LEMMA UnknownIsNoId == Unknown \notin Ids
  BY IdsAre, KnowledgeSizes DEF Unknown, Kinds

\* The next id is one beyond those there are.
LEMMA NextIdIs ==
    ASSUME NEW k \in Kinds, NEW n \in Nat, {i \in DOMAIN items : i[1] = k} = {<<k, m>> : m \in 1 .. n}
    PROVE  NextId(k) = <<k, n + 1>> /\ NextId(k) \notin DOMAIN items
  <1> DEFINE S == {<<k, m>> : m \in 1 .. n}
             f == [m \in 1 .. n |-> <<k, m>>]
  <1>1. f \in Bijection(1 .. n, S)
    BY DEF Bijection, Injection, Surjection, IsInjective
  <1>2. Cardinality(S) = n
    BY <1>1, FS_CountingElements DEF ExistsBijection
  <1>3. <<k, n + 1>> \notin S
    OBVIOUS
  <1> QED BY <1>2, <1>3 DEF NextId

-----------------------------------------------------------------------------
(* Ways to change the tables *)

LEMMA NoRowMoves ==
    ASSUME Tables, UNCHANGED rows, slips' \in 0 .. MaxSlips
    PROVE  Tables' /\ PromiseStep
  <1>1. UNCHANGED <<items, tags, nextTag, links, labels>>
    BY DEF rows
  <1>2. TypeOK'
    BY <1>1 DEF Tables, TypeOK
  <1>3. Numbered'
    BY <1>1 DEF Tables, Numbered
  <1>4. LinksHold'
    BY <1>1 DEF Tables, LinksHold, NoGhosts
  <1>5. UNCHANGED Promise!vars
    BY <1>1 DEF Promise!vars
  <1> QED BY <1>2, <1>3, <1>4, <1>5 DEF Tables, PromiseStep

LEMMA RowAdded ==
    ASSUME Tables, NEW k \in Kinds, NEW w \in Spaces, AddRow(k, w), slips' = slips
    PROVE  /\ Tables' /\ PromiseStep
           /\ NextId(k) \in Ids /\ NextId(k)[1] = k
           /\ DOMAIN items' = DOMAIN items \cup {NextId(k)}
           /\ items'[NextId(k)] = [ws |-> w, status |-> "open", gone |-> FALSE]
           /\ \A i \in DOMAIN items : items'[i] = items[i]
  <1> DEFINE new == NextId(k)
  <1>1. PICK n \in 0 .. MaxOf[k] : {i \in DOMAIN items : i[1] = k} = {<<k, m>> : m \in 1 .. n}
    BY DEF Tables, Numbered
  <1>2. new = <<k, n + 1>> /\ new \notin DOMAIN items
    BY <1>1, NextIdIs
  <1>3. /\ new \in Ids /\ DOMAIN items' = DOMAIN items \cup {new}
        /\ items'[new] = [ws |-> w, status |-> "open", gone |-> FALSE]
        /\ \A i \in DOMAIN items : items'[i] = items[i]
        /\ UNCHANGED <<tags, nextTag, links, labels>>
    BY <1>2 DEF AddRow
  <1>4. TypeOK'
    <2>1. items'[new] \in [ws : Spaces, status : Statuses, gone : BOOLEAN]
      BY <1>3 DEF Statuses
    <2>2. DOMAIN items' \subseteq Ids
      BY <1>3 DEF Tables, TypeOK
    <2>3. links' \subseteq (DOMAIN items') \X (DOMAIN items') /\ labels' \subseteq (DOMAIN items') \X (DOMAIN tags')
      BY <1>3 DEF Tables, TypeOK
    <2> QED BY <1>3, <2>1, <2>2, <2>3 DEF Tables, TypeOK
  <1>5. Numbered'
    <2>1. n + 1 \in 0 .. MaxOf[k]
      BY <1>2, <1>3, IdsAre, KnowledgeSizes DEF Kinds
    <2>2. {i \in DOMAIN items' : i[1] = k} = {<<k, m>> : m \in 1 .. n + 1}
      <3>1. {i \in DOMAIN items' : i[1] = k} = {i \in DOMAIN items : i[1] = k} \cup {new}
        BY <1>2, <1>3
      <3>2. {<<k, m>> : m \in 1 .. n + 1} = {<<k, m>> : m \in 1 .. n} \cup {<<k, n + 1>>}
        OBVIOUS
      <3> QED BY <1>1, <1>2, <3>1, <3>2
    <2>3. \A j \in Kinds \ {k} : {i \in DOMAIN items' : i[1] = j} = {i \in DOMAIN items : i[1] = j}
      BY <1>2, <1>3
    <2> QED BY <2>1, <2>2, <2>3 DEF Tables, Numbered
  <1>6. LinksHold'
    BY <1>3 DEF Tables, TypeOK, LinksHold, NoGhosts
  <1>7. Promise!Create(new, w, k)
    <2>1. new[1] = k
      BY <1>2
    <2> QED BY <1>2, <1>3, <2>1 DEF Promise!Create, StateOf
  <1>8. Promise!Next
    BY <1>3, <1>7 DEF Promise!Next, Kinds
  <1> QED BY <1>2, <1>3, <1>4, <1>5, <1>6, <1>8 DEF Tables, PromiseStep

LEMMA StatusSet ==
    ASSUME Tables, NEW i \in DOMAIN items, ~items[i].gone, NEW s \in Leads[items[i].status],
           SetRow(i, [items[i] EXCEPT !.status = s]), slips' = slips
    PROVE  Tables' /\ PromiseStep /\ s \in Statuses
  <1>1. /\ items[i] \in [ws : Spaces, status : Statuses, gone : BOOLEAN] /\ i \in Ids
    BY DEF Tables, TypeOK
  <1>2. s \in Statuses /\ (items[i].status = "archived" => s = "open")
    BY <1>1 DEF Leads, Statuses
  <1>3. /\ DOMAIN items' = DOMAIN items
        /\ \A j \in DOMAIN items : items'[j].ws = items[j].ws /\ items'[j].gone = items[j].gone
        /\ \A j \in DOMAIN items : j # i => items'[j] = items[j]
        /\ items'[i] = [items[i] EXCEPT !.status = s]
        /\ UNCHANGED <<tags, nextTag, links, labels>>
    BY <1>1 DEF SetRow
  <1>4. TypeOK'
    BY <1>1, <1>2, <1>3 DEF Tables, TypeOK
  <1>5. Numbered'
    BY <1>3 DEF Tables, Numbered
  <1>6. LinksHold'
    BY <1>3 DEF Tables, TypeOK, LinksHold, NoGhosts
  <1>7. \E x \in {"open", "done", "hidden"} : Promise!Move(i, x)
    <2> DEFINE x == StateOf(items[i])
               y == StateOf([items[i] EXCEPT !.status = s])
    <2>1. x # "gone" /\ (x = "hidden" => y = "open") /\ y \in {"open", "done", "hidden"}
      BY <1>1, <1>2 DEF StateOf, Statuses
    <2>2. \A j \in DOMAIN items : StateOf(items'[j]) = IF j = i THEN y ELSE StateOf(items[j])
      BY <1>3
    <2>3. Promise!Alive(i)
      BY <2>1 DEF Promise!Alive
    <2> HIDE DEF y
    <2>4. CASE y = "open"
      <3>1. Promise!Move(i, "open")
        BY <1>3, <2>1, <2>2, <2>3, <2>4 DEF Promise!Move
      <3> QED BY <3>1
    <2>5. CASE y = "done"
      <3>1. Promise!Move(i, "done")
        BY <1>3, <2>1, <2>2, <2>3, <2>5 DEF Promise!Move
      <3> QED BY <3>1
    <2>6. CASE y = "hidden"
      <3>1. Promise!Move(i, "hidden")
        BY <1>3, <2>1, <2>2, <2>3, <2>6 DEF Promise!Move
      <3> QED BY <3>1
    <2> QED BY <2>1, <2>4, <2>5, <2>6
  <1>8. Promise!Next
    BY <1>1, <1>7 DEF Promise!Next
  <1> QED BY <1>2, <1>4, <1>5, <1>6, <1>8 DEF Tables, PromiseStep

LEMMA RowGone ==
    ASSUME Tables, NEW i \in DOMAIN items, ~items[i].gone, \A l \in links : l[2] # i,
           SetRow(i, [items[i] EXCEPT !.gone = TRUE]), slips' = slips
    PROVE  Tables' /\ PromiseStep
  <1>1. /\ items[i] \in [ws : Spaces, status : Statuses, gone : BOOLEAN] /\ i \in Ids
    BY DEF Tables, TypeOK
  <1>2. /\ DOMAIN items' = DOMAIN items
        /\ \A j \in DOMAIN items : items'[j].ws = items[j].ws
        /\ \A j \in DOMAIN items : j # i => items'[j] = items[j]
        /\ items'[i] = [items[i] EXCEPT !.gone = TRUE]
        /\ UNCHANGED <<tags, nextTag, links, labels>>
    BY <1>1 DEF SetRow
  <1>3. TypeOK'
    BY <1>1, <1>2 DEF Tables, TypeOK
  <1>4. Numbered'
    BY <1>2 DEF Tables, Numbered
  <1>5. LinksHold'
    BY <1>2 DEF Tables, TypeOK, LinksHold, NoGhosts
  <1>6. Promise!Bury(i)
    <2>1. StateOf(items[i]) # "gone"
      BY DEF StateOf
    <2>2. \A j \in DOMAIN items : StateOf(items'[j]) = IF j = i THEN "gone" ELSE StateOf(items[j])
      BY <1>1, <1>2 DEF StateOf
    <2> QED BY <1>2, <2>1, <2>2 DEF Promise!Bury, Promise!Alive
  <1>7. Promise!Next
    BY <1>1, <1>6 DEF Promise!Next
  <1> QED BY <1>3, <1>4, <1>5, <1>7 DEF Tables, PromiseStep

LEMMA Linking ==
    ASSUME Tables, NEW i, NEW e, Alive(i), Beside(i, e), links' = links \cup {<<i, e>>},
           UNCHANGED <<items, tags, nextTag, labels, slips>>
    PROVE  Tables' /\ PromiseStep
  <1>1. i \in Ids /\ e \in Ids
    BY DEF Tables, TypeOK, Alive, Beside
  <1>2. TypeOK'
    BY DEF Tables, TypeOK, Alive, Beside
  <1>3. Numbered'
    BY DEF Tables, Numbered
  <1>4. LinksHold'
    BY DEF Tables, LinksHold, NoGhosts, Beside, Alive
  <1>5. Promise!Link(i, e)
    BY DEF Promise!Link, Promise!Alive, Alive, Beside, StateOf
  <1>6. Promise!Next
    BY <1>1, <1>5 DEF Promise!Next
  <1> QED BY <1>2, <1>3, <1>4, <1>6 DEF Tables, PromiseStep

LEMMA Unlinking ==
    ASSUME Tables, NEW i \in Ids, NEW e \in Ids, links' = links \ {<<i, e>>},
           UNCHANGED <<items, tags, nextTag, labels, slips>>
    PROVE  Tables' /\ PromiseStep
  <1>1. TypeOK'
    BY DEF Tables, TypeOK
  <1>2. Numbered'
    BY DEF Tables, Numbered
  <1>3. LinksHold'
    BY DEF Tables, LinksHold, NoGhosts
  <1>4. Promise!Unlink(<<i, e>>)
    BY DEF Promise!Unlink
  <1>5. Promise!Next
    BY <1>4 DEF Promise!Next
  <1> QED BY <1>1, <1>2, <1>3, <1>5 DEF Tables, PromiseStep

LEMMA Labelling ==
    ASSUME Tables, NEW i, NEW t \in DOMAIN tags, Alive(i), tags[t].ws = items[i].ws,
           labels' = labels \cup {<<i, t>>}, UNCHANGED <<items, tags, nextTag, links, slips>>
    PROVE  Tables' /\ PromiseStep
  <1>1. i \in Ids /\ t \in TagIds
    BY KnowledgeSizes DEF Tables, TypeOK, Alive, TagIds
  <1>2. TypeOK'
    BY DEF Tables, TypeOK, Alive
  <1>3. Numbered'
    BY DEF Tables, Numbered
  <1>4. LinksHold'
    BY DEF Tables, LinksHold, NoGhosts
  <1>5. Promise!Label(i, t)
    BY DEF Promise!Label, Promise!Alive, Alive, StateOf
  <1>6. Promise!Next
    BY <1>1, <1>5 DEF Promise!Next
  <1> QED BY <1>2, <1>3, <1>4, <1>6 DEF Tables, PromiseStep

LEMMA Unlabelling ==
    ASSUME Tables, NEW i \in Ids, NEW t \in DOMAIN tags, labels' = labels \ {<<i, t>>},
           UNCHANGED <<items, tags, nextTag, links, slips>>
    PROVE  Tables' /\ PromiseStep
  <1>1. t \in TagIds
    BY KnowledgeSizes DEF Tables, TypeOK, TagIds
  <1>2. TypeOK'
    BY DEF Tables, TypeOK
  <1>3. Numbered'
    BY DEF Tables, Numbered
  <1>4. LinksHold'
    BY DEF Tables, LinksHold, NoGhosts
  <1>5. Promise!Unlabel(<<i, t>>)
    BY DEF Promise!Unlabel
  <1>6. Promise!Next
    BY <1>1, <1>5 DEF Promise!Next
  <1> QED BY <1>2, <1>3, <1>4, <1>6 DEF Tables, PromiseStep

LEMMA TagMade ==
    ASSUME Tables, NEW w \in Spaces, NEW n \in Names, NewTag(w, n), slips' = slips
    PROVE  Tables' /\ PromiseStep /\ nextTag \in TagIds
  <1>1. /\ nextTag \in TagIds /\ nextTag \notin DOMAIN tags
        /\ DOMAIN tags' = DOMAIN tags \cup {nextTag} /\ tags'[nextTag] = [ws |-> w, name |-> n]
        /\ \A t \in DOMAIN tags : tags'[t] = tags[t]
        /\ nextTag' = nextTag + 1
        /\ UNCHANGED <<items, links, labels>>
    BY KnowledgeSizes DEF Tables, TypeOK, TagIds, NewTag
  <1>2. TypeOK'
    <2>1. nextTag' \in 1 .. MaxTags + 1 /\ DOMAIN tags' \subseteq 1 .. nextTag' - 1
      BY <1>1, KnowledgeSizes DEF Tables, TypeOK, TagIds
    <2>2. \A t \in DOMAIN tags' : tags'[t] \in [ws : Spaces, name : Names]
      BY <1>1 DEF Tables, TypeOK
    <2> QED BY <1>1, <2>1, <2>2 DEF Tables, TypeOK
  <1>3. Numbered'
    BY <1>1 DEF Tables, Numbered
  <1>4. LinksHold'
    BY <1>1 DEF Tables, TypeOK, LinksHold, NoGhosts
  <1>5. Promise!NewTag(nextTag, w)
    BY <1>1 DEF Promise!NewTag
  <1>6. Promise!Next
    BY <1>1, <1>5 DEF Promise!Next
  <1> QED BY <1>1, <1>2, <1>3, <1>4, <1>6 DEF Tables, PromiseStep

LEMMA TagRenamed ==
    ASSUME Tables, NEW t \in DOMAIN tags, NEW n \in Names, tags' = [tags EXCEPT ![t].name = n],
           UNCHANGED <<items, nextTag, links, labels, slips>>
    PROVE  Tables' /\ PromiseStep
  <1>1. /\ DOMAIN tags' = DOMAIN tags
        /\ \A u \in DOMAIN tags : tags'[u].ws = tags[u].ws /\ tags'[u] \in [ws : Spaces, name : Names]
    BY DEF Tables, TypeOK
  <1>2. TypeOK'
    BY <1>1 DEF Tables, TypeOK
  <1>3. Numbered'
    BY DEF Tables, Numbered
  <1>4. LinksHold'
    BY <1>1 DEF Tables, TypeOK, LinksHold, NoGhosts
  <1>5. UNCHANGED Promise!vars
    BY <1>1 DEF Promise!vars
  <1> QED BY <1>2, <1>3, <1>4, <1>5 DEF Tables, PromiseStep

LEMMA TagDropped ==
    ASSUME Tables, NEW t \in DOMAIN tags, tags' = [u \in DOMAIN tags \ {t} |-> tags[u]],
           labels' = {l \in labels : l[2] # t}, UNCHANGED <<items, nextTag, links, slips>>
    PROVE  Tables' /\ PromiseStep
  <1>1. t \in TagIds
    BY KnowledgeSizes DEF Tables, TypeOK, TagIds
  <1>2. TypeOK'
    BY DEF Tables, TypeOK
  <1>3. Numbered'
    BY DEF Tables, Numbered
  <1>4. LinksHold'
    BY DEF Tables, TypeOK, LinksHold, NoGhosts
  <1>5. Promise!DropTag(t)
    BY DEF Promise!DropTag
  <1>6. Promise!Next
    BY <1>1, <1>5 DEF Promise!Next
  <1> QED BY <1>2, <1>3, <1>4, <1>6 DEF Tables, PromiseStep
-----------------------------------------------------------------------------
(* What is still to do *)

Abouts == Ids \cup {Unknown} \cup ({"tag"} \X TagIds)

LEMMA AtRest == ASSUME handler' = Rest PROVE HandlerHolds'
  BY DEF HandlerHolds, Handlers, Rest, Silence, Event, Statuses

LEMMA Speaking ==
    ASSUME NEW i \in Abouts, NEW s \in Statuses, NEW g \in BOOLEAN,
           handler' = [Rest EXCEPT !.say = Event(i, s, g)]
    PROVE  HandlerHolds'
  BY DEF HandlerHolds, Handlers, Rest, Event, Abouts

LEMMA TablesKnow ==
    ASSUME Tables
    PROVE  /\ \A i \in DOMAIN items :
                i \in Abouts /\ items[i] \in [ws : Spaces, status : Statuses, gone : BOOLEAN]
           /\ \A t \in DOMAIN tags : <<"tag", t>> \in Abouts
           /\ slips \in 0 .. MaxSlips
  BY KnowledgeSizes DEF Tables, TypeOK, Abouts, TagIds

\* The first transaction of an operation meets no other.
LEMMA UserStep ==
    ASSUME Inv, User
    PROVE  Inv' /\ PromiseStep
  <1> USE DEF Inv
  <1>1. ASSUME NEW w \in Spaces, AddEntity(w)
        PROVE  Inv' /\ PromiseStep
    <2>1. /\ Tables' /\ PromiseStep /\ NextId("entity") \in Ids
      BY <1>1, RowAdded DEF AddEntity, Kinds
    <2>2. HandlerHolds'
      BY <1>1, <2>1, Speaking DEF AddEntity, BeginSaying, Begin, Abouts, Statuses
    <2> QED BY <2>1, <2>2
  <1>2. ASSUME NEW w \in Spaces, NEW n \in Names, CreateTag(w, n)
        PROVE  Inv' /\ PromiseStep
    <2>1. /\ Tables' /\ PromiseStep /\ nextTag \in TagIds
      BY <1>2, TagMade DEF CreateTag
    <2>2. HandlerHolds'
      BY <1>2, <2>1, Speaking DEF CreateTag, BeginSaying, Begin, TagEvent, Abouts, Statuses
    <2> QED BY <2>1, <2>2
  <1>3. ASSUME NEW w \in Spaces, NEW E \in SUBSET (Shown(w) \cup {Unknown}), NEW N \in SUBSET Names,
               NEW k \in Kinds, File(k, w, E, N)
        PROVE  Inv' /\ PromiseStep
    <2>1. /\ Tables' /\ PromiseStep /\ NextId(k) \in Ids
          /\ DOMAIN items' = DOMAIN items \cup {NextId(k)}
          /\ items'[NextId(k)] = [ws |-> w, status |-> "open", gone |-> FALSE]
          /\ \A i \in DOMAIN items : items'[i] = items[i]
      BY <1>3, RowAdded DEF File
    <2>2. PICK new \in Ids : new = NextId(k)
      BY <2>1
    <2>3. /\ new \in DOMAIN items' /\ items'[new].ws = w /\ items'[new].gone = FALSE
          /\ \A i \in DOMAIN items : i \in DOMAIN items' /\ items'[i] = items[i]
      BY <2>1, <2>2
    <2>4. handler' = [item |-> new, say |-> Event(new, "open", FALSE), ents |-> E, names |-> N,
                      left |-> {}, drop |-> FALSE]
      BY <1>3, <2>2 DEF File, Begin, Rest
    <2>5. \A e \in E : \/ e = Unknown
                      \/ /\ e \in Ids /\ e \in DOMAIN items /\ e[1] = "entity"
                         /\ items[e].ws = w /\ ~items[e].gone
      BY DEF Shown, LivingOf, Tables, TypeOK
    <2>6. handler' \in Handlers
      <3>1. E \in SUBSET (Ids \cup {Unknown})
        BY <2>5
      <3>2. Event(new, "open", FALSE) \in
              [of : Ids \cup {Unknown} \cup ({"tag"} \X TagIds), status : Statuses, gone : BOOLEAN]
        BY DEF Event, Statuses
      <3> QED BY <2>4, <3>1, <3>2 DEF Handlers
    <2>7. Alive(new)'
      BY <2>3 DEF Alive
    <2>8. \A e \in E : e = Unknown \/ Beside(new, e)'
      BY <2>3, <2>5 DEF Beside, Alive
    <2>9. handler'.item = new /\ handler'.ents = E /\ ~handler'.drop
      BY <2>4
    <2>10. HandlerHolds'
      BY <2>6, <2>7, <2>8, <2>9 DEF HandlerHolds
    <2> QED BY <2>1, <2>10
  <1>4. ASSUME NEW i \in DOMAIN items, Living(i), NEW s \in Statuses, MoveEntity(i, s)
        PROVE  Inv' /\ PromiseStep
    <2>1. Tables' /\ PromiseStep
      BY <1>4, StatusSet DEF MoveEntity, Living
    <2>2. HandlerHolds'
      BY <1>4, TablesKnow, Speaking DEF MoveEntity, BeginSaying, Begin
    <2> QED BY <2>1, <2>2
  <1>5. ASSUME NEW i \in DOMAIN items, Reword(i)
        PROVE  Inv' /\ PromiseStep
    <2>1. Tables' /\ PromiseStep
      BY <1>5, TablesKnow, NoRowMoves DEF Reword
    <2>2. HandlerHolds'
      BY <1>5, TablesKnow, Speaking DEF Reword, BeginSaying, Begin
    <2> QED BY <2>1, <2>2
  <1>6. ASSUME NEW i \in DOMAIN items, Living(i), i[1] \in {"note", "media"}, Discard(i)
        PROVE  Inv' /\ PromiseStep
    <2>1. Tables' /\ PromiseStep
      BY <1>6, RowGone DEF Discard, Living, Tables, LinksHold
    <2>2. HandlerHolds'
      BY <1>6, TablesKnow, Speaking DEF Discard, BeginSaying, Begin
    <2> QED BY <2>1, <2>2
  <1>7. ASSUME NEW i \in DOMAIN items, Living(i), DeleteEntity(i)
        PROVE  Inv' /\ PromiseStep
    <2>1. Tables' /\ PromiseStep /\ UNCHANGED <<items, links>>
      BY <1>7, TablesKnow, NoRowMoves DEF DeleteEntity, rows
    <2>2. handler' = [item |-> i, say |-> Silence, ents |-> {}, names |-> {},
                      left |-> {l \in links : l[2] = i}, drop |-> TRUE]
      BY <1>7 DEF DeleteEntity, Begin, Rest
    <2>3. i \in Ids /\ {l \in links : l[2] = i} \in SUBSET (Ids \X Ids)
      BY DEF Tables, TypeOK
    <2>4. handler' \in Handlers
      BY <2>2, <2>3 DEF Handlers, Silence, Event, Statuses
    <2>5. HandlerHolds'
      BY <1>7, <2>1, <2>2, <2>4 DEF HandlerHolds, Alive, Living, DeleteEntity
    <2> QED BY <2>1, <2>5
  <1>8. ASSUME NEW i \in DOMAIN items, Living(i), NEW e \in Ids \cup {Unknown}, Link(i, e)
        PROVE  Inv' /\ PromiseStep
    <2>1. Tables' /\ PromiseStep /\ UNCHANGED items
      BY <1>8, TablesKnow, NoRowMoves DEF Link, rows
    <2>2. handler' = [item |-> i, say |-> Silence, ents |-> {e}, names |-> {}, left |-> {}, drop |-> FALSE]
      BY <1>8 DEF Link, Begin, Rest
    <2>3. e = Unknown \/ Beside(i, e)
      BY <1>8 DEF Link, Shown, LivingOf, Beside, Alive
    <2>4. handler' \in Handlers
      BY <2>2 DEF Handlers, Silence, Event, Statuses, Tables, TypeOK
    <2>5. HandlerHolds'
      BY <1>8, <2>1, <2>2, <2>3, <2>4 DEF HandlerHolds, Alive, Beside, Living
    <2> QED BY <2>1, <2>5
  <1>9. ASSUME NEW i \in DOMAIN items, NEW e \in Ids \cup {Unknown}, Unlink(i, e)
        PROVE  Inv' /\ PromiseStep
    <2>1. i \in Ids /\ e \in Ids
      BY <1>9 DEF Unlink, Shown, LivingOf, Tables, TypeOK
    <2>2. Tables' /\ PromiseStep
      BY <1>9, <2>1, Unlinking DEF Unlink
    <2>3. HandlerHolds'
      BY <1>9, AtRest DEF Unlink, Idle
    <2> QED BY <2>2, <2>3
  <1>10. ASSUME NEW i \in DOMAIN items, Living(i), NEW n \in Names, Label(i, n)
         PROVE  Inv' /\ PromiseStep
    <2>1. Tables' /\ PromiseStep /\ UNCHANGED items
      BY <1>10, TablesKnow, NoRowMoves DEF Label, rows
    <2>2. handler' = [item |-> i, say |-> Silence, ents |-> {}, names |-> {n}, left |-> {}, drop |-> FALSE]
      BY <1>10 DEF Label, Begin, Rest
    <2>3. handler' \in Handlers
      BY <2>2 DEF Handlers, Silence, Event, Statuses, Tables, TypeOK
    <2>4. HandlerHolds'
      BY <1>10, <2>1, <2>2, <2>3 DEF HandlerHolds, Alive, Living
    <2> QED BY <2>1, <2>4
  <1>11. ASSUME NEW i \in DOMAIN items, NEW t \in DOMAIN tags, Unlabel(i, t)
         PROVE  Inv' /\ PromiseStep
    <2>1. Tables' /\ PromiseStep
      BY <1>11, Unlabelling DEF Unlabel, Tables, TypeOK
    <2>2. HandlerHolds'
      BY <1>11, AtRest DEF Unlabel, Idle
    <2> QED BY <2>1, <2>2
  <1>12. ASSUME NEW t \in DOMAIN tags, DeleteTag(t)
         PROVE  Inv' /\ PromiseStep
    <2>1. Tables' /\ PromiseStep
      BY <1>12, TagDropped DEF DeleteTag
    <2>2. HandlerHolds'
      BY <1>12, TablesKnow, Speaking DEF DeleteTag, BeginSaying, Begin, TagEvent, Statuses
    <2> QED BY <2>1, <2>2
  <1>13. ASSUME NEW t \in DOMAIN tags, NEW n \in Names, RenameTag(t, n)
         PROVE  Inv' /\ PromiseStep
    <2>1. Tables' /\ PromiseStep
      BY <1>13, TagRenamed DEF RenameTag
    <2>2. HandlerHolds'
      BY <1>13, AtRest DEF RenameTag, Idle
    <2> QED BY <2>1, <2>2
  <1>14. CASE \E w \in Spaces : \/ AddEntity(w)
                                \/ \E n \in Names : CreateTag(w, n)
                                \/ \E E \in SUBSET (Shown(w) \cup {Unknown}), N \in SUBSET Names :
                                      CreateNote(w, E, N) \/ StoreMedia(w, E, N)
    BY <1>1, <1>2, <1>3, <1>14 DEF CreateNote, StoreMedia, Kinds
  <1>15. CASE \E i \in {j \in DOMAIN items : Living(j)} :
                \/ AdoptKind(i) \/ SetFields(i) \/ UpdateNote(i)
                \/ DeleteNote(i) \/ DeleteMedia(i) \/ DeleteEntity(i)
                \/ \E s \in Statuses : MoveEntity(i, s)
    BY <1>4, <1>5, <1>6, <1>7, <1>15 DEF AdoptKind, SetFields, UpdateNote, DeleteNote, DeleteMedia
  <1>16. CASE \E i \in {j \in DOMAIN items : Living(j)} :
                \/ \E e \in Ids \cup {Unknown} :
                      \/ LinkNoteEntity(i, e) \/ LinkMediaEntity(i, e)
                      \/ UnlinkNoteEntity(i, e) \/ UnlinkMediaEntity(i, e)
                \/ \E n \in Names : LinkNoteTag(i, n) \/ LinkMediaTag(i, n)
                \/ \E t \in DOMAIN tags : UnlinkNoteTag(i, t) \/ UnlinkMediaTag(i, t)
    BY <1>8, <1>9, <1>10, <1>11, <1>16
       DEF LinkNoteEntity, LinkMediaEntity, UnlinkNoteEntity, UnlinkMediaEntity,
           LinkNoteTag, LinkMediaTag, UnlinkNoteTag, UnlinkMediaTag
  <1>17. CASE \E t \in DOMAIN tags : DeleteTag(t) \/ \E n \in Names : RenameTag(t, n)
    BY <1>12, <1>13, <1>17
  <1> QED BY <1>14, <1>15, <1>16, <1>17 DEF User

\* What follows finds the rows as the first transaction left them.
LEMMA RunStep ==
    ASSUME Inv, Run
    PROVE  Inv' /\ PromiseStep
  <1> USE DEF Inv
  <1>0. handler \in Handlers
    BY DEF HandlerHolds
  <1>1. ASSUME Tell
        PROVE  Inv' /\ PromiseStep
    <2>1. Tables' /\ PromiseStep /\ UNCHANGED <<items, links>>
      BY <1>1, TablesKnow, NoRowMoves DEF Tell, rows
    <2>2. HandlerHolds'
      <3>1. CASE handler' = Rest
        BY <3>1, AtRest
      <3>2. CASE handler' = [handler EXCEPT !.say = Silence]
        <4>1. Silence \in [of : Ids \cup {Unknown} \cup ({"tag"} \X TagIds), status : Statuses, gone : BOOLEAN]
          BY DEF Silence, Event, Statuses
        <4>2. /\ handler' \in Handlers /\ handler'.say = Silence
              /\ handler'.item = handler.item /\ handler'.ents = handler.ents
              /\ handler'.names = handler.names /\ handler'.left = handler.left
              /\ handler'.drop = handler.drop
          BY <1>0, <3>2, <4>1 DEF Handlers
        <4> QED BY <2>1, <4>2 DEF HandlerHolds, Alive, Beside
      <3> QED BY <1>1, <3>1, <3>2 DEF Tell
    <2> QED BY <2>1, <2>2
  <1>2. ASSUME Refuse
        PROVE  Inv' /\ PromiseStep
    BY <1>2, TablesKnow, NoRowMoves, AtRest DEF Refuse
  <1>3. ASSUME Drop
        PROVE  Inv' /\ PromiseStep
    <2>1. Alive(handler.item) /\ \A l \in links : l[2] # handler.item
      BY <1>3 DEF Drop, HandlerHolds
    <2>2. Tables' /\ PromiseStep
      BY <1>3, <2>1, RowGone DEF Drop, Alive
    <2>3. HandlerHolds'
      BY <1>3, <2>1, TablesKnow, Speaking DEF Drop, Alive
    <2> QED BY <2>2, <2>3
  <1>4. ASSUME NEW E, NEW N, handler' = Left(E, N), E \subseteq handler.ents, N \subseteq handler.names,
               ~handler.drop, UNCHANGED items
        PROVE  HandlerHolds'
    <2>1. CASE E = {} /\ N = {}
      BY <1>4, <2>1, AtRest DEF Left
    <2>2. CASE ~(E = {} /\ N = {})
      <3>1. /\ handler' \in Handlers
            /\ handler'.item = handler.item /\ handler'.ents = E /\ handler'.names = N /\ ~handler'.drop
        BY <1>0, <1>4, <2>2 DEF Left, Handlers
      <3> QED BY <1>4, <2>2, <3>1 DEF HandlerHolds, Alive, Beside
    <2> QED BY <2>1, <2>2
  <1>5. ASSUME NEW e \in handler.ents, LinkNext(e)
        PROVE  Inv' /\ PromiseStep
    <2>1. Alive(handler.item) /\ Beside(handler.item, e) /\ ~handler.drop
      BY <1>5 DEF LinkNext, HandlerHolds
    <2>2. Tables' /\ PromiseStep
      BY <1>5, <2>1, Linking DEF LinkNext
    <2>3. HandlerHolds'
      BY <1>4, <1>5, <2>1 DEF LinkNext
    <2> QED BY <2>2, <2>3
  <1>6. ASSUME NEW n \in handler.names, MakeTag(n)
        PROVE  Inv' /\ PromiseStep
    <2>1. Alive(handler.item) /\ ~handler.drop /\ n \in Names
      BY <1>0, <1>6 DEF HandlerHolds, Handlers
    <2>2. items[handler.item].ws \in Spaces
      BY <2>1, TablesKnow DEF Alive
    <2>3. Tables' /\ PromiseStep /\ nextTag \in TagIds /\ UNCHANGED items
      BY <1>6, <2>1, <2>2, TagMade DEF MakeTag, NewTag
    <2>4. TagEvent(nextTag, FALSE) \in
            [of : Ids \cup {Unknown} \cup ({"tag"} \X TagIds), status : Statuses, gone : BOOLEAN]
      BY <2>3 DEF TagEvent, Event, Statuses
    <2>5. /\ handler' \in Handlers
          /\ handler'.item = handler.item /\ handler'.ents = handler.ents
          /\ handler'.names = handler.names /\ ~handler'.drop
      BY <1>0, <1>6, <2>1, <2>4 DEF MakeTag, Handlers
    <2>6. HandlerHolds'
      BY <2>3, <2>5 DEF HandlerHolds, Alive, Beside
    <2> QED BY <2>3, <2>6
  <1>7. ASSUME NEW n \in handler.names, LabelNext(n)
        PROVE  Inv' /\ PromiseStep
    <2>1. Alive(handler.item) /\ ~handler.drop
      BY <1>7 DEF HandlerHolds
    <2>2. PICK t \in TagsNamed(items[handler.item].ws, n) : labels' = labels \cup {<<handler.item, t>>}
      BY <1>7 DEF LabelNext
    <2>3. t \in DOMAIN tags /\ tags[t].ws = items[handler.item].ws
      BY <2>2 DEF TagsNamed
    <2>4. Tables' /\ PromiseStep
      BY <1>7, <2>1, <2>2, <2>3, Labelling DEF LabelNext
    <2>5. HandlerHolds'
      BY <1>4, <1>7, <2>1 DEF LabelNext
    <2> QED BY <2>4, <2>5
  <1>8. ASSUME NEW l \in handler.left, UnlinkNext(l)
        PROVE  Inv' /\ PromiseStep
    <2>1. l \in Ids \X Ids
      BY <1>0, <1>8 DEF Handlers
    <2>2. Tables' /\ PromiseStep
      <3>1. l = <<l[1], l[2]>> /\ l[1] \in Ids /\ l[2] \in Ids
        BY <2>1
      <3>2. links' = links \ {<<l[1], l[2]>>} /\ UNCHANGED <<items, tags, nextTag, labels, slips>>
        BY <1>8, <3>1 DEF UnlinkNext
      <3> QED BY <3>1, <3>2, Unlinking
    <2>3. /\ handler' \in Handlers
          /\ handler'.item = handler.item /\ handler'.ents = handler.ents
          /\ handler'.names = handler.names /\ handler'.left = handler.left \ {l}
          /\ handler'.drop = handler.drop /\ handler'.say = handler.say
          /\ links' = links \ {l} /\ UNCHANGED items
      BY <1>0, <1>8 DEF UnlinkNext, Handlers
    <2>4. HandlerHolds'
      BY <2>3 DEF HandlerHolds, Alive, Beside
    <2> QED BY <2>2, <2>4
  <1> QED BY <1>1, <1>2, <1>3, <1>5, <1>6, <1>7, <1>8 DEF Run

\* A fault cuts an operation off and leaves sound tables behind.
LEMMA SlipStep ==
    ASSUME Inv, Slip
    PROVE  Inv' /\ PromiseStep
  <1>1. slips' \in 0 .. MaxSlips
    BY TablesKnow, KnowledgeSizes DEF Inv, Slip
  <1> QED BY <1>1, NoRowMoves, AtRest DEF Inv, Slip

LEMMA InvInit == Init => Inv /\ Promise!Init
  <1> SUFFICES ASSUME Init PROVE Inv /\ Promise!Init
    OBVIOUS
  <1>1. DOMAIN items = {} /\ DOMAIN tags = {}
    BY DEF Init
  <1>2. TypeOK
    BY <1>1, KnowledgeSizes DEF Init, TypeOK
  <1>3. Numbered
    <2>1. \A k \in Kinds : {i \in DOMAIN items : i[1] = k} = {<<k, m>> : m \in 1 .. 0}
      BY <1>1
    <2> QED BY <2>1, KnowledgeSizes DEF Numbered, Kinds
  <1>4. LinksHold
    BY DEF Init, LinksHold, NoGhosts
  <1>5. HandlerHolds
    BY DEF Init, HandlerHolds, Handlers, Rest, Silence, Event, Statuses
  <1>6. Promise!Init
    BY <1>1 DEF Init, Promise!Init
  <1> QED BY <1>2, <1>3, <1>4, <1>5, <1>6 DEF Inv, Tables

LEMMA InvStep == Inv /\ [Next]_vars => Inv' /\ PromiseStep
  <1> SUFFICES ASSUME Inv, [Next]_vars PROVE Inv' /\ PromiseStep
    OBVIOUS
  <1>1. CASE User
    BY <1>1, UserStep
  <1>2. CASE Run
    BY <1>2, RunStep
  <1>3. CASE Slip
    BY <1>3, SlipStep
  <1>4. CASE UNCHANGED vars
    <2>1. UNCHANGED <<items, tags, nextTag, links, labels, handler, slips>> /\ UNCHANGED rows
      BY <1>4 DEF vars, rows
    <2>2. Tables' /\ PromiseStep
      BY <2>1, TablesKnow, NoRowMoves DEF Inv
    <2>3. HandlerHolds'
      BY <2>1 DEF Inv, HandlerHolds, Alive, Beside
    <2> QED BY <2>2, <2>3 DEF Inv
  <1> QED BY <1>1, <1>2, <1>3, <1>4 DEF Next

-----------------------------------------------------------------------------
(* The story.  While an event is about to be recorded it is true of the rows *)
(* as they are; an item that was never told, or told wrongly, is one whose   *)
(* event a fault has cut off.                                                *)

Missing == {i \in Heard : ~Told(i) /\ handler.say.of # i}

TrueNow(v) ==
    /\ v.of \in Heard
    /\ IF v.of[1] = "tag" THEN v.gone = (v.of[2] \notin DOMAIN tags)
       ELSE v.gone = items[v.of].gone /\ v.status = items[v.of].status

StoryInv ==
    /\ handler.say # Silence => TrueNow(handler.say)
    /\ IsFiniteSet(Missing) /\ Cardinality(Missing) <= slips

LEMMA ItemsAreNoTags ==
    ASSUME Tables
    PROVE  /\ \A i \in DOMAIN items : i[1] # "tag"
           /\ Unknown \notin Heard /\ Silence.of = Unknown
  <1>1. \A i \in Ids : i[1] # "tag"
    BY IdsAre DEF Kinds
  <1>2. DOMAIN items \subseteq Ids
    BY DEF Tables, TypeOK
  <1>3. \A t \in 1 .. nextTag - 1 : Unknown # <<"tag", t>>
    BY DEF Unknown
  <1>4. Silence.of = Unknown
    BY DEF Silence, Event
  <1> QED BY <1>1, <1>2, <1>3, <1>4, UnknownIsNoId DEF Heard

\* A step that leaves right what was right, but for what it is about to tell, leaves
\* no more items missing.
LEMMA NoMoreMissing ==
    ASSUME Tables, StoryInv, slips' = slips,
           handler.say = Silence \/ handler'.say = handler.say,
           \A i \in Heard' : i # handler'.say.of => i \in Heard /\ (Told(i) => Told(i)')
    PROVE  IsFiniteSet(Missing)' /\ (Cardinality(Missing) <= slips)'
  <1>1. Missing' \subseteq Missing
    <2> SUFFICES ASSUME NEW i \in Missing' PROVE i \in Missing
      OBVIOUS
    <2>1. i \in Heard' /\ ~Told(i)' /\ i # handler'.say.of
      BY DEF Missing
    <2>2. i \in Heard /\ ~Told(i)
      BY <2>1
    <2>3. handler.say.of # i
      BY <2>1, <2>2, ItemsAreNoTags
    <2> QED BY <2>2, <2>3 DEF Missing
  <1>2. IsFiniteSet(Missing') /\ Cardinality(Missing') <= Cardinality(Missing)
    BY <1>1, FS_Subset DEF StoryInv
  <1>3. Cardinality(Missing) \in Nat /\ Cardinality(Missing') \in Nat /\ Cardinality(Missing) <= slips
    BY <1>2, FS_CardinalityType DEF StoryInv
  <1>4. slips \in Nat
    BY KnowledgeSizes DEF Tables, TypeOK
  <1> QED BY <1>2, <1>3, <1>4

\* Its handler goes on without a word.
LEMMA NothingToTell ==
    ASSUME Tables, StoryInv, UNCHANGED <<items, nextTag, story, slips>>,
           DOMAIN tags' = DOMAIN tags, handler'.say = handler.say
    PROVE  StoryInv'
  <1>1. Heard' = Heard
    BY DEF Heard
  <1>2. \A i \in Heard : Told(i) => Told(i)'
    BY DEF Told
  <1>3. handler'.say # Silence => TrueNow(handler.say)'
    BY <1>1 DEF StoryInv, TrueNow
  <1> QED BY <1>1, <1>2, <1>3, NoMoreMissing DEF StoryInv, TrueNow

\* A row is new or has changed, and is about to be told as it is now.
LEMMA ItemToTell ==
    ASSUME Tables, StoryInv, handler.say = Silence, NEW i, i[1] # "tag",
           DOMAIN items' = DOMAIN items \cup {i},
           \A j \in DOMAIN items : j # i => items'[j] = items[j],
           handler'.say.of = i, handler'.say.status = items'[i].status,
           handler'.say.gone = items'[i].gone,
           UNCHANGED <<tags, nextTag, story, slips>>
    PROVE  StoryInv'
  <1>1. Heard' = Heard \cup {i}
    BY DEF Heard
  <1>2. \A j \in Heard : j # i => (Told(j) => Told(j)')
    <2> SUFFICES ASSUME NEW j \in Heard, j # i, Told(j) PROVE Told(j)'
      OBVIOUS
    <2>1. CASE j \in DOMAIN items
      BY <2>1, ItemsAreNoTags DEF Told
    <2>2. CASE j \notin DOMAIN items
      <3>1. j[1] = "tag"
        BY <2>2 DEF Heard
      <3> QED BY <3>1 DEF Told
    <2> QED BY <2>1, <2>2
  <1>3. TrueNow(handler.say)'
    BY <1>1 DEF TrueNow
  <1>4. IsFiniteSet(Missing)' /\ (Cardinality(Missing) <= slips)'
    BY <1>1, <1>2, NoMoreMissing
  <1> QED BY <1>3, <1>4 DEF StoryInv

\* A tag is new or gone, and is about to be told so.
LEMMA TagToTell ==
    ASSUME Tables, StoryInv, handler.say = Silence, NEW t \in 1 .. nextTag' - 1,
           nextTag' \in Nat, nextTag' = nextTag \/ (nextTag' = nextTag + 1 /\ t = nextTag),
           \A u : u # t => (u \in DOMAIN tags' <=> u \in DOMAIN tags),
           handler'.say.of = <<"tag", t>>, handler'.say.gone = (t \notin DOMAIN tags'),
           UNCHANGED <<items, story, slips>>
    PROVE  StoryInv'
  <1>1. Heard' = Heard \cup {<<"tag", t>>}
    <2>1. nextTag \in Nat \ {0}
      BY KnowledgeSizes DEF Tables, TypeOK
    <2>2. 1 .. nextTag' - 1 = (1 .. nextTag - 1) \cup {t}
      <3>1. CASE nextTag' = nextTag
        BY <3>1
      <3>2. CASE nextTag' = nextTag + 1 /\ t = nextTag
        <4>1. \A u : u \in 1 .. nextTag <=> u \in 1 .. nextTag - 1 \/ u = nextTag
          BY <2>1
        <4>2. nextTag' - 1 = nextTag
          BY <2>1, <3>2
        <4> QED BY <3>2, <4>1, <4>2
      <3> QED BY <3>1, <3>2
    <2> QED BY <2>2 DEF Heard
  <1>2. \A j \in Heard : j # <<"tag", t>> => (Told(j) => Told(j)')
    <2> SUFFICES ASSUME NEW j \in Heard, j # <<"tag", t>>, Told(j) PROVE Told(j)'
      OBVIOUS
    <2>1. CASE j \in DOMAIN items
      BY <2>1, ItemsAreNoTags DEF Told
    <2>2. CASE j \notin DOMAIN items
      <3>1. PICK u \in 1 .. nextTag - 1 : j = <<"tag", u>>
        BY <2>2 DEF Heard
      <3>2. j[1] = "tag" /\ j[2] = u /\ u # t
        BY <3>1
      <3>3. u \in DOMAIN tags' <=> u \in DOMAIN tags
        BY <3>2
      <3> QED BY <3>2, <3>3 DEF Told
    <2> QED BY <2>1, <2>2
  <1>3. TrueNow(handler.say)'
    BY <1>1 DEF TrueNow
  <1>4. IsFiniteSet(Missing)' /\ (Cardinality(Missing) <= slips)'
    BY <1>1, <1>2, NoMoreMissing
  <1> QED BY <1>3, <1>4 DEF StoryInv

LEMMA RestSays == Rest.say = Silence /\ (Idle => handler.say = Silence)
  BY DEF Rest, Idle

LEMMA NewTagTold ==
    ASSUME Tables, StoryInv, handler.say = Silence, NEW w, NEW n, NewTag(w, n),
           handler'.say = TagEvent(nextTag, FALSE), UNCHANGED <<story, slips>>
    PROVE  StoryInv'
  <1>1. nextTag \in Nat \ {0} /\ nextTag \notin DOMAIN tags
    BY KnowledgeSizes DEF Tables, TypeOK
  <1>2. DOMAIN tags' = DOMAIN tags \cup {nextTag} /\ nextTag' = nextTag + 1 /\ UNCHANGED items
    BY DEF NewTag
  <1>3. handler'.say.of = <<"tag", nextTag>> /\ handler'.say.gone = FALSE
    BY DEF TagEvent, Event
  <1>4. PICK t : t = nextTag
    OBVIOUS
  <1>5. t \in 1 .. nextTag' - 1 /\ nextTag' \in Nat
    BY <1>1, <1>2, <1>4
  <1>6. handler'.say.gone = (t \notin DOMAIN tags')
    BY <1>2, <1>3, <1>4
  <1> QED BY <1>2, <1>3, <1>4, <1>5, <1>6, TagToTell

\* What the users do is told, or changes nothing a story tells of.
LEMMA StoryUser ==
    ASSUME Inv, StoryInv, User
    PROVE  StoryInv'
  <1> USE DEF Inv
  <1>1. ASSUME NEW k \in Kinds, NEW w \in Spaces, AddRow(k, w), Idle, UNCHANGED <<story, slips>>,
               handler'.say = Event(NextId(k), "open", FALSE)
        PROVE  StoryInv'
    <2>1. /\ NextId(k) \in Ids /\ NextId(k)[1] = k /\ k # "tag"
          /\ DOMAIN items' = DOMAIN items \cup {NextId(k)}
          /\ items'[NextId(k)] = [ws |-> w, status |-> "open", gone |-> FALSE]
          /\ \A i \in DOMAIN items : items'[i] = items[i]
      BY <1>1, RowAdded DEF Kinds
    <2>2. /\ handler'.say.of = NextId(k) /\ handler'.say.status = "open"
          /\ handler'.say.gone = FALSE
      BY <1>1 DEF Event
    <2>3. UNCHANGED <<tags, nextTag>>
      BY <1>1 DEF AddRow
    <2>4. PICK i \in Ids : i = NextId(k)
      BY <2>1
    <2>5. i[1] # "tag" /\ DOMAIN items' = DOMAIN items \cup {i} /\ handler'.say.of = i
      BY <2>1, <2>2, <2>4
    <2>7. items'[i] = [ws |-> w, status |-> "open", gone |-> FALSE]
      BY <2>1, <2>4
    <2>8. handler'.say.status = items'[i].status /\ handler'.say.gone = items'[i].gone
      <3>1. items'[i].status = "open" /\ items'[i].gone = FALSE
        BY <2>7
      <3> QED BY <2>2, <3>1, Zenon
    <2>6. \A j \in DOMAIN items : j # i => items'[j] = items[j]
      BY <2>1
    <2> QED BY <1>1, <2>3, <2>5, <2>6, <2>8, RestSays, ItemToTell
  <1>2. ASSUME NEW i \in DOMAIN items, NEW r, SetRow(i, r), Idle, UNCHANGED <<story, slips>>,
               handler'.say = Event(i, r.status, r.gone)
        PROVE  StoryInv'
    <2>1. /\ DOMAIN items' = DOMAIN items \cup {i} /\ items'[i] = r
          /\ \A j \in DOMAIN items : j # i => items'[j] = items[j]
          /\ UNCHANGED <<tags, nextTag>>
      BY <1>2 DEF SetRow
    <2>2. handler'.say.of = i /\ handler'.say.status = r.status /\ handler'.say.gone = r.gone
      BY <1>2 DEF Event
    <2> QED BY <1>2, <2>1, <2>2, RestSays, ItemsAreNoTags, ItemToTell
  <1>3. ASSUME NEW i \in DOMAIN items, Living(i), Reword(i)
        PROVE  StoryInv'
    <2>1. UNCHANGED <<items, tags, nextTag, story, slips>> /\ Idle
      BY <1>3 DEF Reword, rows, BeginSaying, Begin
    <2>2. handler'.say.of = i /\ handler'.say.status = items[i].status /\ handler'.say.gone = FALSE
      BY <1>3 DEF Reword, BeginSaying, Begin, Event, Rest
    <2>3. items[i].gone = FALSE
      BY <1>3, TablesKnow DEF Living
    <2> QED BY <2>1, <2>2, <2>3, RestSays, ItemsAreNoTags, ItemToTell
  <1>4. ASSUME Idle, UNCHANGED <<items, nextTag, story, slips>>, DOMAIN tags' = DOMAIN tags,
               handler'.say = Silence
        PROVE  StoryInv'
    BY <1>4, RestSays, NothingToTell
  <1>5. ASSUME NEW w \in Spaces, AddEntity(w)
        PROVE  StoryInv'
    <2>1. /\ AddRow("entity", w) /\ Idle /\ UNCHANGED <<story, slips>>
          /\ handler'.say = Event(NextId("entity"), "open", FALSE)
      BY <1>5 DEF AddEntity, BeginSaying, Begin, Rest
    <2> QED BY <1>1, <2>1 DEF Kinds
  <1>6. ASSUME NEW w \in Spaces, NEW n \in Names, CreateTag(w, n)
        PROVE  StoryInv'
    <2>1. NewTag(w, n) /\ Idle /\ UNCHANGED <<story, slips>> /\ handler'.say = TagEvent(nextTag, FALSE)
      BY <1>6 DEF CreateTag, BeginSaying, Begin, Rest
    <2> QED BY <2>1, RestSays, NewTagTold
  <1>7. ASSUME NEW k \in Kinds, NEW w \in Spaces, NEW E, NEW N, File(k, w, E, N)
        PROVE  StoryInv'
    <2>1. /\ AddRow(k, w) /\ Idle /\ UNCHANGED <<story, slips>>
          /\ handler'.say = Event(NextId(k), "open", FALSE)
      BY <1>7 DEF File, Begin, Rest
    <2> QED BY <1>1, <2>1
  <1>8. ASSUME NEW i \in DOMAIN items, Living(i), NEW s \in Statuses, MoveEntity(i, s)
        PROVE  StoryInv'
    <2>1. items[i] \in [ws : Spaces, status : Statuses, gone : BOOLEAN] /\ items[i].gone = FALSE
      BY <1>8, TablesKnow DEF Living
    <2> DEFINE r == [items[i] EXCEPT !.status = s]
    <2>2. r.status = s /\ r.gone = FALSE
      BY <2>1
    <2>3. /\ SetRow(i, r) /\ Idle /\ UNCHANGED <<story, slips>>
          /\ handler'.say = Event(i, s, FALSE)
      BY <1>8 DEF MoveEntity, BeginSaying, Begin, Rest
    <2> HIDE DEF r
    <2> QED BY <1>2, <2>2, <2>3
  <1>9. ASSUME NEW i \in DOMAIN items, Living(i), Discard(i)
        PROVE  StoryInv'
    <2>1. items[i] \in [ws : Spaces, status : Statuses, gone : BOOLEAN]
      BY <1>9, TablesKnow
    <2> DEFINE r == [items[i] EXCEPT !.gone = TRUE]
    <2>2. r.status = items[i].status /\ r.gone = TRUE
      BY <2>1
    <2>3. /\ SetRow(i, r) /\ Idle /\ UNCHANGED <<story, slips>>
          /\ handler'.say = Event(i, items[i].status, TRUE)
      BY <1>9 DEF Discard, BeginSaying, Begin, Rest
    <2> HIDE DEF r
    <2> QED BY <1>2, <2>2, <2>3
  <1>10. ASSUME NEW i \in DOMAIN items, DeleteEntity(i)
         PROVE  StoryInv'
    BY <1>4, <1>10 DEF DeleteEntity, Begin, Rest, rows
  <1>11. ASSUME NEW i \in DOMAIN items, NEW e, Link(i, e)
         PROVE  StoryInv'
    BY <1>4, <1>11 DEF Link, Begin, Rest, rows
  <1>12. ASSUME NEW i \in DOMAIN items, NEW n, Label(i, n)
         PROVE  StoryInv'
    BY <1>4, <1>12 DEF Label, Begin, Rest, rows
  <1>13. ASSUME NEW i \in DOMAIN items, NEW e, Unlink(i, e)
         PROVE  StoryInv'
    BY <1>4, <1>13, RestSays DEF Unlink
  <1>14. ASSUME NEW i \in DOMAIN items, NEW t \in DOMAIN tags, Unlabel(i, t)
         PROVE  StoryInv'
    BY <1>4, <1>14, RestSays DEF Unlabel
  <1>15. ASSUME NEW t \in DOMAIN tags, NEW n \in Names, RenameTag(t, n)
         PROVE  StoryInv'
    BY <1>4, <1>15, RestSays DEF RenameTag
  <1>16. ASSUME NEW t \in DOMAIN tags, DeleteTag(t)
         PROVE  StoryInv'
    <2>1. /\ handler'.say.of = <<"tag", t>> /\ handler'.say.gone = TRUE /\ Idle
          /\ UNCHANGED <<items, nextTag, story, slips>>
      BY <1>16 DEF DeleteTag, BeginSaying, Begin, TagEvent, Event, Rest
    <2>2. t \in 1 .. nextTag' - 1 /\ nextTag' \in Nat
      BY <2>1, KnowledgeSizes DEF Tables, TypeOK
    <2>3. DOMAIN tags' = DOMAIN tags \ {t}
      BY <1>16 DEF DeleteTag
    <2>4. handler'.say.gone = (t \notin DOMAIN tags')
      BY <2>1, <2>3
    <2> QED BY <2>1, <2>2, <2>3, <2>4, RestSays, TagToTell
  <1>17. CASE \E w \in Spaces : \/ AddEntity(w)
                                \/ \E n \in Names : CreateTag(w, n)
                                \/ \E E \in SUBSET (Shown(w) \cup {Unknown}), N \in SUBSET Names :
                                      CreateNote(w, E, N) \/ StoreMedia(w, E, N)
    BY <1>5, <1>6, <1>7, <1>17 DEF CreateNote, StoreMedia, Kinds
  <1>18. CASE \E i \in {j \in DOMAIN items : Living(j)} :
                \/ AdoptKind(i) \/ SetFields(i) \/ UpdateNote(i)
                \/ DeleteNote(i) \/ DeleteMedia(i) \/ DeleteEntity(i)
                \/ \E s \in Statuses : MoveEntity(i, s)
    BY <1>3, <1>8, <1>9, <1>10, <1>18 DEF AdoptKind, SetFields, UpdateNote, DeleteNote, DeleteMedia
  <1>19. CASE \E i \in {j \in DOMAIN items : Living(j)} :
                \/ \E e \in Ids \cup {Unknown} :
                      \/ LinkNoteEntity(i, e) \/ LinkMediaEntity(i, e)
                      \/ UnlinkNoteEntity(i, e) \/ UnlinkMediaEntity(i, e)
                \/ \E n \in Names : LinkNoteTag(i, n) \/ LinkMediaTag(i, n)
                \/ \E t \in DOMAIN tags : UnlinkNoteTag(i, t) \/ UnlinkMediaTag(i, t)
    BY <1>11, <1>12, <1>13, <1>14, <1>19
       DEF LinkNoteEntity, LinkMediaEntity, UnlinkNoteEntity, UnlinkMediaEntity,
           LinkNoteTag, LinkMediaTag, UnlinkNoteTag, UnlinkMediaTag
  <1>20. CASE \E t \in DOMAIN tags : DeleteTag(t) \/ \E n \in Names : RenameTag(t, n)
    BY <1>15, <1>16, <1>20
  <1> QED BY <1>17, <1>18, <1>19, <1>20 DEF User

\* The event is recorded as it stands, and what follows finds it told.
LEMMA StoryTold ==
    ASSUME Inv, StoryInv, Tell
    PROVE  StoryInv'
  <1>0. PICK i : i = handler.say.of
    OBVIOUS
  <1>1. TrueNow(handler.say) /\ handler.say # Silence
    BY DEF Tell, Saying, StoryInv
  <1>2. UNCHANGED <<items, tags, nextTag, links, slips>> /\ Heard' = Heard
    BY DEF Tell, rows, Heard
  <1>3. /\ DOMAIN story' = DOMAIN story \cup {i} /\ story'[i] = handler.say
        /\ \A j \in DOMAIN story : j # i => story'[j] = story[j]
    BY <1>0 DEF Tell
  <1>4. handler'.say = Silence
    <2>1. handler \in Handlers
      BY DEF Inv, HandlerHolds
    <2> QED BY <2>1, RestSays DEF Tell, Handlers
  <1>5. Told(i)'
    <2>1. story'[i].gone = handler.say.gone /\ story'[i].status = handler.say.status /\ i \in DOMAIN story'
      BY <1>3
    <2>2. CASE i[1] = "tag"
      <3>1. handler.say.gone = (i[2] \notin DOMAIN tags')
        BY <1>0, <1>1, <1>2, <2>2 DEF TrueNow
      <3> QED BY <2>1, <2>2, <3>1 DEF Told
    <2>3. CASE i[1] # "tag"
      <3>1. handler.say.gone = items'[i].gone /\ handler.say.status = items'[i].status
        BY <1>0, <1>1, <1>2, <2>3 DEF TrueNow
      <3> QED BY <2>1, <2>3, <3>1 DEF Told
    <2> QED BY <2>2, <2>3
  <1>6. \A j \in Heard : j # i /\ Told(j) => Told(j)'
    BY <1>2, <1>3 DEF Told
  <1>7. Missing' \subseteq Missing
    <2> SUFFICES ASSUME NEW j \in Missing' PROVE j \in Missing
      OBVIOUS
    <2>1. j \in Heard /\ ~Told(j)'
      BY <1>2 DEF Missing
    <2>2. j # i
      BY <1>5, <2>1
    <2>3. ~Told(j)
      BY <1>6, <2>1, <2>2
    <2> QED BY <1>0, <2>1, <2>2, <2>3 DEF Missing
  <1>8. IsFiniteSet(Missing') /\ Cardinality(Missing') <= Cardinality(Missing)
    BY <1>7, FS_Subset DEF StoryInv
  <1>9. Cardinality(Missing) \in Nat /\ Cardinality(Missing') \in Nat /\ Cardinality(Missing) <= slips
    BY <1>8, FS_CardinalityType DEF StoryInv
  <1>10. slips \in Nat
    BY KnowledgeSizes DEF Inv, Tables, TypeOK
  <1> QED BY <1>2, <1>4, <1>8, <1>9, <1>10 DEF StoryInv

LEMMA StoryRun ==
    ASSUME Inv, StoryInv, Run
    PROVE  StoryInv'
  <1> USE DEF Inv
  <1>0. handler \in Handlers
    BY DEF HandlerHolds
  <1>1. CASE Tell
    BY <1>1, StoryTold
  <1>2. CASE Refuse
    BY <1>2, RestSays, NothingToTell DEF Refuse, Saying, rows
  <1>3. CASE Drop
    <2> DEFINE i == handler.item
               r == [items[i] EXCEPT !.gone = TRUE]
    <2>1. i \in DOMAIN items /\ handler.say = Silence
      BY <1>3 DEF Drop, HandlerHolds, Alive
    <2>2. items[i] \in [ws : Spaces, status : Statuses, gone : BOOLEAN]
      BY <2>1, TablesKnow
    <2>3. r.status = items[i].status /\ r.gone = TRUE
      BY <2>2
    <2>4. /\ handler'.say.of = i /\ handler'.say.status = r.status /\ handler'.say.gone = r.gone
      BY <1>3, <2>3 DEF Drop, Rest, Event
    <2>5. /\ DOMAIN items' = DOMAIN items \cup {i} /\ items'[i] = r
          /\ \A j \in DOMAIN items : j # i => items'[j] = items[j]
          /\ UNCHANGED <<tags, nextTag, story, slips>>
      BY <1>3, <2>1 DEF Drop, SetRow
    <2> HIDE DEF r
    <2> QED BY <2>1, <2>4, <2>5, ItemsAreNoTags, ItemToTell
  <1>4. ASSUME NEW E, NEW N, handler' = Left(E, N), ~Saying
        PROVE  handler'.say = handler.say
    BY <1>0, <1>4, RestSays DEF Left, Saying, Handlers
  <1>5. ASSUME NEW e \in handler.ents, LinkNext(e)
        PROVE  StoryInv'
    BY <1>4, <1>5, NothingToTell DEF LinkNext
  <1>6. ASSUME NEW n \in handler.names, MakeTag(n)
        PROVE  StoryInv'
    <2>1. /\ NewTag(items[handler.item].ws, n) /\ UNCHANGED <<story, slips>>
          /\ handler.say = Silence
      BY <1>6 DEF MakeTag, Filing, Saying
    <2>2. handler'.say = TagEvent(nextTag, FALSE)
      BY <1>0, <1>6 DEF MakeTag, Handlers
    <2> QED BY <2>1, <2>2, NewTagTold
  <1>7. ASSUME NEW n \in handler.names, LabelNext(n)
        PROVE  StoryInv'
    BY <1>4, <1>7, NothingToTell DEF LabelNext, Filing
  <1>8. ASSUME NEW l \in handler.left, UnlinkNext(l)
        PROVE  StoryInv'
    <2>1. handler'.say = handler.say
      BY <1>0, <1>8 DEF UnlinkNext, Handlers
    <2> QED BY <1>8, <2>1, NothingToTell DEF UnlinkNext
  <1> QED BY <1>1, <1>2, <1>3, <1>5, <1>6, <1>7, <1>8 DEF Run

\* A fault cuts off one event at most.
LEMMA StorySlip ==
    ASSUME Inv, StoryInv, Slip
    PROVE  StoryInv'
  <1> DEFINE i == handler.say.of
  <1>1. UNCHANGED <<items, tags, nextTag, story>> /\ slips' = slips + 1 /\ handler'.say = Silence
    BY RestSays DEF Slip, rows
  <1>2. Heard' = Heard /\ \A j \in Heard : Told(j)' <=> Told(j)
    BY <1>1 DEF Heard, Told
  <1>3. Missing' \subseteq Missing \cup {i}
    BY <1>2 DEF Missing
  <1>4. IsFiniteSet(Missing) /\ Cardinality(Missing) \in Nat /\ Cardinality(Missing) <= slips
    BY FS_CardinalityType DEF StoryInv
  <1>5. /\ IsFiniteSet(Missing \cup {i})
        /\ Cardinality(Missing \cup {i}) <= Cardinality(Missing) + 1
    BY <1>4, FS_AddElement
  <1>6. IsFiniteSet(Missing') /\ Cardinality(Missing') <= Cardinality(Missing \cup {i})
    BY <1>3, <1>5, FS_Subset
  <1>7. slips \in Nat /\ Cardinality(Missing \cup {i}) \in Nat /\ Cardinality(Missing') \in Nat
    BY <1>5, <1>6, FS_CardinalityType, KnowledgeSizes DEF Inv, Tables, TypeOK
  <1> QED BY <1>1, <1>4, <1>5, <1>6, <1>7 DEF StoryInv

LEMMA StoryStep == Inv /\ StoryInv /\ [Next]_vars => StoryInv'
  <1> SUFFICES ASSUME Inv, StoryInv, [Next]_vars PROVE StoryInv'
    OBVIOUS
  <1>1. CASE UNCHANGED vars
    BY <1>1, NothingToTell DEF vars, rows, Inv
  <1> QED BY <1>1, StoryUser, StoryRun, StorySlip DEF Next

LEMMA StoryInit == Init => StoryInv
  <1> SUFFICES ASSUME Init PROVE StoryInv
    OBVIOUS
  <1>1. Missing = {}
    BY DEF Init, Missing, Heard
  <1>2. handler.say = Silence
    BY RestSays DEF Init
  <1> QED BY <1>1, <1>2, FS_EmptySet DEF Init, StoryInv

-----------------------------------------------------------------------------
(* The search.  The filters of a query are sets of rows; the newest row of   *)
(* what they leave is found although each of them is cut to a few rows.      *)

Less == {p \in Nat \X Nat : p[1] < p[2]}

\* Of some rows one is the last.
LEMMA SomeLast ==
    ASSUME NEW S, S # {}, NEW B \in Nat, \A i \in S : i[2] \in 1 .. B
    PROVE  \E i \in S : \A j \in S : ~(j[2] > i[2])
  <1> DEFINE D == {B - i[2] : i \in S}
  <1>1. IsWellFoundedOn(Less, Nat)
    BY NatLessThanWellFounded DEF OpToRel, Less
  <1>2. D \subseteq Nat /\ D # {}
    OBVIOUS
  <1>3. PICK x \in D : \A y \in D : <<y, x>> \notin Less
    <2> HIDE DEF D
    <2> QED BY <1>1, <1>2, WFMin
  <1>4. PICK i \in S : x = B - i[2]
    BY <1>3
  <1>5. \A j \in S : ~(j[2] > i[2])
    <2> SUFFICES ASSUME NEW j \in S, j[2] > i[2] PROVE FALSE
      OBVIOUS
    <2>1. B - j[2] \in D /\ B - j[2] \in Nat /\ x \in Nat
      BY <1>2, <1>3
    <2>2. B - j[2] < x
      BY <1>4
    <2>3. <<B - j[2], x>> \in Less
      BY <2>1, <2>2 DEF Less
    <2> QED BY <1>3, <2>1, <2>3
  <1> QED BY <1>5

LEMMA NewestOne ==
    ASSUME NEW S, IsFiniteSet(S)
    PROVE  Newest(S, 1) = {i \in S : \A j \in S : ~(j[2] > i[2])}
  <1> SUFFICES ASSUME NEW i \in S
               PROVE  Cardinality({j \in S : j[2] > i[2]}) < 1 <=> \A j \in S : ~(j[2] > i[2])
    BY DEF Newest
  <1> DEFINE A == {j \in S : j[2] > i[2]}
  <1>1. IsFiniteSet(A)
    BY FS_Subset
  <1>2. Cardinality(A) \in Nat /\ (Cardinality(A) = 0 <=> A = {})
    BY <1>1, FS_CardinalityType, FS_EmptySet
  <1>3. A = {} <=> \A j \in S : ~(j[2] > i[2])
    OBVIOUS
  <1> HIDE DEF A
  <1>4. Cardinality(A) < 1 <=> A = {}
    BY <1>2
  <1> QED BY <1>3, <1>4 DEF A

\* Two rows or fewer are all among the two newest.
LEMMA NewestFew ==
    ASSUME NEW S, IsFiniteSet(S), Cardinality(S) <= 2, NEW B \in Nat, \A i \in S : i[2] \in 1 .. B
    PROVE  Newest(S, 2) = S
  <1> SUFFICES ASSUME NEW i \in S PROVE Cardinality({j \in S : j[2] > i[2]}) < 2
    BY DEF Newest
  <1> DEFINE A == {j \in S : j[2] > i[2]}
  <1>1. A \subseteq S \ {i}
    OBVIOUS
  <1>2. IsFiniteSet(S \ {i}) /\ Cardinality(S \ {i}) = Cardinality(S) - 1
    BY FS_RemoveElement
  <1>3. IsFiniteSet(A) /\ Cardinality(A) <= Cardinality(S \ {i})
    BY <1>1, <1>2, FS_Subset
  <1>4. Cardinality(A) \in Nat /\ Cardinality(S) \in Nat
    BY <1>3, FS_CardinalityType
  <1> HIDE DEF A
  <1>5. Cardinality(A) < 2
    BY <1>2, <1>3, <1>4
  <1> QED BY <1>5 DEF A

\* The newest of all the newest is the newest of all.
LEMMA NewestOfAny ==
    ASSUME NEW L, IsFiniteSet(L), NEW B \in Nat, \A i \in L : i[2] \in 1 .. B,
           NEW f
    PROVE  Newest(UNION {Newest(L \cap f[d], 1) : d \in DOMAIN f}, 1)
             = Newest({i \in L : \E d \in DOMAIN f : i \in f[d]}, 1)
  <1> DEFINE U == {i \in L : \E d \in DOMAIN f : i \in f[d]}
             V == UNION {Newest(L \cap f[d], 1) : d \in DOMAIN f}
  <1>1. \A d \in DOMAIN f : Newest(L \cap f[d], 1)
                              = {i \in L \cap f[d] : \A j \in L \cap f[d] : ~(j[2] > i[2])}
    <2> SUFFICES ASSUME NEW d \in DOMAIN f
                 PROVE  Newest(L \cap f[d], 1)
                          = {i \in L \cap f[d] : \A j \in L \cap f[d] : ~(j[2] > i[2])}
      OBVIOUS
    <2>1. IsFiniteSet(L \cap f[d])
      BY FS_Subset
    <2> QED BY <2>1, NewestOne
  <1>2. V \subseteq U
    <2> SUFFICES ASSUME NEW d \in DOMAIN f, NEW i \in Newest(L \cap f[d], 1) PROVE i \in U
      OBVIOUS
    <2>1. i \in L \cap f[d]
      BY <1>1
    <2> QED BY <2>1
  <1>3. \A i \in U : (\A j \in U : ~(j[2] > i[2])) => i \in V
    <2> SUFFICES ASSUME NEW i \in U, \A j \in U : ~(j[2] > i[2]) PROVE i \in V
      OBVIOUS
    <2>1. PICK d \in DOMAIN f : i \in L \cap f[d]
      OBVIOUS
    <2>2. L \cap f[d] \subseteq U
      OBVIOUS
    <2>3. i \in Newest(L \cap f[d], 1)
      <3> HIDE DEF U
      <3> QED BY <1>1, <2>1, <2>2
    <2> QED BY <2>3
  <1>4. \A j \in U : \E m \in V : ~(j[2] > m[2])
    <2> SUFFICES ASSUME NEW j \in U PROVE \E m \in V : ~(j[2] > m[2])
      OBVIOUS
    <2>1. PICK d \in DOMAIN f : j \in L \cap f[d]
      OBVIOUS
    <2>2. PICK m \in L \cap f[d] : \A l \in L \cap f[d] : ~(l[2] > m[2])
      <3>1. L \cap f[d] # {} /\ \A i \in L \cap f[d] : i[2] \in 1 .. B
        BY <2>1
      <3> QED BY <3>1, SomeLast
    <2>3. m \in V
      BY <1>1, <2>2
    <2> QED BY <2>1, <2>2, <2>3
  <1>5. IsFiniteSet(U) /\ IsFiniteSet(V) /\ \A i \in U : i[2] \in 1 .. B
    <2>1. U \subseteq L /\ V \subseteq L
      BY <1>2
    <2> HIDE DEF U, V
    <2> QED BY <2>1, FS_Subset
  <1> HIDE DEF U, V
  <1>6. /\ Newest(U, 1) = {i \in U : \A j \in U : ~(j[2] > i[2])}
        /\ Newest(V, 1) = {i \in V : \A j \in V : ~(j[2] > i[2])}
    BY <1>5, NewestOne
  <1>7. Newest(U, 1) \subseteq Newest(V, 1)
    BY <1>2, <1>3, <1>6
  <1>8. Newest(V, 1) \subseteq Newest(U, 1)
    <2> SUFFICES ASSUME NEW i \in V, \A j \in V : ~(j[2] > i[2]), NEW j \in U, j[2] > i[2]
                 PROVE  FALSE
      BY <1>2, <1>6
    <2>1. PICK m \in V : ~(j[2] > m[2])
      BY <1>4
    <2>2. i[2] \in Nat /\ j[2] \in Nat /\ m[2] \in Nat
      BY <1>2, <1>5, <2>1
    <2> QED BY <2>1, <2>2
  <1> QED BY <1>7, <1>8 DEF U, V

\* There are finitely many rows of a kind.
LEMMA RowsAreFew ==
    ASSUME Tables, NEW k \in Kinds, NEW w
    PROVE  /\ IsFiniteSet(LivingOf(k, w)) /\ MaxOf[k] \in Nat
           /\ \A i \in LivingOf(k, w) : i[2] \in 1 .. MaxOf[k]
  <1>1. PICK n \in 0 .. MaxOf[k] : {i \in DOMAIN items : i[1] = k} = {<<k, m>> : m \in 1 .. n}
    BY DEF Tables, Numbered
  <1> DEFINE S == {<<k, m>> : m \in 1 .. n}
             f == [m \in 1 .. n |-> <<k, m>>]
  <1>2. MaxOf[k] \in Nat /\ n \in Nat
    BY <1>1, KnowledgeSizes DEF Kinds
  <1>3. f \in Bijection(1 .. n, S)
    BY DEF Bijection, Injection, Surjection, IsInjective
  <1>4. IsFiniteSet(S)
    <2>1. IsFiniteSet(1 .. n) /\ f \in Surjection(1 .. n, S)
      BY <1>2, <1>3, FS_Interval DEF Bijection
    <2> HIDE DEF S, f
    <2> QED BY <2>1, FS_Surjection
  <1>5. LivingOf(k, w) \subseteq S
    BY <1>1 DEF LivingOf
  <1>6. \A i \in S : i[2] \in 1 .. MaxOf[k]
    BY <1>2
  <1>7. IsFiniteSet(LivingOf(k, w))
    <2> HIDE DEF S
    <2> QED BY <1>4, <1>5, FS_Subset
  <1> QED BY <1>2, <1>5, <1>6, <1>7

\* The sets of a list
Given(F) == {F[x] : x \in DOMAIN F}

\* A search by filters: nothing is lost to the limit of a filter, unless the first of
\* several leaves more than it may.
LEMMA FiltersAreRight ==
    ASSUME Tables, NEW k \in Kinds, NEW w, NEW n \in Nat \ {0}, NEW F, DOMAIN F = 1 .. n,
           Head(F) = F[1]
    PROVE  /\ FindAny(k, w, F, 1) = Newest(Asked(k, w, Given(F), FALSE), 1)
           /\ Cardinality(LivingOf(k, w) \cap F[1]) <= 2
                => FindAll(k, w, F, 1) = Newest(Asked(k, w, Given(F), TRUE), 1)
  <1> DEFINE L == LivingOf(k, w)
             G == Given(F)
  <1>0. /\ IsFiniteSet(L) /\ MaxOf[k] \in Nat /\ \A i \in L : i[2] \in 1 .. MaxOf[k]
    BY RowsAreFew
  <1>1. G # {}
    <2>1. 1 \in DOMAIN F
      OBVIOUS
    <2> QED BY <2>1 DEF Given
  <1>2. Asked(k, w, G, FALSE) = {i \in L : \E x \in DOMAIN F : i \in F[x]}
    BY <1>1 DEF Asked, Given
  <1>3. Asked(k, w, G, TRUE) = {i \in L : \A x \in DOMAIN F : i \in F[x]}
    BY <1>1 DEF Asked, Given
  <1> HIDE DEF L
  <1>4. FindAny(k, w, F, 1) = Newest({i \in L : \E x \in DOMAIN F : i \in F[x]}, 1)
    <2>1. FindAny(k, w, F, 1) = Newest(UNION {Newest(L \cap F[x], 1) : x \in DOMAIN F}, 1)
      BY DEF FindAny, Search, L
    <2> QED BY <1>0, <2>1, NewestOfAny
  <1>5. ASSUME Cardinality(L \cap F[1]) <= 2
        PROVE  FindAll(k, w, F, 1) = Newest({i \in L : \A x \in DOMAIN F : i \in F[x]}, 1)
    <2>1. Search(k, w, Head(F), 2 * 1) = L \cap F[1]
      <3>1. IsFiniteSet(L \cap F[1]) /\ \A i \in L \cap F[1] : i[2] \in 1 .. MaxOf[k]
        BY <1>0, FS_Subset
      <3>2. Newest(L \cap F[1], 2) = L \cap F[1]
        BY <1>0, <1>5, <3>1, NewestFew
      <3> QED BY <3>2 DEF Search, L
    <2>2. {i \in L \cap F[1] : \A x \in DOMAIN F : i \in F[x]} = {i \in L : \A x \in DOMAIN F : i \in F[x]}
      OBVIOUS
    <2> QED BY <2>1, <2>2 DEF FindAll
  <1> QED BY <1>2, <1>3, <1>4, <1>5 DEF L

LEMMA ShortLists ==
    ASSUME NEW S, NEW s \in UpTo2(S)
    PROVE  s \in Seq(S) /\ Len(s) \in Nat /\ DOMAIN s = 1 .. Len(s)
  <1>1. s \in Seq(S)
    <2>1. CASE s = <<>>
      BY <2>1
    <2>2. CASE \E a \in S : s = <<a>>
      BY <2>2
    <2>3. CASE \E a, b \in S : s = <<a, b>>
      BY <2>3
    <2> QED BY <2>1, <2>2, <2>3 DEF UpTo2
  <1> QED BY <1>1

\* The filters of a query, first those by entity, then those by tag.
Filters(E, T) == [x \in DOMAIN E |-> Linked(E[x])] \o [x \in DOMAIN T |-> Labelled(T[x])]

LEMMA FiltersAre ==
    ASSUME NEW R, NEW Q, NEW E \in UpTo2(R), NEW T \in UpTo2(Q)
    PROVE  /\ Filters(E, T) = [x \in 1 .. Len(E) + Len(T) |->
                                 IF x <= Len(E) THEN Linked(E[x]) ELSE Labelled(T[x - Len(E)])]
           /\ Len(E) + Len(T) \in Nat
           /\ DOMAIN Filters(E, T) = 1 .. Len(E) + Len(T)
           /\ Filters(E, T) = <<>> <=> Len(E) + Len(T) = 0
           /\ Len(E) + Len(T) > 0 => Head(Filters(E, T)) = Filters(E, T)[1]
  <1> DEFINE e == [x \in DOMAIN E |-> Linked(E[x])]
             t == [x \in DOMAIN T |-> Labelled(T[x])]
             F == e \o t
             n == Len(E) + Len(T)
  <1>1. /\ Len(E) \in Nat /\ DOMAIN E = 1 .. Len(E)
        /\ Len(T) \in Nat /\ DOMAIN T = 1 .. Len(T)
    BY ShortLists
  <1>2. /\ e \in Seq(SUBSET DOMAIN items) /\ Len(e) = Len(E) /\ DOMAIN e = 1 .. Len(E)
        /\ t \in Seq(SUBSET DOMAIN items) /\ Len(t) = Len(T) /\ DOMAIN t = 1 .. Len(T)
    BY <1>1 DEF Linked, Labelled
  <1>3. \A x \in 1 .. Len(E) : e[x] = Linked(E[x])
    BY <1>1
  <1>4. \A x \in 1 .. Len(T) : t[x] = Labelled(T[x])
    BY <1>1
  <1> HIDE DEF e, t
  <1>5. /\ F \in Seq(SUBSET DOMAIN items) /\ Len(F) = n /\ DOMAIN F = 1 .. n
        /\ \A x \in 1 .. n : F[x] = IF x <= Len(E) THEN e[x] ELSE t[x - Len(E)]
    BY <1>1, <1>2
  <1>6. F = [x \in 1 .. n |-> IF x <= Len(E) THEN Linked(E[x]) ELSE Labelled(T[x - Len(E)])]
    <2>1. F = [x \in 1 .. n |-> F[x]]
      <3> HIDE DEF F, n
      <3>1. PICK m \in Nat : F \in [1 .. m -> SUBSET DOMAIN items]
        BY <1>5
      <3>2. F \in [1 .. n -> SUBSET DOMAIN items]
        BY <1>5, <3>1
      <3> QED BY <3>2
    <2>2. \A x \in 1 .. n : F[x] = IF x <= Len(E) THEN Linked(E[x]) ELSE Labelled(T[x - Len(E)])
      <3> SUFFICES ASSUME NEW x \in 1 .. n
                   PROVE  F[x] = IF x <= Len(E) THEN Linked(E[x]) ELSE Labelled(T[x - Len(E)])
        OBVIOUS
      <3>1. CASE x <= Len(E)
        <4>1. x \in 1 .. Len(E) /\ F[x] = e[x]
          BY <1>1, <1>5, <3>1
        <4> HIDE DEF F
        <4> QED BY <1>3, <3>1, <4>1
      <3>2. CASE ~(x <= Len(E))
        <4>1. x - Len(E) \in 1 .. Len(T) /\ F[x] = t[x - Len(E)]
          BY <1>1, <1>5, <3>2
        <4> HIDE DEF F
        <4> QED BY <1>4, <3>2, <4>1
      <3> QED BY <3>1, <3>2
    <2> HIDE DEF F
    <2> QED BY <2>1, <2>2
  <1>7. F = Filters(E, T)
    BY DEF e, t, Filters
  <1>8. (F = <<>> <=> n = 0) /\ (n > 0 => Head(F) = F[1]) /\ n \in Nat
    BY <1>1, <1>5
  <1> HIDE DEF F
  <1> QED BY <1>5, <1>6, <1>7, <1>8

\* The first of all filters leaves no more than it may.
Spares(k, w, F, every) ==
    every => F = <<>> \/ Cardinality(LivingOf(k, w) \cap F[1]) <= 2

LEMMA SearchFinds ==
    ASSUME Tables, NEW k \in Kinds, NEW w, NEW every \in BOOLEAN,
           NEW R, NEW Q, NEW E \in UpTo2(R), NEW T \in UpTo2(Q),
           Spares(k, w, Filters(E, T), every)
    PROVE  Find(k, w, E, T, every, 1)
             = Newest(Asked(k, w, Given(Filters(E, T)), every), 1)
  <1> DEFINE F == Filters(E, T)
             n == Len(E) + Len(T)
  <1>1. /\ F = [x \in 1 .. n |-> IF x <= Len(E) THEN Linked(E[x]) ELSE Labelled(T[x - Len(E)])]
        /\ n \in Nat /\ DOMAIN F = 1 .. n /\ (F = <<>> <=> n = 0) /\ (n > 0 => Head(F) = F[1])
    BY FiltersAre
  <1>2. Find(k, w, E, T, every, 1) = IF F = <<>> THEN Search(k, w, DOMAIN items, 1)
                                     ELSE IF every THEN FindAll(k, w, F, 1)
                                     ELSE FindAny(k, w, F, 1)
    BY <1>1 DEF Find
  <1>5. every => F = <<>> \/ Cardinality(LivingOf(k, w) \cap F[1]) <= 2
    BY DEF Spares
  <1>6. F = Filters(E, T)
    OBVIOUS
  <1> HIDE DEF F, n
  <1> SUFFICES Find(k, w, E, T, every, 1) = Newest(Asked(k, w, Given(F), every), 1)
    BY <1>6
  <1>3. CASE n = 0
    <2>1. Given(F) = {}
      BY <1>1, <1>3 DEF Given
    <2>2. Asked(k, w, {}, every) = LivingOf(k, w)
      BY DEF Asked
    <2>3. LivingOf(k, w) \cap DOMAIN items = LivingOf(k, w)
      BY DEF LivingOf
    <2> QED BY <1>1, <1>2, <1>3, <2>1, <2>2, <2>3 DEF Search
  <1>4. CASE n > 0
    <2>1. /\ FindAny(k, w, F, 1) = Newest(Asked(k, w, Given(F), FALSE), 1)
          /\ Cardinality(LivingOf(k, w) \cap F[1]) <= 2
               => FindAll(k, w, F, 1) = Newest(Asked(k, w, Given(F), TRUE), 1)
      <3>1. n \in Nat \ {0} /\ DOMAIN F = 1 .. n /\ Head(F) = F[1]
        BY <1>1, <1>4
      <3> QED BY <3>1, FiltersAreRight
    <2>2. F # <<>>
      BY <1>1, <1>4
    <2>3. CASE every
      BY <1>2, <1>5, <2>1, <2>2, <2>3
    <2>4. CASE ~every
      BY <1>2, <2>1, <2>2, <2>4
    <2> QED BY <2>3, <2>4
  <1> QED BY <1>1, <1>3, <1>4

-----------------------------------------------------------------------------
(* Theorems *)

LEMMA AlwaysInv == Spec => []Inv
  BY InvInit, InvStep, PTL DEF Spec

\* The tables hold rows, links and labels of the types they are declared with, for
\* any workspaces, names and bounds (database.py, _init_workspace_tables).
THEOREM TypeCorrect == Spec => []TypeOK
  <1>1. Inv => TypeOK
    BY DEF Inv, Tables
  <1> QED BY <1>1, AlwaysInv, PTL

\* engine.py on delete_milestone: no ghost references, wherever an operation is cut
\* off, and no link that leaves its workspace.
THEOREM NoGhostReferences == Spec => []NoGhosts
  <1>1. Inv => NoGhosts
    BY DEF Inv, Tables, LinksHold
  <1> QED BY <1>1, AlwaysInv, PTL

\* Every operation of engine.py, however its chain of transactions is cut, takes whole
\* steps of KnowledgePromise: the refinement, for all constants.
THEOREM EngineKeepsPromise == Spec => PromiseKept
  <1>1. Init => Promise!Init
    BY InvInit
  <1>2. Inv /\ [Next]_vars => [Promise!Next]_(Promise!vars)
    BY InvStep DEF PromiseStep
  <1> QED BY <1>1, <1>2, AlwaysInv, PTL DEF Spec, PromiseKept, Promise!Spec

\* events.py: the timeline can be replayed.  But for one item for each fault, the last
\* event recorded of an item, or the one about to be recorded, says what the item is.
THEOREM TimelineIsTrue == Spec => []StoryHolds
  <1>1. StoryInv => StoryHolds
    BY DEF StoryInv, StoryHolds, Missing
  <1> QED BY <1>1, AlwaysInv, StoryInit, StoryStep, PTL DEF Spec

\* service.py, search_notes and search_media: for any rows, links and labels a query
\* by entities and tags finds the newest living row that has all, or any, of them; with
\* "and" as long as the first filter alone does not fill twice the limit.
THEOREM SearchFindsNewest == Spec => []SearchIsRight
  <1>1. Inv => SearchIsRight
    <2> SUFFICES ASSUME Inv, NEW w \in Spaces, NEW every \in BOOLEAN,
                        NEW E \in UpTo2({e \in DOMAIN items : e[1] = "entity"}),
                        NEW T \in UpTo2({t \in DOMAIN tags : tags[t].ws = w})
                 PROVE  LET F == [x \in DOMAIN E |-> Linked(E[x])] \o [x \in DOMAIN T |-> Labelled(T[x])]
                            Spared(k) == F = <<>> \/ Cardinality(LivingOf(k, w) \cap F[1]) <= 2
                            Right(k) == Newest(Asked(k, w, {F[x] : x \in DOMAIN F}, every), 1)
                        IN /\ (every => Spared("note")) => FindNotes(w, E, T, every, 1) = Right("note")
                           /\ (every => Spared("media")) => FindMedia(w, E, T, every, 1) = Right("media")
      BY DEF SearchIsRight
    <2>1. Tables /\ "note" \in Kinds /\ "media" \in Kinds
      BY DEF Inv, Kinds
    <2> DEFINE Spared(k) == \/ Filters(E, T) = <<>>
                            \/ Cardinality(LivingOf(k, w) \cap Filters(E, T)[1]) <= 2
               Right(k) == Newest(Asked(k, w, Given(Filters(E, T)), every), 1)
    <2>2. \A k \in Kinds : (every => Spared(k)) => Find(k, w, E, T, every, 1) = Right(k)
      <3> SUFFICES ASSUME NEW k \in Kinds, every => Spared(k)
                   PROVE  Find(k, w, E, T, every, 1) = Right(k)
        OBVIOUS
      <3> DEFINE R == {e \in DOMAIN items : e[1] = "entity"}
                 Q == {t \in DOMAIN tags : tags[t].ws = w}
      <3>1. E \in UpTo2(R) /\ T \in UpTo2(Q)
        OBVIOUS
      <3>2. Spares(k, w, Filters(E, T), every)
        BY DEF Spares
      <3> HIDE DEF R, Q, Right, Spared
      <3>3. Tables /\ k \in Kinds /\ every \in BOOLEAN
        BY <2>1
      <3>4. Find(k, w, E, T, every, 1) = Newest(Asked(k, w, Given(Filters(E, T)), every), 1)
        BY <3>1, <3>2, <3>3, SearchFinds
      <3> QED BY <3>4 DEF Right
    <2>3. /\ (every => Spared("note")) => FindNotes(w, E, T, every, 1) = Right("note")
          /\ (every => Spared("media")) => FindMedia(w, E, T, every, 1) = Right("media")
      BY <2>1, <2>2 DEF FindNotes, FindMedia
    <2> QED BY <2>3 DEF Filters, Given
  <1> QED BY <1>1, AlwaysInv, PTL
=============================================================================
