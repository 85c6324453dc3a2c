---------------------------- MODULE TopicsProofs ----------------------------
(***************************************************************************)
(* No topic without a row and no row without its topic but for a fault     *)
(* that was paid for, each topic with its own entity, a repair that heals, *)
(* and no deleted entity in use: for any chats, names, templates and       *)
(* numbers of workspaces, entities, topics, faults and resets.             *)
(***************************************************************************)
EXTENDS Topics, FiniteSetTheorems, TLAPS

Todo == handler.todo

SeedSteps == [do : {"seed"}, ws : WsIds, name : Names, quiet : {FALSE}]
OpenSteps == [do : {"activate"}, ws : WsIds, ent : EntityIds \cup {None}, quiet : {FALSE}]
CallSteps == [do : {"ensure", "deactivate", "delete", "unbind"}, ws : WsIds, ent : EntityIds, quiet : BOOLEAN]
BindSteps == [do : {"bind"}, ent : EntityIds, topic : TopicIds, quiet : BOOLEAN]
Steps == SeedSteps \cup OpenSteps \cup CallSteps \cup BindSteps

RowTypes ==
    /\ nextWs \in 1 .. MaxWorkspaces + 1 /\ DOMAIN workspaces = 1 .. nextWs - 1
    /\ \A w \in DOMAIN workspaces : workspaces[w] \in {"active", "shelved"}
    /\ nextEnt \in 1 .. MaxEntities + 1 /\ DOMAIN entities = 1 .. nextEnt - 1
    /\ \A e \in DOMAIN entities : entities[e] \in Milestone
    /\ born \in 0 .. MaxEntities /\ nextEnt - 1 <= born

LinkTypes ==
    /\ DOMAIN group \subseteq WsIds /\ \A w \in DOMAIN group : group[w] \in Chats
    /\ DOMAIN bound \subseteq EntityIds
    /\ \A e \in DOMAIN bound : bound[e] \in [topic : DOMAIN forum, locked : BOOLEAN]

Topic == [chat : Chats, birth : EntityIds \cup {None}, live : BOOLEAN]

ForumTypes ==
    /\ \E n \in 0 .. MaxTopics : DOMAIN forum = 1 .. n
    /\ \A t \in DOMAIN forum : forum[t] \in Topic

ActiveType == active \in [ws : WsIds \cup {None}, ent : EntityIds \cup {None}]

HandlerType == handler \in [doing : {"other", "repair"}, todo : Seq(Steps)]

Counters == slips \in Nat /\ hands \in Nat /\ resets \in Nat

Typed == RowTypes /\ LinkTypes /\ ForumTypes /\ ActiveType /\ HandlerType /\ Counters

\* A topic is bound right after it was made, to an entity that has none.
Binding ==
    /\ \A i \in 1 .. Len(Todo) : Todo[i].do = "bind" => i = 1
    /\ At("bind") => /\ Next1.ent \notin DOMAIN bound
                     /\ Next1.topic \in DOMAIN forum /\ Next1.topic \notin Bindings
    /\ \A e, f \in DOMAIN bound : bound[e].topic = bound[f].topic => e = f

\* A row goes only after its topic.
Deleting ==
    \A i \in 1 .. Len(Todo) : Todo[i].do \in {"delete", "unbind"} =>
        /\ handler.doing = "other" /\ ~Todo[i].quiet
        /\ Todo[i].ent \in DOMAIN bound /\ Todo[i].ws \in DOMAIN group
        /\ Todo[i].do = "delete" => /\ i = 1 /\ Len(Todo) = 2 /\ Todo[2].do = "unbind"
                                    /\ Todo[2].ent = Todo[1].ent
        /\ Todo[i].do = "unbind" => \/ i = 2 /\ Len(Todo) = 2 /\ Todo[1].do = "delete"
                                    \/ i = 1 /\ Len(Todo) = 1 /\ ~forum[bound[Todo[i].ent].topic].live

\* the rows whose topic is gone, and the row to come of a topic that is gone
DeadRows ==
    {e \in DOMAIN bound : ~forum[bound[e].topic].live /\ ~(At("unbind") /\ Next1.ent = e)}
      \cup (IF At("bind") /\ ~forum[Next1.topic].live THEN {Next1.ent} ELSE {})

Dead == Cardinality(DeadRows) <= slips + hands

\* Before a reset the handlers know only entities that exist.
Known ==
    resets = 0 =>
        /\ active.ent \in DOMAIN entities \cup {None}
        /\ DOMAIN bound \subseteq DOMAIN entities
        /\ \A i \in 1 .. Len(Todo) : Todo[i].do # "seed" =>
              Todo[i].ent \in DOMAIN entities \/ (Todo[i].do = "activate" /\ Todo[i].ent = None)
        /\ At("bind") => forum[Next1.topic].birth = BirthOf(Next1.ent)

\* what a handler opens is there, and what is deleted is closed next
Closing ==
    /\ active.ws = None => active.ent = None
    /\ \A i \in 1 .. Len(Todo) : Todo[i].do = "activate" /\ Todo[i].ent \in DOMAIN entities
            => entities[Todo[i].ent].gone # "deleted"
    /\ slips = 0 /\ active.ent \in DOMAIN entities /\ entities[active.ent].gone = "deleted"
            => At("deactivate") /\ Next1.ent = active.ent

\* What a repair has not done yet it still holds.
Repairing ==
    handler.doing = "repair" =>
        /\ \A i \in 1 .. Len(Todo) : Todo[i].do \in {"ensure", "bind"}
        /\ \A w \in Mirrored : \A e \in Canonical(w) :
              \/ e \in DOMAIN bound
              \/ \E i \in 1 .. Len(Todo) : Todo[i].ent = e /\ (Todo[i].do = "ensure" => Todo[i].ws = w)

Inv == Typed /\ Binding /\ Deleting /\ OrphansPaidFor /\ Dead /\ Known /\ TopicBelongs /\ Closing /\ Repairing

-----------------------------------------------------------------------------
(* Steps and handlers *)

CallDos == {"ensure", "deactivate", "delete", "unbind"}

LEMMA StepIs ==
    ASSUME NEW x \in Steps
    PROVE  /\ x.do \in CallDos \cup {"seed", "activate", "bind"} /\ x.quiet \in BOOLEAN
           /\ x.do = "seed" => x.ws \in WsIds /\ x.name \in Names /\ ~x.quiet
           /\ x.do = "activate" => x.ws \in WsIds /\ x.ent \in EntityIds \cup {None} /\ ~x.quiet
           /\ x.do = "bind" => x.ent \in EntityIds /\ x.topic \in TopicIds
           /\ x.do \in CallDos => x.ws \in WsIds /\ x.ent \in EntityIds
  BY DEF Steps, SeedSteps, OpenSteps, CallSteps, BindSteps, CallDos

LEMMA SeqIs ==
    ASSUME NEW s \in Seq(Steps)
    PROVE  /\ Len(s) \in Nat /\ \A i \in 1 .. Len(s) : s[i] \in Steps
           /\ s = <<>> <=> Len(s) = 0
           /\ s # <<>> => /\ Head(s) = s[1] /\ Tail(s) \in Seq(Steps) /\ Len(Tail(s)) = Len(s) - 1
                          /\ \A i \in 1 .. Len(Tail(s)) : Tail(s)[i] = s[i + 1]
  OBVIOUS

LEMMA EmptySeq == <<>> \in Seq(Steps) /\ Len(<<>>) = 0
  OBVIOUS

LEMMA OneSeq == ASSUME NEW x \in Steps PROVE <<x>> \in Seq(Steps) /\ Len(<<x>>) = 1 /\ <<x>>[1] = x
  OBVIOUS

LEMMA TwoSeq ==
    ASSUME NEW x \in Steps, NEW y \in Steps
    PROVE  <<x, y>> \in Seq(Steps) /\ Len(<<x, y>>) = 2 /\ <<x, y>>[1] = x /\ <<x, y>>[2] = y
  OBVIOUS

LEMMA TodoIs ==
    ASSUME Typed
    PROVE  /\ Todo \in Seq(Steps) /\ Len(Todo) \in Nat /\ \A i \in 1 .. Len(Todo) : Todo[i] \in Steps
           /\ handler.doing \in {"other", "repair"}
           /\ Idle <=> Len(Todo) = 0
           /\ ~Idle => 1 \in 1 .. Len(Todo) /\ Next1 = Todo[1] /\ Next1 \in Steps
  <1>1. Todo \in Seq(Steps) /\ handler.doing \in {"other", "repair"}
    BY DEF Typed, HandlerType, Todo
  <1> QED BY <1>1, SeqIs DEF Idle, Next1, Todo

LEMMA TailOfTwo == ASSUME NEW s \in Seq(Steps), Len(s) = 2 PROVE Len(Tail(s)) = 1 /\ Tail(s)[1] = s[2]
  OBVIOUS

\* What a step of a handler can be.
LEMMA CallStep ==
    ASSUME NEW do \in CallDos, NEW w \in WsIds, NEW e \in EntityIds
    PROVE  /\ Step(do, w, e) \in Steps
           /\ Step(do, w, e).do = do /\ Step(do, w, e).ws = w /\ Step(do, w, e).ent = e /\ ~Step(do, w, e).quiet
           /\ Quietly(do, w, e) \in Steps
           /\ Quietly(do, w, e).do = do /\ Quietly(do, w, e).ws = w /\ Quietly(do, w, e).ent = e
  <1>1. /\ Step(do, w, e) \in CallSteps
        /\ Step(do, w, e).do = do /\ Step(do, w, e).ws = w /\ Step(do, w, e).ent = e /\ ~Step(do, w, e).quiet
    BY DEF Step, CallSteps, CallDos
  <1>2. /\ Quietly(do, w, e) \in CallSteps
        /\ Quietly(do, w, e).do = do /\ Quietly(do, w, e).ws = w /\ Quietly(do, w, e).ent = e
    BY <1>1 DEF Quietly, CallSteps
  <1> QED BY <1>1, <1>2 DEF Steps

LEMMA OpenStep ==
    ASSUME NEW w \in WsIds, NEW e \in EntityIds \cup {None}
    PROVE  /\ Step("activate", w, e) \in Steps
           /\ Step("activate", w, e).do = "activate" /\ Step("activate", w, e).ws = w
           /\ Step("activate", w, e).ent = e /\ ~Step("activate", w, e).quiet
  BY DEF Step, OpenSteps, Steps

LEMMA SeedIs ==
    ASSUME NEW w \in WsIds, NEW n \in Names
    PROVE  Seed(w, n) \in SeedSteps /\ Seed(w, n) \in Steps /\ Seed(w, n).do = "seed"
  BY DEF Seed, SeedSteps, Steps

\* The handler goes on with the next step, or ends.
Shorter ==
    /\ Todo' = <<>> \/ (Todo # <<>> /\ Todo' = Tail(Todo))
    /\ handler'.doing \in {handler.doing, "other"}
    /\ handler' \in [doing : {"other", "repair"}, todo : Seq(Steps)]

LEMMA ShorterIs ==
    ASSUME Typed, Shorter
    PROVE  /\ Todo' \in Seq(Steps) /\ Len(Todo') \in Nat
           /\ \/ Len(Todo') = 0
              \/ Len(Todo') = Len(Todo) - 1 /\ \A i \in 1 .. Len(Todo') : Todo'[i] = Todo[i + 1] /\ i + 1 \in 1 .. Len(Todo)
  <1>1. Todo \in Seq(Steps)
    BY TodoIs
  <1>2. CASE Todo' = <<>>
    BY <1>2, EmptySeq
  <1>3. CASE Todo # <<>> /\ Todo' = Tail(Todo)
    BY <1>1, <1>3, SeqIs
  <1> QED BY <1>2, <1>3 DEF Shorter

LEMMA GoesOn ==
    ASSUME Typed, ~Idle, Advance \/ Raise \/ handler' = [doing |-> "other", todo |-> <<>>]
    PROVE  Shorter /\ (Advance => handler'.doing = handler.doing /\ Todo' = Tail(Todo))
                   /\ (~Advance => handler'.doing = "other") 
  <1>1. Todo \in Seq(Steps) /\ Todo # <<>> /\ handler \in [doing : {"other", "repair"}, todo : Seq(Steps)]
    BY DEF Typed, HandlerType, Idle, Todo
  <1>2. Tail(Todo) \in Seq(Steps) /\ <<>> \in Seq(Steps)
    BY <1>1, SeqIs, EmptySeq
  <1>3. CASE Advance
    BY <1>1, <1>2, <1>3 DEF Advance, Shorter, Todo
  <1>4. CASE Raise \/ handler' = [doing |-> "other", todo |-> <<>>]
    <2>1. handler'.doing = "other" /\ Todo' \in {Tail(Todo), <<>>}
            /\ handler' = [doing |-> "other", todo |-> Todo']
      BY <1>4 DEF Raise, Todo
    <2>2. Advance => handler'.doing = handler.doing /\ Todo' = Tail(Todo)
      BY <1>1 DEF Advance, Todo
    <2> QED BY <1>1, <1>2, <2>1, <2>2 DEF Shorter
  <1> QED BY <1>3, <1>4

LEMMA BeginIs ==
    ASSUME NEW doing \in {"other", "repair"}, NEW steps \in Seq(Steps), Begin(doing, steps)
    PROVE  /\ Idle /\ handler' \in [doing : {"other", "repair"}, todo : Seq(Steps)]
           /\ handler'.doing = doing /\ Todo' = steps
  BY DEF Begin, Todo

-----------------------------------------------------------------------------
(* Types *)

LEMMA RowIs ==
    ASSUME Typed
    PROVE  /\ nextWs \in 1 .. MaxWorkspaces + 1 /\ nextEnt \in 1 .. MaxEntities + 1
           /\ DOMAIN workspaces = 1 .. nextWs - 1 /\ DOMAIN workspaces \subseteq WsIds
           /\ DOMAIN entities = 1 .. nextEnt - 1 /\ DOMAIN entities \subseteq EntityIds
           /\ \A e \in DOMAIN entities :
                 /\ entities[e] \in Milestone /\ entities[e].ws \in WsIds /\ entities[e].name \in Names
                 /\ entities[e].birth \in EntityIds /\ entities[e].order \in Nat
                 /\ entities[e].gone \in {"no", "archived", "dropped", "deleted"}
  <1> MaxWorkspaces \in Nat /\ MaxEntities \in Nat
    BY TopicSizes
  <1>1. \A e \in DOMAIN entities : entities[e] \in Milestone
    BY DEF Typed, RowTypes
  <1>2. /\ nextWs \in 1 .. MaxWorkspaces + 1 /\ nextEnt \in 1 .. MaxEntities + 1
        /\ DOMAIN workspaces = 1 .. nextWs - 1 /\ DOMAIN entities = 1 .. nextEnt - 1
    BY DEF Typed, RowTypes
  <1> QED BY <1>1, <1>2 DEF Milestone, WsIds, EntityIds

LEMMA ShownIs ==
    ASSUME Typed, NEW w
    PROVE  Shown(w) \subseteq DOMAIN entities /\ Cardinality(Shown(w)) \in Nat
  <1>1. Shown(w) \subseteq DOMAIN entities
    BY DEF Shown
  <1>2. IsFiniteSet(DOMAIN entities)
    <2>1. nextEnt - 1 \in Int /\ 1 \in Int
      BY RowIs, TopicSizes
    <2> QED BY <2>1, RowIs, FS_Interval
  <1> QED BY <1>1, <1>2, FS_Subset, FS_CardinalityType

\* A row is added, with the next id.
LEMMA InsertIs ==
    ASSUME Typed, NEW w \in WsIds, NEW n \in Names, Insert(w, n)
    PROVE  /\ nextEnt \in EntityIds /\ nextEnt \notin DOMAIN entities
           /\ DOMAIN entities' = DOMAIN entities \cup {nextEnt} /\ DOMAIN entities' = 1 .. nextEnt' - 1
           /\ \A e \in DOMAIN entities : entities'[e] = entities[e]
           /\ entities'[nextEnt] \in Milestone /\ entities'[nextEnt].gone = "no"
           /\ entities'[nextEnt].ws = w /\ entities'[nextEnt].name = n
           /\ nextEnt' = nextEnt + 1 /\ born' = born + 1 /\ born' \in 0 .. MaxEntities /\ nextEnt' - 1 <= born'
           /\ nextEnt' \in 1 .. MaxEntities + 1 /\ UNCHANGED <<workspaces, nextWs>>
  <1>1. born \in 0 .. MaxEntities /\ nextEnt - 1 <= born /\ MaxEntities \in Nat /\ born < MaxEntities
    BY TopicSizes DEF Typed, RowTypes, Insert
  <1>2. nextEnt \in EntityIds /\ nextEnt \notin DOMAIN entities /\ DOMAIN entities = 1 .. nextEnt - 1
    BY <1>1, RowIs DEF EntityIds
  <1> DEFINE row == [ws |-> w, name |-> n, order |-> Cardinality(Shown(w)), birth |-> born + 1, gone |-> "no"]
  <1>3. row \in Milestone
    BY <1>1, ShownIs DEF Milestone, EntityIds
  <1>4. row.gone = "no" /\ row.ws = w /\ row.name = n
    OBVIOUS
  <1>5. /\ entities' = Put(entities, nextEnt, row) /\ nextEnt' = nextEnt + 1 /\ born' = born + 1
        /\ UNCHANGED <<workspaces, nextWs>>
    BY DEF Insert
  <1> HIDE DEF row
  <1>6. /\ DOMAIN entities' = DOMAIN entities \cup {nextEnt} /\ entities'[nextEnt] = row
        /\ \A e \in DOMAIN entities : entities'[e] = entities[e]
    BY <1>2, <1>5 DEF Put
  <1> QED BY <1>1, <1>2, <1>3, <1>4, <1>5, <1>6 DEF EntityIds

-----------------------------------------------------------------------------
(* What a command begins *)

\* A command that deletes no topic: what its handler will open is shown, and what it
\* will do is about entities that exist, before a reset.
Begun ==
    /\ Idle /\ HandlerType'
    /\ \A i \in 1 .. Len(Todo') :
          /\ Todo'[i].do \in {"seed", "ensure", "activate", "deactivate"}
          /\ resets' = 0 /\ Todo'[i].do # "seed" =>
                Todo'[i].ent \in DOMAIN entities' \/ (Todo'[i].do = "activate" /\ Todo'[i].ent = None)
          /\ Todo'[i].do = "activate" /\ Todo'[i].ent # None =>
                Todo'[i].ent \in DOMAIN entities' /\ entities'[Todo'[i].ent].gone = "no"

LEMMA BegunEmpty ==
    ASSUME NEW doing \in {"other", "repair"}, Begin(doing, <<>>) PROVE Begun /\ Todo' = <<>> /\ handler'.doing = doing
  <1>1. Idle /\ HandlerType' /\ handler'.doing = doing /\ Todo' = <<>>
    BY EmptySeq, BeginIs DEF HandlerType
  <1> QED BY <1>1, EmptySeq DEF Begun

\* a handler of one step
LEMMA BegunOne ==
    ASSUME NEW x \in Steps, Begin("other", <<x>>),
           x.do \in {"ensure", "deactivate"}, resets' = 0 => x.ent \in DOMAIN entities'
    PROVE  Begun /\ handler'.doing = "other"
  <1>1. Idle /\ HandlerType' /\ handler'.doing = "other" /\ Todo' = <<x>>
    BY OneSeq, BeginIs DEF HandlerType
  <1>2. Len(Todo') = 1 /\ Todo'[1] = x
    BY <1>1, OneSeq
  <1> QED BY <1>1, <1>2 DEF Begun

\* a handler that opens an entity, and ensures its topic
LEMMA BegunTwo ==
    ASSUME NEW x \in Steps, NEW y \in Steps, Begin("other", <<x, y>>),
           \A z \in {x, y} : /\ z.do \in {"ensure", "activate"} /\ z.ent \in DOMAIN entities'
                             /\ entities'[z.ent].gone = "no"
    PROVE  Begun /\ handler'.doing = "other"
  <1>1. Idle /\ HandlerType' /\ handler'.doing = "other" /\ Todo' = <<x, y>>
    BY TwoSeq, BeginIs DEF HandlerType
  <1>2. Len(Todo') = 2 /\ Todo'[1] \in {x, y} /\ Todo'[2] \in {x, y}
    BY <1>1, TwoSeq
  <1>3. \A i \in 1 .. Len(Todo') : Todo'[i] \in {x, y}
    BY <1>2
  <1> QED BY <1>1, <1>3 DEF Begun

LEMMA NewWorkspaceBegun ==
    ASSUME Typed, NEW seeds \in {<<>>, Seeds}, NEW opens \in BOOLEAN, NewWorkspace(seeds, opens)
    PROVE  Begun /\ handler'.doing = "other"
  <1> DEFINE S == {Seed(nextWs, n) : n \in Names} \cup {Step("activate", nextWs, None)}
             first == [i \in DOMAIN seeds |-> Seed(nextWs, seeds[i])]
             last == IF opens THEN <<Step("activate", nextWs, None)>> ELSE <<>>
  <1>1. nextWs \in WsIds
    BY RowIs, TopicSizes DEF NewWorkspace, WsIds
  <1>2. S \subseteq Steps
    BY <1>1, SeedIs, OpenStep
  <1>3. first \in Seq(S)
    <2>1. seeds \in Seq(Names)
      <3>1. Seeds \in Seq(Names) /\ <<>> \in Seq(Names)
        BY TopicSizes
      <3> QED BY <3>1
    <2>2. Len(seeds) \in Nat /\ DOMAIN seeds = 1 .. Len(seeds) /\ \A i \in DOMAIN seeds : seeds[i] \in Names
      BY <2>1
    <2>3. first \in [1 .. Len(seeds) -> S]
      BY <2>2
    <2> QED BY <2>2, <2>3
  <1>4. last \in Seq(S)
    <2>1. Step("activate", nextWs, None) \in S
      OBVIOUS
    <2> HIDE DEF S
    <2> QED BY <2>1
  <1>5. \A x \in S : x.do = "seed" \/ (x.do = "activate" /\ x.ent = None)
    BY <1>1, SeedIs, OpenStep
  <1>6. Begin("other", first \o last)
    BY DEF NewWorkspace
  <1> HIDE DEF S, first, last
  <1>7. first \o last \in Seq(S)
    BY <1>3, <1>4
  <1>8. first \o last \in Seq(Steps)
    BY <1>2, <1>7
  <1>9. /\ Idle /\ handler' \in [doing : {"other", "repair"}, todo : Seq(Steps)]
        /\ handler'.doing = "other" /\ Todo' = first \o last
    BY <1>6, <1>8, BeginIs
  <1>10. \A i \in 1 .. Len(Todo') : Todo'[i] \in S
    BY <1>7, <1>9
  <1> QED BY <1>5, <1>9, <1>10 DEF Begun, HandlerType

LEMMA AddEntityBegun ==
    ASSUME Typed, NEW w \in DOMAIN workspaces, NEW n \in Names, AddEntity(w, n)
    PROVE  Begun /\ handler'.doing = "other"
  <1>1. w \in WsIds /\ Insert(w, n)
    BY RowIs DEF AddEntity
  <1>2. nextEnt \in EntityIds /\ nextEnt \in DOMAIN entities' /\ entities'[nextEnt].gone = "no"
    BY <1>1, InsertIs
  <1> DEFINE x == Step("ensure", w, nextEnt)
             y == Step("activate", w, nextEnt)
  <1>3. x \in Steps /\ y \in Steps /\ x.do = "ensure" /\ y.do = "activate" /\ x.ent = nextEnt /\ y.ent = nextEnt
    BY <1>1, <1>2, CallStep, OpenStep DEF CallDos
  <1>4. Begin("other", <<x, y>>)
    BY DEF AddEntity
  <1> HIDE DEF x, y
  <1> QED BY <1>2, <1>3, <1>4, BegunTwo

LEMMA NLCreateBegun ==
    ASSUME Typed, NEW n \in Names, NLCreate(n)
    PROVE  Begun /\ handler'.doing = "other"
  <1>1. active.ws \in WsIds /\ Insert(active.ws, n)
    BY RowIs DEF NLCreate
  <1>2. nextEnt \in EntityIds /\ nextEnt \in DOMAIN entities' /\ entities'[nextEnt].gone = "no"
    BY <1>1, InsertIs
  <1> DEFINE x == Step("activate", active.ws, nextEnt)
             y == Quietly("ensure", active.ws, nextEnt)
  <1>3. x \in Steps /\ y \in Steps /\ x.do = "activate" /\ y.do = "ensure" /\ x.ent = nextEnt /\ y.ent = nextEnt
    BY <1>1, <1>2, CallStep, OpenStep DEF CallDos
  <1>4. Begin("other", <<x, y>>)
    BY DEF NLCreate
  <1> HIDE DEF x, y
  <1> QED BY <1>2, <1>3, <1>4, BegunTwo

LEMMA AllShownIs ==
    ASSUME Typed, NEW e \in AllShown
    PROVE  /\ e \in DOMAIN entities /\ e \in EntityIds /\ entities[e].ws \in WsIds /\ entities[e].gone = "no"
           /\ e \in Shown(entities[e].ws)
  BY RowIs DEF AllShown, Shown

LEMMA AdoptKindBegun ==
    ASSUME Typed, NEW e \in AllShown, AdoptKind(e) PROVE Begun /\ handler'.doing = "other"
  <1> DEFINE x == Quietly("ensure", entities[e].ws, e)
  <1>1. e \in DOMAIN entities /\ x \in Steps /\ x.do = "ensure" /\ x.ent = e
    BY AllShownIs, CallStep DEF CallDos
  <1>2. Begin("other", <<x>>) /\ UNCHANGED <<entities, resets>>
    BY DEF AdoptKind, Handle, rows, faults
  <1> HIDE DEF x
  <1> QED BY <1>1, <1>2, BegunOne

LEMMA UpdateEntityBegun ==
    ASSUME Typed, NEW e \in AllShown, UpdateEntity(e) PROVE Begun /\ handler'.doing = "other"
  <1> DEFINE x == Step("activate", entities[e].ws, e)
             y == Quietly("ensure", entities[e].ws, e)
  <1>1. /\ e \in DOMAIN entities /\ entities[e].gone = "no"
        /\ x \in Steps /\ y \in Steps /\ x.do = "activate" /\ y.do = "ensure" /\ x.ent = e /\ y.ent = e
    BY AllShownIs, CallStep, OpenStep DEF CallDos
  <1>2. Begin("other", <<x, y>>) /\ UNCHANGED entities
    BY DEF UpdateEntity, Handle, rows
  <1> HIDE DEF x, y
  <1> QED BY <1>1, <1>2, BegunTwo

LEMMA LogProgressBegun ==
    ASSUME Typed, Known, LogProgress PROVE Begun /\ handler'.doing = "other"
  <1> DEFINE x == Step("ensure", active.ws, active.ent)
  <1>1. active.ws \in WsIds /\ active.ent \in EntityIds
    BY RowIs DEF LogProgress, Typed, ActiveType
  <1>2. x \in Steps /\ x.do = "ensure" /\ x.ent = active.ent
    BY <1>1, CallStep DEF CallDos
  <1>3. Begin("other", <<x>>) /\ UNCHANGED <<entities, resets>>
    BY DEF LogProgress, Handle, rows, faults
  <1>4. resets = 0 => active.ent \in DOMAIN entities
    BY DEF Known, LogProgress
  <1> HIDE DEF x
  <1> QED BY <1>2, <1>3, <1>4, BegunOne

LEMMA EnsureTopicBegun ==
    ASSUME Typed, NEW e \in DOMAIN entities, EnsureTopic(e) PROVE Begun /\ handler'.doing = "other"
  <1> DEFINE x == Step("ensure", entities[e].ws, e)
  <1>1. x \in Steps /\ x.do = "ensure" /\ x.ent = e
    <2>1. e \in EntityIds /\ entities[e].ws \in WsIds
      BY RowIs
    <2> QED BY <2>1, CallStep DEF CallDos
  <1>2. Begin("other", <<x>>) /\ UNCHANGED <<entities, resets>>
    BY DEF EnsureTopic, Handle, rows, faults
  <1> HIDE DEF x
  <1> QED BY <1>1, <1>2, BegunOne

\* Back-fill and repair hold each entity they visit.
LEMMA EnsureAllBegun ==
    ASSUME Typed, NEW doing \in {"other", "repair"}, NEW E \in SUBSET DOMAIN entities, EnsureAll(doing, E)
    PROVE  /\ Begun /\ handler'.doing = doing
           /\ \A i \in 1 .. Len(Todo') : Todo'[i].do = "ensure"
           /\ \A e \in E : \E i \in 1 .. Len(Todo') : Todo'[i].ent = e /\ Todo'[i].ws = entities[e].ws
           /\ UNCHANGED <<rows, links, active, forum, born, faults>>
  <1> DEFINE n == Cardinality(E)
  <1>1. IsFiniteSet(E) /\ n \in Nat
    <2>1. IsFiniteSet(DOMAIN entities)
      <3>1. nextEnt - 1 \in Int /\ 1 \in Int
        BY RowIs, TopicSizes
      <3> QED BY <3>1, RowIs, FS_Interval
    <2> QED BY <2>1, FS_Subset, FS_CardinalityType
  <1>2. PICK order \in [1 .. n -> E] :
          /\ \A i, j \in 1 .. n : i < j =>
                \/ entities[order[i]].ws < entities[order[j]].ws
                \/ entities[order[i]].ws = entities[order[j]].ws /\ Before(order[i], order[j])
          /\ Handle(doing, [i \in 1 .. n |-> Quietly("ensure", entities[order[i]].ws, order[i])])
    BY DEF EnsureAll
  <1>3. \A i, j \in 1 .. n : i # j => order[i] # order[j]
    <2>1. \A i, j \in 1 .. n : i < j => order[i] # order[j]
      <3> SUFFICES ASSUME NEW i \in 1 .. n, NEW j \in 1 .. n, i < j, order[i] = order[j] PROVE FALSE
        OBVIOUS
      <3>1. order[i] \in DOMAIN entities
        BY <1>2
      <3>2. order[i] \in Int /\ entities[order[i]].ws \in Int /\ entities[order[i]].order \in Int
        BY <3>1, RowIs DEF EntityIds, WsIds
      <3> QED BY <1>2, <3>2 DEF Before
    <2> QED BY <1>1, <2>1
  <1>4. \A e \in E : \E i \in 1 .. n : order[i] = e
    <2>1. IsFiniteSet(1 .. n) /\ Cardinality(1 .. n) = n
      BY <1>1, FS_Interval
    <2>2. order \in Injection(1 .. n, E)
      BY <1>2, <1>3 DEF Injection, IsInjective
    <2>3. order \in Surjection(1 .. n, E)
      BY <1>1, <2>1, <2>2, FS_Injection
    <2> QED BY <2>3 DEF Surjection
  <1> DEFINE steps == [i \in 1 .. n |-> Quietly("ensure", entities[order[i]].ws, order[i])]
  <1>5. \A i \in 1 .. n : /\ order[i] \in E /\ steps[i] \in Steps /\ steps[i].do = "ensure" /\ steps[i].ent = order[i]
                          /\ steps[i].ws = entities[order[i]].ws
    <2> SUFFICES ASSUME NEW i \in 1 .. n PROVE
                   /\ order[i] \in E /\ steps[i] \in Steps /\ steps[i].do = "ensure" /\ steps[i].ent = order[i]
                   /\ steps[i].ws = entities[order[i]].ws
      OBVIOUS
    <2>1. order[i] \in E /\ order[i] \in EntityIds /\ entities[order[i]].ws \in WsIds
      BY <1>2, RowIs
    <2>2. steps[i] = Quietly("ensure", entities[order[i]].ws, order[i])
      OBVIOUS
    <2> QED BY <2>1, <2>2, CallStep DEF CallDos
  <1>6. steps \in [1 .. n -> Steps]
    BY <1>5
  <1>7. steps \in Seq(Steps) /\ Len(steps) = n
    BY <1>1, <1>6
  <1>8. Begin(doing, steps) /\ UNCHANGED <<rows, links, active, forum, born, faults>>
    BY <1>2 DEF Handle
  <1> HIDE DEF steps, n
  <1>9. /\ Idle /\ HandlerType' /\ handler'.doing = doing /\ Todo' = steps
    BY <1>7, <1>8, BeginIs DEF HandlerType
  <1>10. Begun
    BY <1>5, <1>7, <1>8, <1>9 DEF Begun, rows
  <1> QED BY <1>4, <1>5, <1>7, <1>8, <1>9, <1>10

LEMMA VisitedIs ==
    ASSUME Typed
    PROVE  UNION {Shown(w) : w \in Mirrored} \in SUBSET DOMAIN entities
           /\ UNION {Canonical(w) : w \in Mirrored} \in SUBSET DOMAIN entities
  BY DEF Shown, Canonical

LEMMA DeleteEntityBegun ==
    ASSUME Typed, NEW e \in AllShown, DeleteEntity(e)
    PROVE  /\ Begun /\ handler'.doing = "other"
           /\ Len(Todo') = 1 /\ Todo'[1].do = "deactivate" /\ Todo'[1].ent = e
  <1> DEFINE x == Step("deactivate", entities[e].ws, e)
  <1>1. e \in DOMAIN entities /\ x \in Steps /\ x.do = "deactivate" /\ x.ent = e
    BY AllShownIs, CallStep DEF CallDos
  <1>2. Begin("other", <<x>>) /\ entities' = [entities EXCEPT ![e].gone = "deleted"]
    BY DEF DeleteEntity, Hide
  <1> HIDE DEF x
  <1>3. Begun /\ handler'.doing = "other"
    BY <1>1, <1>2, BegunOne
  <1>4. Todo' = <<x>>
    BY <1>1, <1>2, OneSeq, BeginIs
  <1> QED BY <1>1, <1>3, <1>4, OneSeq

\* The topic goes first, then its row.
LEMMA DeleteTopicBegun ==
    ASSUME Typed, NEW e \in AllShown, NEW force \in BOOLEAN, DeleteTopic(e, force)
    PROVE  /\ Idle /\ HandlerType' /\ handler'.doing = "other" /\ Len(Todo') = 2
           /\ Todo'[1].do = "delete" /\ Todo'[2].do = "unbind" /\ Todo'[1].ent = e /\ Todo'[2].ent = e
           /\ ~Todo'[1].quiet /\ ~Todo'[2].quiet
           /\ Todo'[1].ws = entities[e].ws /\ Todo'[2].ws = entities[e].ws
           /\ e \in DOMAIN entities /\ e \in DOMAIN bound /\ entities[e].ws \in DOMAIN group
           /\ UNCHANGED <<rows, links, active, forum, born, faults>>
  <1> DEFINE x == Step("delete", entities[e].ws, e)
             y == Step("unbind", entities[e].ws, e)
  <1>1. /\ e \in DOMAIN entities /\ x \in Steps /\ y \in Steps /\ x.do = "delete" /\ y.do = "unbind"
        /\ x.ent = e /\ y.ent = e /\ ~x.quiet /\ ~y.quiet /\ x.ws = entities[e].ws /\ y.ws = entities[e].ws
    BY AllShownIs, CallStep DEF CallDos
  <1>2. /\ Begin("other", <<x, y>>) /\ UNCHANGED <<rows, links, active, forum, born, faults>>
        /\ e \in DOMAIN bound /\ entities[e].ws \in DOMAIN group
    BY DEF DeleteTopic, Handle, HasTopic
  <1> HIDE DEF x, y
  <1>3. Idle /\ HandlerType' /\ handler'.doing = "other" /\ Todo' = <<x, y>>
    BY <1>1, <1>2, TwoSeq, BeginIs DEF HandlerType
  <1> QED BY <1>1, <1>2, <1>3, TwoSeq

-----------------------------------------------------------------------------
(* Commands *)

LEMMA Commands ==
    ASSUME User
    PROVE  \/ \E seeds \in {<<>>, Seeds}, opens \in BOOLEAN : NewWorkspace(seeds, opens)
           \/ \E w \in DOMAIN workspaces, n \in Names : AddEntity(w, n) \/ AddMilestone(w, n)
           \/ \E n \in Names : NLCreate(n)
           \/ \E w \in DOMAIN workspaces : OpenWorkspace(w)
           \/ \E w \in DOMAIN workspaces : Shelve(w)
           \/ \E e \in AllShown : AdoptKind(e) \/ UpdateEntity(e)
           \/ \E e \in AllShown : OpenEntity(e)
           \/ \E e \in AllShown : DeleteEntity(e)
           \/ \E e \in AllShown, b \in BOOLEAN : SetLocked(e, b)
           \/ \E e \in AllShown, b \in BOOLEAN : DeleteTopic(e, b)
           \/ \E e \in AllShown, how \in {"archived", "dropped"} : HideMilestone(e, how)
           \/ \E e \in DOMAIN entities : EnsureTopic(e)
           \/ \E c \in Chats : LinkGroup(c)
           \/ LogProgress \/ BackfillTopics \/ RepairTopics \/ CloseWorkspace \/ ClearStale \/ ResetEverything
  <1>1. ASSUME NEW e \in AllShown,
               \/ AdoptKind(e) \/ UpdateEntity(e) \/ OpenEntity(e) \/ DeleteEntity(e)
               \/ \E b \in BOOLEAN : SetLocked(e, b) \/ DeleteTopic(e, b)
               \/ \E how \in {"archived", "dropped"} : HideMilestone(e, how)
        PROVE  \/ \E f \in AllShown : AdoptKind(f) \/ UpdateEntity(f)
               \/ \E f \in AllShown : OpenEntity(f)
               \/ \E f \in AllShown : DeleteEntity(f)
               \/ \E f \in AllShown, b \in BOOLEAN : SetLocked(f, b)
               \/ \E f \in AllShown, b \in BOOLEAN : DeleteTopic(f, b)
               \/ \E f \in AllShown, how \in {"archived", "dropped"} : HideMilestone(f, how)
    BY <1>1
  <1>2. CASE \E e \in AllShown :
                \/ AdoptKind(e) \/ UpdateEntity(e) \/ OpenEntity(e) \/ DeleteEntity(e)
                \/ \E b \in BOOLEAN : SetLocked(e, b) \/ DeleteTopic(e, b)
                \/ \E how \in {"archived", "dropped"} : HideMilestone(e, how)
    BY <1>1, <1>2
  <1>3. CASE ~\E e \in AllShown :
                \/ AdoptKind(e) \/ UpdateEntity(e) \/ OpenEntity(e) \/ DeleteEntity(e)
                \/ \E b \in BOOLEAN : SetLocked(e, b) \/ DeleteTopic(e, b)
                \/ \E how \in {"archived", "dropped"} : HideMilestone(e, how)
    BY <1>3 DEF User
  <1> QED BY <1>2, <1>3

LEMMA UserBegun ==
    ASSUME Typed, Known, User
    PROVE  \/ Begun /\ (handler'.doing = "other" \/ RepairTopics)
           \/ \E e \in AllShown, force \in BOOLEAN : DeleteTopic(e, force)
  <1> DEFINE Goal == Begun /\ (handler'.doing = "other" \/ RepairTopics)
  <1>1. ASSUME NEW seeds \in {<<>>, Seeds}, NEW opens \in BOOLEAN, NewWorkspace(seeds, opens) PROVE Goal
    BY <1>1, NewWorkspaceBegun
  <1>2. ASSUME NEW w \in DOMAIN workspaces, NEW n \in Names, AddEntity(w, n) \/ AddMilestone(w, n) PROVE Goal
    BY <1>2, AddEntityBegun, BegunEmpty DEF AddMilestone
  <1>3. ASSUME NEW n \in Names, NLCreate(n) PROVE Goal
    BY <1>3, NLCreateBegun
  <1>4. ASSUME NEW w \in DOMAIN workspaces, OpenWorkspace(w) \/ Shelve(w) PROVE Goal
    BY <1>4, BegunEmpty DEF OpenWorkspace, Shelve
  <1>5. ASSUME NEW e \in AllShown, AdoptKind(e) \/ UpdateEntity(e) \/ OpenEntity(e) \/ DeleteEntity(e) PROVE Goal
    BY <1>5, AdoptKindBegun, UpdateEntityBegun, DeleteEntityBegun, BegunEmpty DEF OpenEntity
  <1>6. ASSUME NEW e \in AllShown, NEW b \in BOOLEAN, SetLocked(e, b) PROVE Goal
    BY <1>6, BegunEmpty DEF SetLocked
  <1>7. ASSUME NEW e \in AllShown, NEW how \in {"archived", "dropped"}, HideMilestone(e, how) PROVE Goal
    BY <1>7, BegunEmpty DEF HideMilestone
  <1>8. ASSUME NEW e \in DOMAIN entities, EnsureTopic(e) PROVE Goal
    BY <1>8, EnsureTopicBegun
  <1>9. ASSUME NEW c \in Chats, LinkGroup(c) PROVE Goal
    BY <1>9, BegunEmpty DEF LinkGroup
  <1>10. ASSUME LogProgress PROVE Goal
    BY <1>10, LogProgressBegun
  <1>11. ASSUME BackfillTopics PROVE Goal
    BY <1>11, VisitedIs, EnsureAllBegun DEF BackfillTopics
  <1>12. ASSUME RepairTopics PROVE Goal
    BY <1>12, VisitedIs, EnsureAllBegun DEF RepairTopics
  <1>13. ASSUME CloseWorkspace \/ ClearStale PROVE Goal
    BY <1>13, BegunEmpty DEF CloseWorkspace, ClearStale
  <1>14. ASSUME ResetEverything PROVE Goal
    BY <1>14, BegunEmpty DEF ResetEverything
  <1> HIDE DEF Goal
  <1>15. Goal \/ \E e \in AllShown, force \in BOOLEAN : DeleteTopic(e, force)
    BY <1>1, <1>2, <1>3, <1>4, <1>5, <1>6, <1>7, <1>8, <1>9, <1>10, <1>11, <1>12, <1>13, <1>14, Commands
  <1> QED BY <1>15 DEF Goal

\* What changes the rows.
RowChange ==
    \/ UNCHANGED <<rows, born>>
    \/ \E seeds \in {<<>>, Seeds}, opens \in BOOLEAN : NewWorkspace(seeds, opens)
    \/ \E w \in WsIds, n \in Names : Insert(w, n)
    \/ \E w \in DOMAIN workspaces : Shelve(w)
    \/ \E e \in AllShown, how \in {"archived", "dropped", "deleted"} :
          Hide(e, how) /\ UNCHANGED <<workspaces, nextWs, nextEnt, born>>
    \/ ResetEverything

LEMMA RowsStep == ASSUME Typed, RowChange PROVE RowTypes'
  <1> MaxWorkspaces \in Nat /\ MaxEntities \in Nat
    BY TopicSizes
  <1> RowTypes
    BY DEF Typed
  <1>1. CASE UNCHANGED <<rows, born>>
    BY <1>1 DEF rows, RowTypes
  <1>2. ASSUME NEW seeds \in {<<>>, Seeds}, NEW opens \in BOOLEAN, NewWorkspace(seeds, opens) PROVE RowTypes'
    <2>1. /\ nextWs <= MaxWorkspaces /\ workspaces' = Put(workspaces, nextWs, "active") /\ nextWs' = nextWs + 1
          /\ UNCHANGED <<entities, nextEnt, born>>
      BY <1>2 DEF NewWorkspace
    <2>2. DOMAIN workspaces' = 1 .. nextWs' - 1 /\ nextWs' \in 1 .. MaxWorkspaces + 1
      BY <2>1 DEF Put, RowTypes
    <2>3. \A w \in DOMAIN workspaces' : workspaces'[w] \in {"active", "shelved"}
      BY <2>1 DEF Put, RowTypes
    <2> QED BY <2>1, <2>2, <2>3 DEF RowTypes
  <1>3. ASSUME NEW w \in WsIds, NEW n \in Names, Insert(w, n) PROVE RowTypes'
    <2>1. \A e \in DOMAIN entities' : entities'[e] \in Milestone
      BY <1>3, InsertIs DEF RowTypes
    <2>2. /\ DOMAIN entities' = 1 .. nextEnt' - 1 /\ nextEnt' \in 1 .. MaxEntities + 1
          /\ born' \in 0 .. MaxEntities /\ nextEnt' - 1 <= born' /\ UNCHANGED <<workspaces, nextWs>>
      BY <1>3, InsertIs
    <2> QED BY <2>1, <2>2 DEF RowTypes
  <1>4. ASSUME NEW w \in DOMAIN workspaces, Shelve(w) PROVE RowTypes'
    BY <1>4 DEF Shelve, RowTypes
  <1>5. ASSUME NEW e \in AllShown, NEW how \in {"archived", "dropped", "deleted"}, Hide(e, how),
               UNCHANGED <<workspaces, nextWs, nextEnt, born>>
        PROVE  RowTypes'
    <2>1. \A f \in DOMAIN entities : entities'[f] \in Milestone
      <3>1. \A f \in DOMAIN entities : entities[f] \in Milestone
        BY DEF RowTypes
      <3> QED BY <1>5, <3>1 DEF Hide, Milestone
    <2>2. DOMAIN entities' = DOMAIN entities
      BY <1>5 DEF Hide
    <2> QED BY <1>5, <2>1, <2>2 DEF RowTypes
  <1>6. CASE ResetEverything
    <2>1. /\ workspaces' = <<>> /\ entities' = <<>> /\ nextWs' = 1 /\ nextEnt' = 1 /\ born' = born
      BY <1>6 DEF ResetEverything
    <2>2. DOMAIN workspaces' = 1 .. nextWs' - 1 /\ DOMAIN entities' = 1 .. nextEnt' - 1
      BY <2>1
    <2>3. DOMAIN workspaces' = {} /\ DOMAIN entities' = {}
      BY <2>1, <2>2
    <2> QED BY <2>1, <2>2, <2>3 DEF RowTypes
  <1> QED BY <1>1, <1>2, <1>3, <1>4, <1>5, <1>6 DEF RowChange

\* What commands do to bindings: a lock or nothing.
SameTopics == DOMAIN bound' = DOMAIN bound /\ \A e \in DOMAIN bound : bound'[e].topic = bound[e].topic

LEMMA LockIs ==
    ASSUME Typed, NEW e \in AllShown, NEW b \in BOOLEAN, SetLocked(e, b)
    PROVE  /\ SameTopics /\ UNCHANGED <<rows, group, active, forum, born, faults>>
           /\ \A f \in DOMAIN bound' : bound'[f] \in [topic : DOMAIN forum, locked : BOOLEAN]
  <1>1. bound' = [bound EXCEPT ![e].locked = b] /\ UNCHANGED <<rows, group, active, forum, born, faults>>
    BY DEF SetLocked
  <1>2. \A f \in DOMAIN bound : bound[f] \in [topic : DOMAIN forum, locked : BOOLEAN]
    BY DEF Typed, LinkTypes
  <1>3. \A f \in DOMAIN bound : /\ bound'[f].topic = bound[f].topic
                                /\ bound'[f] \in [topic : DOMAIN forum, locked : BOOLEAN]
    BY <1>1, <1>2
  <1> QED BY <1>1, <1>3 DEF SameTopics

LEMMA UserIs ==
    ASSUME Typed, User
    PROVE  /\ RowChange /\ SameTopics /\ UNCHANGED <<forum, slips, hands>>
           /\ LinkTypes' /\ ActiveType' /\ Counters'
           /\ UNCHANGED resets \/ ResetEverything
           /\ UNCHANGED bound \/ \E e \in AllShown, b \in BOOLEAN : SetLocked(e, b)
  <1> DEFINE Goal == /\ RowChange /\ SameTopics /\ UNCHANGED <<forum, slips, hands>>
                     /\ LinkTypes' /\ ActiveType' /\ Counters'
                     /\ UNCHANGED resets \/ ResetEverything
                     /\ UNCHANGED bound \/ \E e \in AllShown, b \in BOOLEAN : SetLocked(e, b)
  <1> LinkTypes /\ ActiveType /\ Counters
    BY DEF Typed
  <1>a. ASSUME UNCHANGED <<links, forum, active, faults>>, RowChange PROVE Goal
    BY <1>a DEF links, faults, SameTopics, LinkTypes, ActiveType, Counters
  <1>b. ASSUME UNCHANGED <<links, forum, rows, born, faults>>, ActiveType' PROVE Goal
    BY <1>b DEF links, faults, SameTopics, LinkTypes, RowChange, Counters
  <1>c. ASSUME NEW doing, NEW steps, Handle(doing, steps) PROVE Goal
    BY <1>a, <1>c DEF Handle, RowChange
  <1>1. ASSUME NEW seeds \in {<<>>, Seeds}, NEW opens \in BOOLEAN, NewWorkspace(seeds, opens) PROVE Goal
    <2>1. UNCHANGED <<links, forum, active, faults>>
      BY <1>1 DEF NewWorkspace
    <2> QED BY <1>a, <1>1, <2>1 DEF RowChange
  <1>2. ASSUME NEW w \in DOMAIN workspaces, NEW n \in Names, AddEntity(w, n) \/ AddMilestone(w, n) PROVE Goal
    <2>1. UNCHANGED <<links, forum, active, faults>> /\ Insert(w, n) /\ w \in WsIds
      BY <1>2, RowIs DEF AddEntity, AddMilestone
    <2> QED BY <1>a, <2>1 DEF RowChange
  <1>3. ASSUME NEW n \in Names, NLCreate(n) PROVE Goal
    <2>1. UNCHANGED <<links, forum, active, faults>> /\ Insert(active.ws, n) /\ active.ws \in WsIds
      BY <1>3, RowIs DEF NLCreate
    <2> QED BY <1>a, <2>1 DEF RowChange
  <1>4. ASSUME NEW w \in DOMAIN workspaces, OpenWorkspace(w) PROVE Goal
    <2>1. ActiveType'
      BY <1>4, RowIs DEF OpenWorkspace, ActiveType
    <2> QED BY <1>b, <1>4, <2>1 DEF OpenWorkspace
  <1>5. ASSUME NEW w \in DOMAIN workspaces, Shelve(w) PROVE Goal
    <2>1. UNCHANGED <<links, forum, active, faults>>
      BY <1>5 DEF Shelve
    <2> QED BY <1>a, <1>5, <2>1 DEF RowChange
  <1>6. ASSUME NEW e \in AllShown, AdoptKind(e) \/ UpdateEntity(e) PROVE Goal
    BY <1>c, <1>6 DEF AdoptKind, UpdateEntity
  <1>7. ASSUME NEW e \in AllShown, OpenEntity(e) PROVE Goal
    <2>1. ActiveType'
      BY <1>7, AllShownIs DEF OpenEntity, ActiveType
    <2> QED BY <1>b, <1>7, <2>1 DEF OpenEntity
  <1>8. ASSUME NEW e \in AllShown, DeleteEntity(e) PROVE Goal
    <2>1. /\ UNCHANGED <<links, forum, active, faults>>
          /\ Hide(e, "deleted") /\ UNCHANGED <<workspaces, nextWs, nextEnt, born>>
      BY <1>8 DEF DeleteEntity
    <2> QED BY <1>a, <2>1 DEF RowChange
  <1>9. ASSUME NEW e \in AllShown, NEW b \in BOOLEAN, SetLocked(e, b) PROVE Goal
    <2>1. /\ SameTopics /\ UNCHANGED <<rows, group, active, forum, born, faults>>
          /\ \A f \in DOMAIN bound' : bound'[f] \in [topic : DOMAIN forum, locked : BOOLEAN]
      BY <1>9, LockIs
    <2>2. LinkTypes'
      BY <2>1 DEF LinkTypes, SameTopics
    <2> QED BY <1>9, <2>1, <2>2 DEF faults, ActiveType, Counters, RowChange
  <1>10. ASSUME NEW e \in AllShown, NEW b \in BOOLEAN, DeleteTopic(e, b) PROVE Goal
    BY <1>c, <1>10 DEF DeleteTopic
  <1>11. ASSUME NEW e \in AllShown, NEW how \in {"archived", "dropped"}, HideMilestone(e, how) PROVE Goal
    <2>1. /\ UNCHANGED <<links, forum, active, faults>>
          /\ Hide(e, how) /\ UNCHANGED <<workspaces, nextWs, nextEnt, born>>
      BY <1>11 DEF HideMilestone
    <2> QED BY <1>a, <2>1 DEF RowChange
  <1>12. ASSUME NEW e \in DOMAIN entities, EnsureTopic(e) PROVE Goal
    BY <1>c, <1>12 DEF EnsureTopic
  <1>13. ASSUME NEW c \in Chats, LinkGroup(c) PROVE Goal
    <2>1. /\ active.ws \in WsIds /\ group' = Put(group, active.ws, c)
          /\ UNCHANGED <<rows, bound, active, forum, born, faults>>
      BY <1>13 DEF LinkGroup, ActiveType
    <2>2. LinkTypes'
      BY <2>1 DEF LinkTypes, Put
    <2> QED BY <2>1, <2>2 DEF faults, SameTopics, ActiveType, Counters, RowChange
  <1>14. ASSUME LogProgress PROVE Goal
    BY <1>c, <1>14 DEF LogProgress
  <1>15. ASSUME NEW doing, NEW E, EnsureAll(doing, E) PROVE Goal
    BY <1>c, <1>15 DEF EnsureAll
  <1>16. ASSUME CloseWorkspace \/ ClearStale PROVE Goal
    <2>1. CloseWorkspace
      BY <1>16 DEF ClearStale
    <2>2. ActiveType'
      BY <2>1 DEF CloseWorkspace, ActiveType
    <2> QED BY <1>b, <2>1, <2>2 DEF CloseWorkspace
  <1>17. ASSUME ResetEverything PROVE Goal
    BY <1>17 DEF ResetEverything, links, SameTopics, LinkTypes, ActiveType, Counters, RowChange
  <1>19. ASSUME BackfillTopics \/ RepairTopics PROVE Goal
    BY <1>15, <1>19 DEF BackfillTopics, RepairTopics
  <1> HIDE DEF Goal
  <1>18. Goal
    BY <1>1, <1>2, <1>3, <1>4, <1>5, <1>6, <1>7, <1>8, <1>9, <1>10, <1>11, <1>12, <1>13, <1>14, <1>16, <1>17, <1>19, Commands
  <1> QED BY <1>18 DEF Goal

LEMMA TypedUser == ASSUME Typed, Known, User PROVE Typed'
  <1>1. RowTypes' /\ LinkTypes' /\ ActiveType' /\ Counters' /\ UNCHANGED forum
    BY UserIs, RowsStep
  <1>2. HandlerType'
    BY UserBegun, DeleteTopicBegun DEF Begun
  <1>3. ForumTypes'
    BY <1>1 DEF Typed, ForumTypes
  <1> QED BY <1>1, <1>2, <1>3 DEF Typed

-----------------------------------------------------------------------------
(* The steps of a handler, and what goes wrong *)

LEMMA NextIs ==
    ASSUME Typed, NEW do, At(do)
    PROVE  /\ ~Idle /\ 1 \in 1 .. Len(Todo) /\ Next1 = Todo[1] /\ Next1 \in Steps /\ Next1.do = do
  BY TodoIs DEF At

\* The handler's own part in each step.
LEMMA AdvanceIs ==
    ASSUME Typed, NEW do, At(do), Advance
    PROVE  Shorter /\ HandlerType' /\ handler'.doing = handler.doing /\ Todo' = Tail(Todo)
  BY NextIs, GoesOn DEF Shorter, HandlerType

LEMMA RaiseIs ==
    ASSUME Typed, ~Idle, Raise \/ handler' = [doing |-> "other", todo |-> <<>>]
    PROVE  Shorter /\ HandlerType' /\ handler'.doing = "other"
  <1>1. Shorter
    BY GoesOn
  <1>2. handler'.doing = "other"
    BY DEF Raise
  <1> QED BY <1>1, <1>2 DEF Shorter, HandlerType

LEMMA NewTopicIs ==
    ASSUME Typed
    PROVE  /\ NewTopic \in Nat /\ NewTopic \notin DOMAIN forum
           /\ NewTopic <= MaxTopics => /\ NewTopic \in TopicIds
                                       /\ \E n \in 0 .. MaxTopics : DOMAIN forum \cup {NewTopic} = 1 .. n
  <1>1. PICK n \in 0 .. MaxTopics : DOMAIN forum = 1 .. n
    BY DEF Typed, ForumTypes
  <1>2. MaxTopics \in Nat
    BY TopicSizes
  <1>3. Cardinality(1 .. n) = n
    <2>1. n \in Int /\ 1 \in Int
      BY <1>1, <1>2
    <2> QED BY <1>1, <1>2, <2>1, FS_Interval
  <1>4. NewTopic = n + 1
    BY <1>1, <1>3 DEF NewTopic
  <1>5. NewTopic <= MaxTopics => n + 1 \in 0 .. MaxTopics /\ DOMAIN forum \cup {NewTopic} = 1 .. n + 1
    BY <1>1, <1>2, <1>4
  <1> QED BY <1>1, <1>2, <1>4, <1>5 DEF TopicIds

LEMMA TopicIdsFinite ==
    ASSUME Typed PROVE DOMAIN forum \subseteq TopicIds /\ IsFiniteSet(DOMAIN forum)
  <1>1. PICK n \in 0 .. MaxTopics : DOMAIN forum = 1 .. n
    BY DEF Typed, ForumTypes
  <1>2. n \in Int /\ 1 \in Int /\ MaxTopics \in Nat
    BY <1>1, TopicSizes
  <1> QED BY <1>1, <1>2, FS_Interval DEF TopicIds

\* A topic that appears is new.
LEMMA AppearsIs ==
    ASSUME Typed, Creating, TopicAppears
    PROVE  /\ NewTopic \in TopicIds /\ NewTopic \notin DOMAIN forum
           /\ DOMAIN forum' = DOMAIN forum \cup {NewTopic}
           /\ \A t \in DOMAIN forum : forum'[t] = forum[t]
           /\ forum'[NewTopic].live /\ forum'[NewTopic].birth = BirthOf(Next1.ent)
           /\ ForumTypes'
  <1>1. NewTopic <= MaxTopics
    BY DEF TopicAppears
  <1>2. /\ NewTopic \in TopicIds /\ NewTopic \notin DOMAIN forum
        /\ \E n \in 0 .. MaxTopics : DOMAIN forum \cup {NewTopic} = 1 .. n
    BY <1>1, NewTopicIs
  <1> DEFINE new == [chat |-> group[Next1.ws], birth |-> BirthOf(Next1.ent), live |-> TRUE]
  <1>3. new \in Topic /\ new.live /\ new.birth = BirthOf(Next1.ent)
    <2>1. group[Next1.ws] \in Chats
      BY DEF Creating, Typed, LinkTypes
    <2>2. BirthOf(Next1.ent) \in EntityIds \cup {None}
      BY RowIs DEF BirthOf
    <2> QED BY <2>1, <2>2 DEF Topic
  <1>4. forum' = Put(forum, NewTopic, new)
    BY DEF TopicAppears
  <1> HIDE DEF new
  <1>5. /\ DOMAIN forum' = DOMAIN forum \cup {NewTopic} /\ forum'[NewTopic] = new
        /\ \A t \in DOMAIN forum : forum'[t] = forum[t]
    BY <1>2, <1>4 DEF Put
  <1>6. ForumTypes'
    <2>1. \A t \in DOMAIN forum : forum[t] \in Topic
      BY DEF Typed, ForumTypes
    <2> QED BY <1>2, <1>3, <1>5, <2>1 DEF ForumTypes
  <1> QED BY <1>2, <1>3, <1>5, <1>6

\* The bind step takes the place of the ensure step.
LEMMA CreateIs ==
    ASSUME Typed, CreateTopic
    PROVE  /\ At("ensure") /\ HandlerType' /\ handler'.doing = handler.doing
           /\ Len(Todo') = Len(Todo) /\ \A i \in 2 .. Len(Todo) : Todo'[i] = Todo[i]
           /\ Todo'[1].do = "bind" /\ Todo'[1].ent = Next1.ent /\ Todo'[1].topic = NewTopic
           /\ TopicAppears /\ Creating /\ Next1.ent \in EntityIds /\ Next1.ent \notin DOMAIN bound
           /\ UNCHANGED <<rows, links, active, born, faults>>
  <1>1. At("ensure") /\ Creating /\ TopicAppears /\ UNCHANGED <<rows, links, active, born, faults>>
    BY DEF CreateTopic, Creating
  <1>2. Next1 \in Steps /\ Next1.do = "ensure" /\ Todo \in Seq(Steps) /\ Todo # <<>>
    BY <1>1, NextIs, TodoIs DEF Idle, Todo
  <1>3. Next1.ent \in EntityIds /\ Next1.quiet \in BOOLEAN
    BY <1>2, StepIs DEF CallDos
  <1> DEFINE b == [do |-> "bind", ent |-> Next1.ent, topic |-> NewTopic, quiet |-> Next1.quiet]
  <1>4. b \in Steps /\ b.do = "bind" /\ b.ent = Next1.ent /\ b.topic = NewTopic
    BY <1>1, <1>3, AppearsIs DEF Steps, BindSteps
  <1>5. handler' = [handler EXCEPT !.todo = <<b>> \o Tail(Todo)]
    BY DEF CreateTopic, Todo
  <1> HIDE DEF b
  <1>6. Tail(Todo) \in Seq(Steps) /\ Len(Tail(Todo)) = Len(Todo) - 1 /\ Len(Todo) \in Nat
        /\ \A i \in 1 .. Len(Tail(Todo)) : Tail(Todo)[i] = Todo[i + 1]
    BY <1>2, SeqIs
  <1>7. <<b>> \o Tail(Todo) \in Seq(Steps)
    BY <1>4, <1>6
  <1>8. Len(<<b>> \o Tail(Todo)) = Len(Todo) /\ (<<b>> \o Tail(Todo))[1] = b
        /\ \A i \in 2 .. Len(Todo) : (<<b>> \o Tail(Todo))[i] = Todo[i]
    <2>1. \A i \in 2 .. Len(Todo) : (<<b>> \o Tail(Todo))[i] = Tail(Todo)[i - 1]
      BY <1>4, <1>6
    <2>2. \A i \in 2 .. Len(Todo) : i - 1 \in 1 .. Len(Tail(Todo)) /\ i - 1 + 1 = i
      BY <1>6
    <2> QED BY <1>4, <1>6, <2>1, <2>2
  <1>9. HandlerType' /\ handler'.doing = handler.doing /\ Todo' = <<b>> \o Tail(Todo)
    BY <1>5, <1>7 DEF Typed, HandlerType, Todo
  <1>10. Next1.ent \notin DOMAIN bound
    BY <1>1 DEF Creating, HasTopic
  <1> QED BY <1>1, <1>3, <1>4, <1>8, <1>9, <1>10

LEMMA BindIs ==
    ASSUME Typed, Binding, BindTopic
    PROVE  /\ Shorter /\ HandlerType' /\ handler'.doing = handler.doing /\ Todo' = Tail(Todo)
           /\ Next1.ent \in EntityIds /\ Next1.ent \notin DOMAIN bound /\ Next1.topic \in DOMAIN forum
           /\ DOMAIN bound' = DOMAIN bound \cup {Next1.ent}
           /\ bound'[Next1.ent].topic = Next1.topic /\ \A e \in DOMAIN bound : bound'[e] = bound[e]
           /\ LinkTypes' /\ UNCHANGED <<rows, group, active, forum, born, faults>>
  <1>1. At("bind") /\ Advance /\ UNCHANGED <<rows, group, active, forum, born, faults>>
    BY DEF BindTopic
  <1>2. Next1.ent \in EntityIds
    BY <1>1, NextIs, StepIs
  <1>3. Next1.ent \notin DOMAIN bound /\ Next1.topic \in DOMAIN forum
    BY <1>1 DEF Binding
  <1> DEFINE row == [topic |-> Next1.topic, locked |-> HasTopic(Next1.ent) /\ bound[Next1.ent].locked]
  <1>4. row \in [topic : DOMAIN forum, locked : BOOLEAN] /\ row.topic = Next1.topic
    BY <1>3 DEF HasTopic
  <1>5. bound' = Put(bound, Next1.ent, row)
    BY DEF BindTopic
  <1> HIDE DEF row
  <1>6. /\ DOMAIN bound' = DOMAIN bound \cup {Next1.ent} /\ bound'[Next1.ent] = row
        /\ \A e \in DOMAIN bound : bound'[e] = bound[e]
    BY <1>3, <1>5 DEF Put
  <1>7. LinkTypes'
    BY <1>1, <1>2, <1>4, <1>6 DEF LinkTypes, Typed
  <1> QED BY <1>1, <1>2, <1>3, <1>4, <1>6, <1>7, AdvanceIs

\* A topic goes, and no other.
LEMMA GoesIs ==
    ASSUME Typed, NEW t \in DOMAIN forum, forum' = [forum EXCEPT ![t].live = FALSE]
    PROVE  /\ DOMAIN forum' = DOMAIN forum /\ ~forum'[t].live
           /\ \A s \in DOMAIN forum : forum'[s].birth = forum[s].birth /\ (s # t => forum'[s] = forum[s])
           /\ ForumTypes'
  <1>1. \A s \in DOMAIN forum : forum[s] \in Topic
    BY DEF Typed, ForumTypes
  <1>2. DOMAIN forum' = DOMAIN forum /\ \A s \in DOMAIN forum : s # t => forum'[s] = forum[s]
    OBVIOUS
  <1>3. forum'[t] = [forum[t] EXCEPT !.live = FALSE]
    OBVIOUS
  <1>4. ~forum'[t].live /\ forum'[t].birth = forum[t].birth /\ forum'[t] \in Topic
    BY <1>1, <1>3 DEF Topic
  <1>5. ForumTypes'
    BY <1>1, <1>2, <1>4 DEF Typed, ForumTypes
  <1> QED BY <1>2, <1>4, <1>5

LEMMA UnbindIs ==
    ASSUME Typed, Unbind
    PROVE  /\ At("unbind") /\ Shorter /\ HandlerType' /\ handler'.doing = handler.doing /\ Todo' = Tail(Todo)
           /\ DOMAIN bound' = DOMAIN bound \ {Next1.ent}
           /\ \A e \in DOMAIN bound' : bound'[e] = bound[e]
           /\ LinkTypes' /\ UNCHANGED <<rows, group, active, forum, born, faults>>
  <1>1. /\ At("unbind") /\ Advance /\ UNCHANGED <<rows, group, active, forum, born, faults>>
        /\ bound' = Restrict(bound, DOMAIN bound \ {Next1.ent})
    BY DEF Unbind
  <1>2. DOMAIN bound' = DOMAIN bound \ {Next1.ent} /\ \A e \in DOMAIN bound' : bound'[e] = bound[e]
    BY <1>1 DEF Restrict
  <1>3. LinkTypes'
    BY <1>1, <1>2 DEF LinkTypes, Typed
  <1> QED BY <1>1, <1>2, <1>3, AdvanceIs

\* What a step of delete_topic meets.
LEMMA DeleteIs ==
    ASSUME Typed, Deleting, At("delete")
    PROVE  /\ handler.doing = "other" /\ ~Next1.quiet /\ Next1.ent \in DOMAIN bound /\ Next1.ws \in DOMAIN group
           /\ Len(Todo) = 2 /\ Todo[2].do = "unbind" /\ Todo[2].ent = Next1.ent
           /\ bound[Next1.ent].topic \in DOMAIN forum
  <1>1. /\ handler.doing = "other" /\ ~Next1.quiet /\ Next1.ent \in DOMAIN bound /\ Next1.ws \in DOMAIN group
        /\ Len(Todo) = 2 /\ Todo[2].do = "unbind" /\ Todo[2].ent = Next1.ent
    BY NextIs DEF Deleting
  <1> QED BY <1>1 DEF Typed, LinkTypes

LEMMA UnbindMeets ==
    ASSUME Typed, Deleting, At("unbind")
    PROVE  /\ handler.doing = "other" /\ ~Next1.quiet /\ Next1.ent \in DOMAIN bound
           /\ Len(Todo) = 1 /\ ~forum[bound[Next1.ent].topic].live
  <1>1. Next1 = Todo[1] /\ Next1.do = "unbind" /\ 1 \in 1 .. Len(Todo)
    BY NextIs
  <1>2. \/ 1 = 2 /\ Len(Todo) = 2 /\ Todo[1].do = "delete"
        \/ 1 = 1 /\ Len(Todo) = 1 /\ ~forum[bound[Todo[1].ent].topic].live
    BY <1>1 DEF Deleting
  <1> QED BY <1>1, <1>2 DEF Deleting

\* What goes wrong leaves rows and bindings.
LEMMA FaultIs ==
    ASSUME Typed, Deleting, Refused \/ TimesOut \/ Breaks \/ Crash
    PROVE  /\ UNCHANGED <<rows, links, active, born, hands, resets>>
           /\ Shorter /\ HandlerType' /\ handler'.doing = "other" /\ ~Idle
           /\ \/ /\ UNCHANGED <<forum, slips>> /\ Calling /\ Raise
              \/ /\ slips' = slips + 1
                 /\ \/ UNCHANGED forum
                    \/ Creating /\ TopicAppears
                    \/ At("delete") /\ TopicGoes
  <1>1. ~Idle
    BY DEF Refused, TimesOut, Breaks, Crash, Calling, Creating, At
  <1>2. Shorter /\ HandlerType' /\ handler'.doing = "other"
    BY <1>1, RaiseIs DEF Refused, TimesOut, Breaks, Crash
  <1>3. CASE Refused
    BY <1>1, <1>2, <1>3 DEF Refused, faults, links
  <1>4. CASE TimesOut
    BY <1>1, <1>2, <1>4 DEF TimesOut, Slip, links
  <1>5. CASE Breaks \/ Crash
    BY <1>1, <1>2, <1>5 DEF Breaks, Crash, Slip, links
  <1> QED BY <1>3, <1>4, <1>5

LEMMA LinksSame ==
    ASSUME Typed, UNCHANGED links, DOMAIN forum \subseteq DOMAIN forum' PROVE LinkTypes'
  BY DEF links, Typed, LinkTypes

LEMMA ActiveIs ==
    ASSUME Typed
    PROVE  /\ Activate => At("activate") /\ active' = [ws |-> Next1.ws, ent |-> Next1.ent] /\ ActiveType'
                          /\ Next1.ws \in WsIds /\ Next1.ent \in EntityIds \cup {None}
           /\ Deactivate => ActiveType' /\ active'.ws = active.ws
                            /\ active'.ent = IF active.ws # None /\ active.ent = Next1.ent THEN None ELSE active.ent
  <1>1. ASSUME Activate
        PROVE  At("activate") /\ active' = [ws |-> Next1.ws, ent |-> Next1.ent] /\ ActiveType'
                /\ Next1.ws \in WsIds /\ Next1.ent \in EntityIds \cup {None}
    <2>1. Next1.ws \in WsIds /\ Next1.ent \in EntityIds \cup {None}
      BY <1>1, NextIs, StepIs DEF Activate
    <2> QED BY <1>1, <2>1 DEF Activate, ActiveType
  <1>2. ASSUME Deactivate
        PROVE  ActiveType' /\ active'.ws = active.ws
               /\ active'.ent = IF active.ws # None /\ active.ent = Next1.ent THEN None ELSE active.ent
    BY <1>2 DEF Deactivate, Typed, ActiveType
  <1> QED BY <1>1, <1>2

-----------------------------------------------------------------------------
(* Types *)

LEMMA RowsSame == ASSUME Typed, UNCHANGED <<rows, born>> PROVE RowTypes'
  BY RowsStep DEF RowChange

LEMMA RestSame ==
    ASSUME Typed
    PROVE  /\ UNCHANGED active => ActiveType'
           /\ UNCHANGED forum => ForumTypes'
           /\ UNCHANGED faults => Counters'
           /\ UNCHANGED handler => HandlerType'
  BY DEF Typed, ActiveType, ForumTypes, faults, Counters, HandlerType

LEMMA SeedStepIs ==
    ASSUME Typed, SeedStep
    PROVE  /\ Insert(Next1.ws, Next1.name) /\ Next1.ws \in WsIds /\ Next1.name \in Names
           /\ Shorter /\ HandlerType' /\ handler'.doing = handler.doing /\ At("seed")
           /\ UNCHANGED <<links, active, forum, faults>>
  <1>1. At("seed") /\ Advance /\ Insert(Next1.ws, Next1.name) /\ UNCHANGED <<links, active, forum, faults>>
    BY DEF SeedStep
  <1> QED BY <1>1, NextIs, StepIs, AdvanceIs

\* A topic that goes with its row's step.
LEMMA TopicGoesIs ==
    ASSUME Typed, Deleting, At("delete"), TopicGoes
    PROVE  LET u == bound[Next1.ent].topic
           IN /\ u \in DOMAIN forum /\ DOMAIN forum' = DOMAIN forum /\ ~forum'[u].live
              /\ \A s \in DOMAIN forum : forum'[s].birth = forum[s].birth /\ (s # u => forum'[s] = forum[s])
              /\ ForumTypes'
  <1>1. bound[Next1.ent].topic \in DOMAIN forum
    BY DeleteIs
  <1> QED BY <1>1, GoesIs DEF TopicGoes

LEMMA TypedRun == ASSUME Typed, Binding, Deleting, Run PROVE Typed'
  <1>1. CASE SeedStep
    <2>1. RowTypes'
      BY <1>1, SeedStepIs, RowsStep DEF RowChange
    <2> QED BY <1>1, <2>1, SeedStepIs, RestSame, LinksSame DEF Typed
  <1>2. CASE Activate
    <2>1. At("activate") /\ Advance /\ UNCHANGED <<rows, links, forum, born, faults>>
      BY <1>2 DEF Activate
    <2> QED BY <1>2, <2>1, AdvanceIs, ActiveIs, RowsSame, RestSame, LinksSame DEF Typed
  <1>3. CASE Deactivate
    <2>1. At("deactivate") /\ Advance /\ UNCHANGED <<rows, links, forum, born, faults>>
      BY <1>3 DEF Deactivate
    <2> QED BY <1>3, <2>1, AdvanceIs, ActiveIs, RowsSame, RestSame, LinksSame DEF Typed
  <1>4. CASE AlreadyThere
    <2>1. At("ensure") /\ Advance /\ UNCHANGED <<rows, links, active, forum, born, faults>>
      BY <1>4 DEF AlreadyThere
    <2> QED BY <2>1, AdvanceIs, RowsSame, RestSame, LinksSame DEF Typed
  <1>5. CASE CreateTopic
    <2>1. UNCHANGED <<rows, links, active, born, faults>> /\ HandlerType' /\ TopicAppears /\ Creating
      BY <1>5, CreateIs
    <2>2. ForumTypes' /\ DOMAIN forum \subseteq DOMAIN forum'
      BY <2>1, AppearsIs
    <2> QED BY <2>1, <2>2, RowsSame, RestSame, LinksSame DEF Typed
  <1>6. CASE BindTopic
    BY <1>6, BindIs, RowsSame, RestSame DEF Typed
  <1>7. CASE DeleteForumTopic
    <2>1. At("delete") /\ TopicGoes /\ Advance /\ UNCHANGED <<rows, links, active, born, faults>>
      BY <1>7 DEF DeleteForumTopic
    <2>2. ForumTypes' /\ DOMAIN forum' = DOMAIN forum
      BY <2>1, TopicGoesIs
    <2> QED BY <2>1, <2>2, AdvanceIs, RowsSame, RestSame, LinksSame DEF Typed
  <1>8. CASE Unbind
    BY <1>8, UnbindIs, RowsSame, RestSame DEF Typed
  <1> QED BY <1>1, <1>2, <1>3, <1>4, <1>5, <1>6, <1>7, <1>8 DEF Run

LEMMA TypedFault == ASSUME Typed, Deleting, Fault PROVE Typed'
  <1>1. CASE Refused \/ TimesOut \/ Breaks \/ Crash
    <2>1. UNCHANGED <<rows, links, active, born, hands, resets>> /\ HandlerType'
      BY <1>1, FaultIs
    <2>2. ForumTypes' /\ DOMAIN forum \subseteq DOMAIN forum'
      <3>1. CASE UNCHANGED forum
        BY <3>1, RestSame
      <3>2. CASE Creating /\ TopicAppears
        BY <3>2, AppearsIs
      <3>3. CASE At("delete") /\ TopicGoes
        BY <3>3, TopicGoesIs
      <3> QED BY <1>1, <3>1, <3>2, <3>3, FaultIs
    <2>3. Counters'
      BY <1>1, FaultIs DEF Typed, Counters
    <2> QED BY <2>1, <2>2, <2>3, RowsSame, RestSame, LinksSame DEF Typed
  <1>2. ASSUME NEW t \in DOMAIN forum, DeletedByHand(t) PROVE Typed'
    <2>1. /\ forum' = [forum EXCEPT ![t].live = FALSE] /\ hands' = hands + 1
          /\ UNCHANGED <<rows, links, active, handler, born, slips, resets>>
      BY <1>2 DEF DeletedByHand
    <2>2. ForumTypes' /\ DOMAIN forum' = DOMAIN forum
      BY <2>1, GoesIs
    <2>3. Counters'
      BY <2>1 DEF Typed, Counters
    <2> QED BY <2>1, <2>2, <2>3, RowsSame, RestSame, LinksSame DEF Typed
  <1> QED BY <1>1, <1>2 DEF Fault

LEMMA TypedStep == Typed /\ Known /\ Binding /\ Deleting /\ [Next]_vars => Typed'
  <1> SUFFICES ASSUME Typed, Known, Binding, Deleting, [Next]_vars PROVE Typed'
    OBVIOUS
  <1>1. CASE UNCHANGED vars
    BY <1>1, RowsSame, RestSame, LinksSame DEF vars, Typed
  <1> QED BY <1>1, TypedUser, TypedRun, TypedFault DEF Next

-----------------------------------------------------------------------------
(* Bindings *)

\* no bind step is left, bindings and topics as they were
NoBind == \A i \in 1 .. Len(Todo) : Todo[i].do # "bind"

LEMMA AtHead == 
    ASSUME Typed
    PROVE  \A do \in {"bind", "unbind", "ensure", "delete", "deactivate", "activate", "seed"} :
             At(do) <=> 1 \in 1 .. Len(Todo) /\ Todo[1].do = do
  BY TodoIs DEF At

\* Of the handler after a step: what stands first.
LEMMA AtHeadNext ==
    ASSUME HandlerType'
    PROVE  /\ Idle' <=> Len(Todo') = 0
           /\ Idle' => Todo' = <<>>
           /\ \A do \in {"bind", "unbind", "ensure", "delete", "deactivate", "activate", "seed"} :
                 At(do)' <=> 1 \in 1 .. Len(Todo') /\ Todo'[1].do = do
           /\ Len(Todo') \in Nat /\ (1 \in 1 .. Len(Todo') => Next1' = Todo'[1])
  <1>1. Todo' \in Seq(Steps)
    BY DEF HandlerType, Todo
  <1> QED BY <1>1, SeqIs DEF At, Idle, Next1, Todo

LEMMA ShorterNoBind == ASSUME Typed, Binding, Shorter PROVE NoBind'
  <1>1. \A i \in 1 .. Len(Todo') : Todo'[i] = Todo[i + 1] /\ i + 1 \in 1 .. Len(Todo) /\ i + 1 # 1
    BY ShorterIs
  <1> QED BY <1>1 DEF Binding, NoBind

LEMMA BegunNoBind ==
    ASSUME Typed PROVE (Begun => NoBind') /\ \A e \in AllShown, f \in BOOLEAN : DeleteTopic(e, f) => NoBind'
  <1>1. ASSUME Begun PROVE NoBind'
    BY <1>1 DEF Begun, NoBind
  <1>2. ASSUME NEW e \in AllShown, NEW f \in BOOLEAN, DeleteTopic(e, f) PROVE NoBind'
    BY <1>2, DeleteTopicBegun DEF NoBind
  <1> QED BY <1>1, <1>2

OneRow == \A e, f \in DOMAIN bound : bound[e].topic = bound[f].topic => e = f

LEMMA NoBindBinding == ASSUME HandlerType', NoBind', OneRow' PROVE Binding'
  <1>1. ~At("bind")'
    BY AtHeadNext DEF NoBind
  <1> QED BY <1>1 DEF Binding, NoBind, OneRow

LEMMA OneRowSame == ASSUME Binding, SameTopics PROVE OneRow'
  BY DEF Binding, OneRow, SameTopics

LEMMA BindingStep == Typed /\ Known /\ Binding /\ Deleting /\ Typed' /\ [Next]_vars => Binding'
  <1> SUFFICES ASSUME Typed, Known, Binding, Deleting, Typed', [Next]_vars PROVE Binding'
    OBVIOUS
  <1> HandlerType'
    BY DEF Typed
  <1>1. CASE User
    BY <1>1, UserIs, UserBegun, BegunNoBind, OneRowSame, NoBindBinding
  <1>2. CASE SeedStep \/ Activate \/ Deactivate \/ AlreadyThere \/ DeleteForumTopic
    <2>1. Shorter /\ UNCHANGED bound
      BY <1>2, AdvanceIs DEF SeedStep, Activate, Deactivate, AlreadyThere, DeleteForumTopic, links
    <2> QED BY <2>1, ShorterNoBind, OneRowSame, NoBindBinding DEF SameTopics
  <1>3. CASE CreateTopic
    <2>1. /\ Len(Todo') = Len(Todo) /\ \A i \in 2 .. Len(Todo) : Todo'[i] = Todo[i]
          /\ Todo'[1].do = "bind" /\ Todo'[1].ent = Next1.ent /\ Todo'[1].topic = NewTopic
          /\ TopicAppears /\ Creating /\ Next1.ent \notin DOMAIN bound /\ UNCHANGED bound
          /\ At("ensure")
      BY <1>3, CreateIs DEF links
    <2>2. NewTopic \notin DOMAIN forum /\ NewTopic \in DOMAIN forum'
      BY <2>1, AppearsIs
    <2>3. NewTopic \notin Bindings'
      BY <2>1, <2>2 DEF Bindings, Typed, LinkTypes
    <2>4. 1 \in 1 .. Len(Todo) /\ Len(Todo) \in Nat
      BY <2>1, NextIs, TodoIs
    <2>5. Next1' = Todo'[1]
      BY <2>1, <2>4, AtHeadNext
    <2>6. \A i \in 1 .. Len(Todo') : Todo'[i].do = "bind" => i = 1
      BY <2>1, <2>4 DEF Binding
    <2>7. Next1'.ent \notin DOMAIN bound' /\ Next1'.topic \in DOMAIN forum' /\ Next1'.topic \notin Bindings'
      BY <2>1, <2>2, <2>3, <2>5
    <2>8. \A e, f \in DOMAIN bound' : bound'[e].topic = bound'[f].topic => e = f
      BY <2>1 DEF Binding
    <2> QED BY <2>6, <2>7, <2>8 DEF Binding
  <1>4. CASE BindTopic
    <2>1. Next1.topic \notin Bindings
      BY <1>4 DEF BindTopic, Binding
    <2>2. OneRow'
      BY <1>4, <2>1, BindIs DEF OneRow, Binding, Bindings
    <2> QED BY <1>4, <2>2, BindIs, ShorterNoBind, NoBindBinding
  <1>5. CASE Unbind
    <2>1. OneRow'
      BY <1>5, UnbindIs DEF OneRow, Binding
    <2> QED BY <1>5, <2>1, UnbindIs, ShorterNoBind, NoBindBinding
  <1>6. CASE Refused \/ TimesOut \/ Breaks \/ Crash
    <2>1. Shorter /\ UNCHANGED bound
      BY <1>6, FaultIs DEF links
    <2> QED BY <2>1, ShorterNoBind, OneRowSame, NoBindBinding DEF SameTopics
  <1>7. ASSUME NEW t \in DOMAIN forum, DeletedByHand(t) PROVE Binding'
    <2>1. UNCHANGED <<handler, bound>> /\ DOMAIN forum' = DOMAIN forum
      BY <1>7, GoesIs DEF DeletedByHand, links
    <2> QED BY <2>1 DEF Binding, At, Idle, Next1, Todo, Bindings
  <1>8. CASE UNCHANGED vars
    BY <1>8 DEF vars, links, Binding, At, Idle, Next1, Todo, Bindings
  <1> QED BY <1>1, <1>2, <1>3, <1>4, <1>5, <1>6, <1>7, <1>8 DEF Next, Run, Fault

-----------------------------------------------------------------------------
(* Deletions *)

LEMMA NoDeletes ==
    ASSUME Typed, Deleting, ~At("delete"), ~At("unbind")
    PROVE  \A i \in 1 .. Len(Todo) : Todo[i].do \notin {"delete", "unbind"}
  <1> SUFFICES ASSUME NEW i \in 1 .. Len(Todo), Todo[i].do \in {"delete", "unbind"} PROVE FALSE
    OBVIOUS
  <1>1. 1 \in 1 .. Len(Todo) /\ Todo[1].do \notin {"delete", "unbind"}
    BY AtHead, TodoIs
  <1>2. CASE Todo[i].do = "delete"
    BY <1>1, <1>2 DEF Deleting
  <1>3. CASE Todo[i].do = "unbind"
    <2>1. \/ i = 2 /\ Len(Todo) = 2 /\ Todo[1].do = "delete"
          \/ i = 1 /\ Len(Todo) = 1 /\ ~forum[bound[Todo[i].ent].topic].live
      BY <1>3 DEF Deleting
    <2> QED BY <1>1, <1>3, <2>1
  <1> QED BY <1>2, <1>3

NoDelete == \A i \in 1 .. Len(Todo) : Todo[i].do \notin {"delete", "unbind"}

LEMMA NoDeleteDeleting == NoDelete' => Deleting'
  BY DEF NoDelete, Deleting

LEMMA ShorterNoDelete == ASSUME Typed, NoDelete, Shorter PROVE NoDelete'
  <1>1. \A i \in 1 .. Len(Todo') : Todo'[i] = Todo[i + 1] /\ i + 1 \in 1 .. Len(Todo)
    BY ShorterIs
  <1> QED BY <1>1 DEF NoDelete

\* An error in delete_topic ends the handler.
LEMMA FaultEnds ==
    ASSUME Typed, Deleting, At("delete") \/ At("unbind"), Refused \/ TimesOut \/ Breaks \/ Crash
    PROVE  Todo' = <<>>
  <1>1. ~Next1.quiet
    BY DeleteIs, UnbindMeets
  <1> QED BY <1>1 DEF Refused, TimesOut, Breaks, Crash, Raise, Todo

\* The heads of the steps.
LEMMA HeadsDiffer ==
    ASSUME Typed, NEW do, At(do) PROVE \A other : At(other) => other = do
  BY DEF At

LEMMA DeletingStep == Typed /\ Known /\ Deleting /\ Binding /\ [Next]_vars => Deleting'
  <1> SUFFICES ASSUME Typed, Known, Deleting, Binding, [Next]_vars PROVE Deleting'
    OBVIOUS
  <1>1. CASE User
    <2>1. ASSUME Begun PROVE Deleting'
      BY <2>1, NoDeleteDeleting DEF Begun, NoDelete
    <2>2. ASSUME NEW e \in AllShown, NEW force \in BOOLEAN, DeleteTopic(e, force) PROVE Deleting'
      <3>1. /\ handler'.doing = "other" /\ Len(Todo') = 2
            /\ Todo'[1].do = "delete" /\ Todo'[2].do = "unbind" /\ Todo'[1].ent = e /\ Todo'[2].ent = e
            /\ ~Todo'[1].quiet /\ ~Todo'[2].quiet
            /\ Todo'[1].ws = entities[e].ws /\ Todo'[2].ws = entities[e].ws
            /\ e \in DOMAIN bound /\ entities[e].ws \in DOMAIN group /\ UNCHANGED links
        BY <2>2, DeleteTopicBegun
      <3>2. \A i \in 1 .. Len(Todo') : i = 1 \/ i = 2
        BY <3>1
      <3> QED BY <3>1, <3>2 DEF Deleting, links
    <2> QED BY <1>1, <2>1, <2>2, UserBegun
  <1>2. CASE SeedStep \/ Activate \/ Deactivate \/ AlreadyThere \/ BindTopic
    <2>1. ~At("delete") /\ ~At("unbind") /\ Shorter
      BY <1>2, AdvanceIs, HeadsDiffer DEF SeedStep, Activate, Deactivate, AlreadyThere, BindTopic
    <2> QED BY <2>1, NoDeletes, ShorterNoDelete, NoDeleteDeleting DEF NoDelete
  <1>3. CASE CreateTopic
    <2>1. /\ Len(Todo') = Len(Todo) /\ \A i \in 2 .. Len(Todo) : Todo'[i] = Todo[i]
          /\ Todo'[1].do = "bind" /\ At("ensure") /\ Len(Todo) \in Nat
      BY <1>3, CreateIs, TodoIs
    <2>2. \A i \in 1 .. Len(Todo) : Todo[i].do \notin {"delete", "unbind"}
      BY <2>1, HeadsDiffer, NoDeletes
    <2> QED BY <2>1, <2>2, NoDeleteDeleting DEF NoDelete
  <1>4. CASE DeleteForumTopic
    <2>1. At("delete") /\ TopicGoes /\ Advance /\ UNCHANGED links
      BY <1>4 DEF DeleteForumTopic
    <2>2. /\ handler.doing = "other" /\ ~Next1.quiet /\ Next1.ent \in DOMAIN bound
          /\ Len(Todo) = 2 /\ Todo[2].do = "unbind" /\ Todo[2].ent = Next1.ent
      BY <2>1, DeleteIs
    <2>3. ~forum'[bound[Next1.ent].topic].live
      BY <2>1, TopicGoesIs
    <2>4. Shorter /\ handler'.doing = "other" /\ Len(Todo') = 1 /\ Todo'[1] = Todo[2]
      <3>1. Shorter /\ handler'.doing = handler.doing /\ Todo' = Tail(Todo)
        BY <2>1, AdvanceIs
      <3>2. Todo \in Seq(Steps) /\ Len(Todo) = 2
        BY <2>2, TodoIs
      <3> QED BY <2>2, <3>1, <3>2, TailOfTwo
    <2>5. ~Todo[2].quiet /\ Todo[2].ws \in DOMAIN group
      BY <2>2 DEF Deleting
    <2> QED BY <2>1, <2>2, <2>3, <2>4, <2>5 DEF Deleting, links
  <1>5. CASE Unbind
    <2>1. Len(Todo) = 1
      BY <1>5, UnbindMeets DEF Unbind
    <2>2. Len(Todo') = 0
      BY <1>5, <2>1, UnbindIs, TodoIs, SeqIs
    <2> QED BY <2>2, NoDeleteDeleting DEF NoDelete
  <1>6. CASE Refused \/ TimesOut \/ Breaks \/ Crash
    <2>1. CASE At("delete") \/ At("unbind")
      BY <1>6, <2>1, FaultEnds, EmptySeq, NoDeleteDeleting DEF NoDelete
    <2>2. CASE ~(At("delete") \/ At("unbind"))
      BY <1>6, <2>2, FaultIs, NoDeletes, ShorterNoDelete, NoDeleteDeleting DEF NoDelete
    <2> QED BY <2>1, <2>2
  <1>7. ASSUME NEW t \in DOMAIN forum, DeletedByHand(t) PROVE Deleting'
    <2>1. UNCHANGED <<handler, links>> /\ forum' = [forum EXCEPT ![t].live = FALSE]
      BY <1>7 DEF DeletedByHand
    <2>2. \A s \in DOMAIN forum : ~forum[s].live => ~forum'[s].live
      BY <2>1, GoesIs
    <2>3. \A e \in DOMAIN bound : bound[e].topic \in DOMAIN forum
      BY DEF Typed, LinkTypes
    <2> QED BY <2>1, <2>2, <2>3 DEF Deleting, Todo, links
  <1>8. CASE UNCHANGED vars
    BY <1>8 DEF vars, links, Deleting, Todo
  <1> QED BY <1>1, <1>2, <1>3, <1>4, <1>5, <1>6, <1>7, <1>8 DEF Next, Run, Fault

-----------------------------------------------------------------------------
(* Topics without a row *)

Orphans == {t \in DOMAIN forum : forum[t].live /\ t \notin Bindings /\ ~InHand(t)}

LEMMA OrphansKept ==
    ASSUME Typed, Typed', OrphansPaidFor, Orphans' \subseteq Orphans, slips <= slips' PROVE OrphansPaidFor'
  <1>1. IsFiniteSet(Orphans)
    <2>1. IsFiniteSet(DOMAIN forum) /\ Orphans \subseteq DOMAIN forum
      BY TopicIdsFinite DEF Orphans
    <2> QED BY <2>1, FS_Subset
  <1>2. Cardinality(Orphans') <= Cardinality(Orphans) /\ Cardinality(Orphans') \in Nat /\ Cardinality(Orphans) \in Nat
    BY <1>1, FS_Subset, FS_CardinalityType
  <1>3. Cardinality(Orphans) <= slips
    BY DEF OrphansPaidFor, Orphans
  <1>4. slips \in Nat /\ slips' \in Nat
    BY DEF Typed, Counters
  <1>5. Cardinality(Orphans') <= slips'
    BY <1>2, <1>3, <1>4
  <1> QED BY <1>5 DEF OrphansPaidFor, Orphans

\* A set with one element more at most.
LEMMA OneMore ==
    ASSUME NEW S, IsFiniteSet(S), NEW x, NEW T \in SUBSET (S \cup {x})
    PROVE  IsFiniteSet(T) /\ Cardinality(T) <= Cardinality(S) + 1
  <1>1. IsFiniteSet(S \cup {x}) /\ Cardinality(S) \in Nat
    BY FS_AddElement, FS_CardinalityType
  <1>2. Cardinality(S \cup {x}) = Cardinality(S) \/ Cardinality(S \cup {x}) = Cardinality(S) + 1
    BY FS_AddElement
  <1>3. IsFiniteSet(T) /\ Cardinality(T) <= Cardinality(S \cup {x})
    BY <1>1, FS_Subset
  <1>4. Cardinality(T) \in Nat
    BY <1>3, FS_CardinalityType
  <1> QED BY <1>1, <1>2, <1>3, <1>4

LEMMA OrphansOne ==
    ASSUME Typed, Typed', OrphansPaidFor, NEW t, Orphans' \subseteq Orphans \cup {t}, slips' = slips + 1
    PROVE  OrphansPaidFor'
  <1>1. IsFiniteSet(Orphans)
    <2>1. IsFiniteSet(DOMAIN forum) /\ Orphans \subseteq DOMAIN forum
      BY TopicIdsFinite DEF Orphans
    <2> QED BY <2>1, FS_Subset
  <1>2. Cardinality(Orphans') <= Cardinality(Orphans) + 1
    BY <1>1, OneMore
  <1>4. Cardinality(Orphans') \in Nat /\ Cardinality(Orphans) \in Nat
    <2>1. IsFiniteSet(Orphans')
      BY <1>1, OneMore
    <2> QED BY <1>1, <2>1, FS_CardinalityType
  <1>5. Cardinality(Orphans) <= slips /\ slips \in Nat
    BY DEF OrphansPaidFor, Orphans, Typed, Counters
  <1>6. Cardinality(Orphans') <= slips'
    BY <1>2, <1>4, <1>5
  <1> QED BY <1>6 DEF OrphansPaidFor, Orphans

\* Nothing is in hand, and topics and bindings stay.
LEMMA OrphansSame ==
    ASSUME ~At("bind"), SameTopics, DOMAIN forum' = DOMAIN forum,
           \A t \in DOMAIN forum : forum'[t].live => forum[t].live
    PROVE  Orphans' \subseteq Orphans
  BY DEF Orphans, InHand, Bindings, SameTopics

LEMMA OrphansStep ==
    Typed /\ Known /\ Binding /\ Deleting /\ Typed' /\ OrphansPaidFor /\ [Next]_vars => OrphansPaidFor'
  <1> SUFFICES ASSUME Typed, Known, Binding, Deleting, Typed', OrphansPaidFor, [Next]_vars PROVE OrphansPaidFor'
    OBVIOUS
  <1>1. CASE User
    <2>1. ~At("bind") /\ SameTopics /\ UNCHANGED <<forum, slips>>
      BY <1>1, UserIs, UserBegun, DeleteTopicBegun DEF Begun, At
    <2>2. slips <= slips'
      BY <2>1 DEF Typed, Counters
    <2> QED BY <2>1, <2>2, OrphansSame, OrphansKept
  <1>2. CASE SeedStep \/ Activate \/ Deactivate \/ AlreadyThere
    <2>1. ~At("bind") /\ SameTopics /\ UNCHANGED <<forum, slips>>
      BY <1>2, HeadsDiffer DEF SeedStep, Activate, Deactivate, AlreadyThere, links, faults, SameTopics
    <2>2. slips <= slips'
      BY <2>1 DEF Typed, Counters
    <2> QED BY <2>1, <2>2, OrphansSame, OrphansKept
  <1>3. CASE CreateTopic
    <2>1. /\ At("ensure") /\ Creating /\ TopicAppears /\ UNCHANGED <<bound, slips>>
          /\ Len(Todo') = Len(Todo) /\ Todo'[1].do = "bind" /\ Todo'[1].topic = NewTopic
      BY <1>3, CreateIs DEF links, faults
    <2>2. /\ NewTopic \notin DOMAIN forum /\ DOMAIN forum' = DOMAIN forum \cup {NewTopic}
          /\ \A t \in DOMAIN forum : forum'[t] = forum[t]
      BY <2>1, AppearsIs
    <2>3. At("bind")' /\ Next1'.topic = NewTopic
      <3>1. 1 \in 1 .. Len(Todo') /\ HandlerType'
        BY <2>1, NextIs DEF Typed
      <3>2. At("bind")' /\ Next1' = Todo'[1]
        BY <2>1, <3>1, AtHeadNext
      <3> QED BY <2>1, <3>2
    <2>4. ~At("bind")
      BY <2>1, HeadsDiffer
    <2>5. Orphans' \subseteq Orphans
      <3>1. Bindings' = Bindings
        BY <2>1 DEF Bindings
      <3>2. NewTopic \notin Orphans'
        BY <2>3 DEF Orphans, InHand
      <3>3. \A t \in DOMAIN forum : forum[t].live /\ t \notin Bindings => t \in Orphans
        BY <2>4 DEF Orphans, InHand
      <3>4. \A t \in Orphans' : t \in DOMAIN forum' /\ forum'[t].live /\ t \notin Bindings'
        BY DEF Orphans
      <3> QED BY <2>2, <3>1, <3>2, <3>3, <3>4
    <2>6. slips <= slips'
      BY <2>1 DEF Typed, Counters
    <2> QED BY <2>5, <2>6, OrphansKept
  <1>4. CASE BindTopic
    <2>1. /\ UNCHANGED <<forum, slips>>
          /\ DOMAIN bound' = DOMAIN bound \cup {Next1.ent} /\ Next1.ent \notin DOMAIN bound
          /\ bound'[Next1.ent].topic = Next1.topic /\ \A e \in DOMAIN bound : bound'[e] = bound[e]
      BY <1>4, BindIs DEF faults
    <2>2. Bindings \subseteq Bindings' /\ Next1.topic \in Bindings'
      BY <2>1 DEF Bindings
    <2>3. Orphans' \subseteq Orphans
      BY <2>1, <2>2 DEF Orphans, InHand
    <2>4. slips <= slips'
      BY <2>1 DEF Typed, Counters
    <2> QED BY <2>3, <2>4, OrphansKept
  <1>5. CASE DeleteForumTopic
    <2>1. At("delete") /\ TopicGoes /\ UNCHANGED <<bound, slips>>
      BY <1>5 DEF DeleteForumTopic, links, faults
    <2>2. ~At("bind") /\ SameTopics
      BY <2>1, HeadsDiffer DEF SameTopics
    <2>3. DOMAIN forum' = DOMAIN forum /\ \A t \in DOMAIN forum : forum'[t].live => forum[t].live
      BY <2>1, TopicGoesIs
    <2>4. slips <= slips'
      BY <2>1 DEF Typed, Counters
    <2> QED BY <2>2, <2>3, <2>4, OrphansSame, OrphansKept
  <1>6. CASE Unbind
    <2>1. /\ At("unbind") /\ UNCHANGED <<forum, slips>> /\ DOMAIN bound' = DOMAIN bound \ {Next1.ent}
          /\ \A e \in DOMAIN bound' : bound'[e] = bound[e]
      BY <1>6, UnbindIs DEF faults
    <2>2. ~At("bind") /\ ~forum[bound[Next1.ent].topic].live
      BY <2>1, HeadsDiffer, UnbindMeets
    <2>3. \A t \in Bindings : t \in Bindings' \/ t = bound[Next1.ent].topic
      BY <2>1 DEF Bindings
    <2>4. Orphans' \subseteq Orphans
      BY <2>1, <2>2, <2>3 DEF Orphans, InHand
    <2>5. slips <= slips'
      BY <2>1 DEF Typed, Counters
    <2> QED BY <2>4, <2>5, OrphansKept
  <1>7. CASE Refused \/ TimesOut \/ Breaks \/ Crash
    <2>1. SameTopics
      BY <1>7, FaultIs DEF links, SameTopics
    <2>2. CASE UNCHANGED <<forum, slips>> /\ Calling
      <3>1. ~At("bind")
        BY <2>2, HeadsDiffer DEF Calling, Creating
      <3>2. slips <= slips'
        BY <2>2 DEF Typed, Counters
      <3> QED BY <2>1, <2>2, <3>1, <3>2, OrphansSame, OrphansKept
    <2>3. CASE slips' = slips + 1 /\ UNCHANGED forum
      <3>1. Orphans' \subseteq Orphans \cup {Next1.topic}
        BY <2>1, <2>3 DEF Orphans, InHand, Bindings, SameTopics
      <3> QED BY <2>3, <3>1, OrphansOne
    <2>4. CASE slips' = slips + 1 /\ Creating /\ TopicAppears
      <3>1. ~At("bind")
        BY <2>4, HeadsDiffer DEF Creating
      <3>2. DOMAIN forum' = DOMAIN forum \cup {NewTopic} /\ \A t \in DOMAIN forum : forum'[t] = forum[t]
        BY <2>4, AppearsIs
      <3>3. Orphans' \subseteq Orphans \cup {NewTopic}
        BY <2>1, <3>1, <3>2 DEF Orphans, InHand, Bindings, SameTopics
      <3> QED BY <2>4, <3>3, OrphansOne
    <2>5. CASE slips' = slips + 1 /\ At("delete") /\ TopicGoes
      <3>1. ~At("bind")
        BY <2>5, HeadsDiffer
      <3>2. DOMAIN forum' = DOMAIN forum /\ \A t \in DOMAIN forum : forum'[t].live => forum[t].live
        BY <2>5, TopicGoesIs
      <3>3. slips <= slips'
        BY <2>5 DEF Typed, Counters
      <3> QED BY <2>1, <3>1, <3>2, <3>3, OrphansSame, OrphansKept
    <2> QED BY <1>7, <2>2, <2>3, <2>4, <2>5, FaultIs
  <1>8. ASSUME NEW t \in DOMAIN forum, DeletedByHand(t) PROVE OrphansPaidFor'
    <2>1. UNCHANGED <<handler, bound, slips>> /\ forum' = [forum EXCEPT ![t].live = FALSE]
      BY <1>8 DEF DeletedByHand, links
    <2>2. DOMAIN forum' = DOMAIN forum /\ \A s \in DOMAIN forum : forum'[s].live => forum[s].live
      BY <2>1, GoesIs
    <2>3. Orphans' \subseteq Orphans
      BY <2>1, <2>2 DEF Orphans, InHand, Bindings, At, Idle, Next1
    <2>4. slips <= slips'
      BY <2>1 DEF Typed, Counters
    <2> QED BY <2>3, <2>4, OrphansKept
  <1>9. CASE UNCHANGED vars
    <2>1. UNCHANGED Orphans /\ slips <= slips'
      BY <1>9 DEF vars, links, faults, Orphans, InHand, Bindings, At, Idle, Next1, Typed, Counters
    <2> QED BY <2>1, OrphansKept
  <1> QED BY <1>1, <1>2, <1>3, <1>4, <1>5, <1>6, <1>7, <1>8, <1>9 DEF Next, Run, Fault

-----------------------------------------------------------------------------
(* Rows without their topic *)

LEMMA DeadFinite == ASSUME Typed PROVE IsFiniteSet(DeadRows)
  <1>1. IsFiniteSet(EntityIds)
    <2>1. MaxEntities \in Int /\ 1 \in Int
      BY TopicSizes
    <2> QED BY <2>1, FS_Interval DEF EntityIds
  <1>2. DeadRows \subseteq EntityIds \cup {Next1.ent}
    BY DEF DeadRows, Typed, LinkTypes
  <1> QED BY <1>1, <1>2, OneMore

LEMMA DeadKept ==
    ASSUME Typed, Typed', Dead, DeadRows' \subseteq DeadRows, slips <= slips', hands = hands' PROVE Dead'
  <1>1. IsFiniteSet(DeadRows)
    BY DeadFinite
  <1>2. Cardinality(DeadRows') <= Cardinality(DeadRows) /\ Cardinality(DeadRows') \in Nat /\ Cardinality(DeadRows) \in Nat
    BY <1>1, FS_Subset, FS_CardinalityType
  <1>3. slips \in Nat /\ slips' \in Nat /\ hands \in Nat
    BY DEF Typed, Counters
  <1>4. Cardinality(DeadRows') <= slips' + hands'
    BY <1>2, <1>3 DEF Dead
  <1> QED BY <1>4 DEF Dead

LEMMA DeadOne ==
    ASSUME Typed, Typed', Dead, NEW e, DeadRows' \subseteq DeadRows \cup {e}, slips' + hands' = slips + hands + 1
    PROVE  Dead'
  <1>1. IsFiniteSet(DeadRows)
    BY DeadFinite
  <1>2. IsFiniteSet(DeadRows') /\ Cardinality(DeadRows') <= Cardinality(DeadRows) + 1
    BY <1>1, OneMore
  <1>3. Cardinality(DeadRows') \in Nat /\ Cardinality(DeadRows) \in Nat
    BY <1>1, <1>2, FS_CardinalityType
  <1>4. slips \in Nat /\ hands \in Nat
    BY DEF Typed, Counters
  <1>5. Cardinality(DeadRows') <= slips' + hands'
    BY <1>2, <1>3, <1>4 DEF Dead
  <1> QED BY <1>5 DEF Dead

\* Nothing is taken in hand and no row comes back.
LEMMA DeadSame ==
    ASSUME Typed, ~At("unbind"), ~At("bind")', SameTopics,
           \A t \in DOMAIN forum : forum[t].live => forum'[t].live
    PROVE  DeadRows' \subseteq DeadRows
  <1>1. \A e \in DOMAIN bound : bound[e].topic \in DOMAIN forum
    BY DEF Typed, LinkTypes
  <1> QED BY <1>1 DEF DeadRows, SameTopics

LEMMA NoBindAhead == ASSUME HandlerType', NoBind' PROVE ~At("bind")'
  BY AtHeadNext DEF NoBind

LEMMA DeadStep == Typed /\ Known /\ Binding /\ Deleting /\ Typed' /\ Dead /\ [Next]_vars => Dead'
  <1> SUFFICES ASSUME Typed, Known, Binding, Deleting, Typed', Dead, [Next]_vars PROVE Dead'
    OBVIOUS
  <1> HandlerType'
    BY DEF Typed
  <1>a. \A e \in DOMAIN bound : bound[e].topic \in DOMAIN forum
    BY DEF Typed, LinkTypes
  <1>b. slips \in Nat /\ hands \in Nat /\ slips <= slips
    BY DEF Typed, Counters
  <1>1. CASE User
    <2>1. ~At("unbind") /\ SameTopics /\ UNCHANGED <<forum, slips, hands>>
      BY <1>1, UserIs, UserBegun, DeleteTopicBegun DEF Begun, At
    <2>2. ~At("bind")'
      BY <1>1, UserBegun, BegunNoBind, NoBindAhead
    <2> QED BY <1>b, <2>1, <2>2, DeadSame, DeadKept
  <1>2. CASE SeedStep \/ Activate \/ Deactivate \/ AlreadyThere
    <2>1. ~At("unbind") /\ SameTopics /\ UNCHANGED <<forum, slips, hands>>
      BY <1>2, HeadsDiffer DEF SeedStep, Activate, Deactivate, AlreadyThere, links, faults, SameTopics
    <2>2. Shorter
      BY <1>2, AdvanceIs DEF SeedStep, Activate, Deactivate, AlreadyThere
    <2>3. ~At("bind")'
      BY <2>2, ShorterNoBind, NoBindAhead
    <2> QED BY <1>b, <2>1, <2>3, DeadSame, DeadKept
  <1>3. CASE CreateTopic
    <2>1. /\ At("ensure") /\ Creating /\ TopicAppears /\ UNCHANGED <<bound, slips, hands>>
          /\ Len(Todo') = Len(Todo) /\ Todo'[1].do = "bind" /\ Todo'[1].topic = NewTopic
      BY <1>3, CreateIs DEF links, faults
    <2>2. forum'[NewTopic].live /\ \A t \in DOMAIN forum : forum'[t] = forum[t]
      BY <2>1, AppearsIs
    <2>3. 1 \in 1 .. Len(Todo')
      BY <2>1, NextIs
    <2>4. Next1' = Todo'[1]
      BY <2>3, AtHeadNext
    <2>5. ~At("unbind")
      BY <2>1, HeadsDiffer
    <2>6. DeadRows' \subseteq {e \in DOMAIN bound : ~forum[bound[e].topic].live}
      BY <1>a, <2>1, <2>2, <2>4 DEF DeadRows
    <2>7. {e \in DOMAIN bound : ~forum[bound[e].topic].live} \subseteq DeadRows
      BY <2>5 DEF DeadRows
    <2> QED BY <1>b, <2>1, <2>6, <2>7, DeadKept
  <1>4. CASE BindTopic
    <2>1. /\ UNCHANGED <<forum, slips, hands>> /\ At("bind")
          /\ DOMAIN bound' = DOMAIN bound \cup {Next1.ent} /\ Next1.ent \notin DOMAIN bound
          /\ bound'[Next1.ent].topic = Next1.topic /\ \A e \in DOMAIN bound : bound'[e] = bound[e]
      BY <1>4, BindIs DEF faults, BindTopic
    <2>2. ~At("bind")' /\ ~At("unbind")
      BY <1>4, <2>1, BindIs, ShorterNoBind, NoBindAhead, HeadsDiffer
    <2>3. \A e \in DeadRows' : e \in DOMAIN bound' /\ ~forum'[bound'[e].topic].live
      BY <2>2 DEF DeadRows
    <2>4. \A e \in DOMAIN bound : ~forum[bound[e].topic].live => e \in DeadRows
      BY <2>2 DEF DeadRows
    <2>5. ~forum[Next1.topic].live => Next1.ent \in DeadRows
      BY <2>1 DEF DeadRows
    <2>6. DeadRows' \subseteq DeadRows
      BY <2>1, <2>3, <2>4, <2>5
    <2> QED BY <1>b, <2>1, <2>6, DeadKept
  <1>5. CASE DeleteForumTopic
    <2>1. At("delete") /\ TopicGoes /\ Advance /\ UNCHANGED <<bound, slips, hands>>
      BY <1>5 DEF DeleteForumTopic, links, faults
    <2>2. /\ Next1.ent \in DOMAIN bound /\ Len(Todo) = 2 /\ Todo[2].do = "unbind" /\ Todo[2].ent = Next1.ent
      BY <2>1, DeleteIs
    <2>3. Len(Todo') = 1 /\ Todo'[1] = Todo[2]
      <3>1. Todo' = Tail(Todo)
        BY <2>1, AdvanceIs
      <3>2. Todo \in Seq(Steps) /\ Len(Todo) = 2
        BY <2>2, TodoIs
      <3> QED BY <3>1, <3>2, TailOfTwo
    <2>4. At("unbind")' /\ Next1'.ent = Next1.ent /\ ~At("bind")' /\ ~At("unbind")
      <3>1. 1 \in 1 .. Len(Todo')
        BY <2>3
      <3>2. At("unbind")' /\ Next1' = Todo'[1] /\ ~At("bind")'
        BY <2>2, <2>3, <3>1, AtHeadNext
      <3> QED BY <2>1, <2>2, <2>3, <3>2, HeadsDiffer
    <2>5. \A e \in DeadRows' : e \in DOMAIN bound' /\ ~forum'[bound'[e].topic].live /\ e # Next1.ent
      BY <2>4 DEF DeadRows
    <2>6. \A e \in DOMAIN bound : e # Next1.ent => bound[e].topic # bound[Next1.ent].topic
      BY <2>2 DEF Binding
    <2>7. \A t \in DOMAIN forum : t # bound[Next1.ent].topic => forum'[t] = forum[t]
      BY <2>1, TopicGoesIs
    <2>8. \A e \in DOMAIN bound : ~forum[bound[e].topic].live => e \in DeadRows
      BY <2>4 DEF DeadRows
    <2>9. DeadRows' \subseteq DeadRows
      BY <1>a, <2>1, <2>5, <2>6, <2>7, <2>8
    <2> QED BY <1>b, <2>1, <2>9, DeadKept
  <1>6. CASE Unbind
    <2>1. /\ At("unbind") /\ UNCHANGED <<forum, slips, hands>> /\ DOMAIN bound' = DOMAIN bound \ {Next1.ent}
          /\ \A e \in DOMAIN bound' : bound'[e] = bound[e]
      BY <1>6, UnbindIs DEF faults
    <2>2. ~At("bind")'
      BY <1>6, UnbindIs, ShorterNoBind, NoBindAhead
    <2>3. DeadRows' \subseteq DeadRows
      BY <2>1, <2>2 DEF DeadRows
    <2> QED BY <1>b, <2>1, <2>3, DeadKept
  <1>7. CASE Refused \/ TimesOut \/ Breaks \/ Crash
    <2>1. SameTopics /\ UNCHANGED <<bound, hands>>
      BY <1>7, FaultIs DEF links, SameTopics
    <2>2. ~At("bind")'
      BY <1>7, FaultIs, ShorterNoBind, NoBindAhead
    <2>3. CASE UNCHANGED <<forum, slips>> /\ Calling
      <3>1. ~At("unbind")
        BY <2>3, HeadsDiffer DEF Calling, Creating
      <3> QED BY <1>b, <2>1, <2>2, <2>3, <3>1, DeadSame, DeadKept
    <2>4. CASE slips' = slips + 1
      <3>1. \A e \in DeadRows' : e \in DOMAIN bound /\ ~forum'[bound[e].topic].live
        BY <2>1, <2>2 DEF DeadRows
      <3>2. \A e \in DOMAIN bound : ~forum[bound[e].topic].live /\ e # Next1.ent => e \in DeadRows
        BY DEF DeadRows
      <3>3. \A e \in DOMAIN bound : e # Next1.ent /\ forum[bound[e].topic].live => forum'[bound[e].topic].live
        <4>1. CASE UNCHANGED forum
          BY <4>1
        <4>2. CASE Creating /\ TopicAppears
          BY <1>a, <4>2, AppearsIs
        <4>3. CASE At("delete") /\ TopicGoes
          <5>1. Next1.ent \in DOMAIN bound
            BY <4>3, DeleteIs
          <5>2. \A e \in DOMAIN bound : e # Next1.ent => bound[e].topic # bound[Next1.ent].topic
            BY <5>1 DEF Binding
          <5>3. \A t \in DOMAIN forum : t # bound[Next1.ent].topic => forum'[t] = forum[t]
            BY <4>3, TopicGoesIs
          <5> QED BY <1>a, <5>2, <5>3
        <4> QED BY <1>7, <4>1, <4>2, <4>3, FaultIs
      <3>4. DeadRows' \subseteq DeadRows \cup {Next1.ent}
        BY <3>1, <3>2, <3>3
      <3>5. slips' + hands' = slips + hands + 1
        BY <1>b, <2>1, <2>4
      <3> QED BY <3>4, <3>5, DeadOne
    <2> QED BY <1>7, <2>3, <2>4, FaultIs
  <1>8. ASSUME NEW t \in DOMAIN forum, DeletedByHand(t) PROVE Dead'
    <2>1. /\ UNCHANGED <<handler, bound, slips>> /\ forum' = [forum EXCEPT ![t].live = FALSE]
          /\ hands' = hands + 1
      BY <1>8 DEF DeletedByHand, links
    <2>2. \A s \in DOMAIN forum : s # t => forum'[s] = forum[s]
      BY <2>1, GoesIs
    <2>3. /\ Next1' = Next1 /\ \A do : At(do)' <=> At(do)
      BY <2>1 DEF At, Idle, Next1
    <2>4. At("bind") => Next1.topic \in DOMAIN forum /\ Next1.topic \notin Bindings
      BY DEF Binding
    <2>5. \A e \in DeadRows' : \/ e \in DeadRows
                               \/ e \in DOMAIN bound /\ bound[e].topic = t
                               \/ At("bind") /\ Next1.topic = t /\ e = Next1.ent
      BY <1>a, <2>1, <2>2, <2>3, <2>4 DEF DeadRows
    <2>6. \E x : DeadRows' \subseteq DeadRows \cup {x}
      <3>1. CASE At("bind") /\ Next1.topic = t
        <4>1. DeadRows' \subseteq DeadRows \cup {Next1.ent}
          BY <2>4, <2>5, <3>1 DEF Bindings
        <4> QED BY <4>1
      <3>2. CASE ~(At("bind") /\ Next1.topic = t) /\ \E e \in DOMAIN bound : bound[e].topic = t
        <4>1. PICK f \in DOMAIN bound : bound[f].topic = t
          BY <3>2
        <4>2. \A e \in DOMAIN bound : bound[e].topic = t => e = f
          BY <4>1 DEF Binding
        <4>3. DeadRows' \subseteq DeadRows \cup {f}
          BY <2>5, <3>2, <4>2
        <4> QED BY <4>3
      <3>3. CASE ~(At("bind") /\ Next1.topic = t) /\ ~\E e \in DOMAIN bound : bound[e].topic = t
        <4>1. DeadRows' \subseteq DeadRows \cup {t}
          BY <2>5, <3>3
        <4> QED BY <4>1
      <3> QED BY <3>1, <3>2, <3>3
    <2>7. slips' + hands' = slips + hands + 1
      BY <1>b, <2>1
    <2> QED BY <2>6, <2>7, DeadOne
  <1>9. CASE UNCHANGED vars
    <2>1. UNCHANGED <<DeadRows, slips, hands>>
      BY <1>9 DEF vars, links, faults, DeadRows, At, Idle, Next1
    <2> QED BY <1>b, <2>1, DeadKept
  <1> QED BY <1>1, <1>2, <1>3, <1>4, <1>5, <1>6, <1>7, <1>8, <1>9 DEF Next, Run, Fault

-----------------------------------------------------------------------------
(* Entities that are known *)

\* Until a reset the rows stay, and what they were made as.
Grown ==
    resets' = 0 => /\ resets = 0 /\ DOMAIN entities \subseteq DOMAIN entities'
                   /\ \A e \in DOMAIN entities : entities'[e].birth = entities[e].birth

LEMMA GrownIs == ASSUME Typed, RowChange, UNCHANGED resets \/ ResetEverything PROVE Grown
  <1>1. CASE ResetEverything
    <2>1. resets' # 0
      BY <1>1 DEF ResetEverything, Typed, Counters
    <2> QED BY <2>1 DEF Grown
  <1>2. CASE UNCHANGED resets /\ RowChange /\ ~ResetEverything
    <2>1. CASE UNCHANGED entities
      BY <1>2, <2>1 DEF Grown
    <2>2. ASSUME NEW w \in WsIds, NEW n \in Names, Insert(w, n) PROVE Grown
      BY <1>2, <2>2, InsertIs DEF Grown
    <2>3. ASSUME NEW e \in AllShown, NEW how, Hide(e, how) PROVE Grown
      <3>1. \A f \in DOMAIN entities : entities[f] \in Milestone
        BY RowIs
      <3> QED BY <1>2, <2>3, <3>1 DEF Hide, Grown, Milestone
    <2> QED BY <1>2, <2>1, <2>2, <2>3 DEF RowChange, rows, NewWorkspace, Shelve
  <1> QED BY <1>1, <1>2

LEMMA GrownSame == ASSUME UNCHANGED <<rows, resets>> PROVE Grown
  BY DEF rows, Grown

LEMMA NextGrown == ASSUME Typed, Deleting, Next PROVE Grown
  <1>1. CASE User
    BY <1>1, UserIs, GrownIs
  <1>2. CASE SeedStep
    BY <1>2, SeedStepIs, GrownIs DEF RowChange, faults
  <1>3. CASE Run /\ ~SeedStep
    BY <1>3, GrownSame DEF Run, Activate, Deactivate, AlreadyThere, CreateTopic, BindTopic, DeleteForumTopic, Unbind, faults
  <1>4. CASE Fault
    BY <1>4, FaultIs, GrownSame DEF Fault, DeletedByHand
  <1> QED BY <1>1, <1>2, <1>3, <1>4 DEF Next

\* What the user's command does to what is open.
LEMMA UserActive ==
    ASSUME Typed, User
    PROVE  \/ UNCHANGED active
           \/ active'.ent = None
           \/ \E e \in AllShown : /\ active' = [active EXCEPT !.ent = e] /\ active.ws # None
                                  /\ UNCHANGED rows
  <1> DEFINE Goal == \/ UNCHANGED active
                     \/ active'.ent = None
                     \/ \E e \in AllShown : /\ active' = [active EXCEPT !.ent = e] /\ active.ws # None
                                            /\ UNCHANGED rows
  <1>1. ASSUME NEW seeds \in {<<>>, Seeds}, NEW opens \in BOOLEAN, NewWorkspace(seeds, opens) PROVE Goal
    BY <1>1 DEF NewWorkspace
  <1>2. ASSUME NEW w \in DOMAIN workspaces, NEW n \in Names, AddEntity(w, n) \/ AddMilestone(w, n) PROVE Goal
    BY <1>2 DEF AddEntity, AddMilestone
  <1>3. ASSUME NEW n \in Names, NLCreate(n) PROVE Goal
    BY <1>3 DEF NLCreate
  <1>4. ASSUME NEW w \in DOMAIN workspaces, OpenWorkspace(w) \/ Shelve(w) PROVE Goal
    BY <1>4 DEF OpenWorkspace, Shelve
  <1>5. ASSUME NEW e \in AllShown, AdoptKind(e) \/ UpdateEntity(e) \/ DeleteEntity(e) PROVE Goal
    BY <1>5 DEF AdoptKind, UpdateEntity, Handle, DeleteEntity
  <1>6. ASSUME NEW e \in AllShown, OpenEntity(e) PROVE Goal
    <2>1. active.ws # None
      BY <1>6, RowIs DEF OpenEntity, WsIds, None
    <2> QED BY <1>6, <2>1 DEF OpenEntity
  <1>7. ASSUME NEW e \in AllShown, NEW b \in BOOLEAN, SetLocked(e, b) \/ DeleteTopic(e, b) PROVE Goal
    BY <1>7 DEF SetLocked, DeleteTopic, Handle
  <1>8. ASSUME NEW e \in AllShown, NEW how \in {"archived", "dropped"}, HideMilestone(e, how) PROVE Goal
    BY <1>8 DEF HideMilestone
  <1>9. ASSUME NEW e \in DOMAIN entities, EnsureTopic(e) PROVE Goal
    BY <1>9 DEF EnsureTopic, Handle
  <1>10. ASSUME NEW c \in Chats, LinkGroup(c) PROVE Goal
    BY <1>10 DEF LinkGroup
  <1>11. ASSUME LogProgress \/ BackfillTopics \/ RepairTopics PROVE Goal
    BY <1>11 DEF LogProgress, BackfillTopics, RepairTopics, EnsureAll, Handle
  <1>12. ASSUME CloseWorkspace \/ ClearStale PROVE Goal
    BY <1>12 DEF CloseWorkspace, ClearStale
  <1>13. ASSUME ResetEverything PROVE Goal
    BY <1>13 DEF ResetEverything
  <1> HIDE DEF Goal
  <1>14. Goal
    BY <1>1, <1>2, <1>3, <1>4, <1>5, <1>6, <1>7, <1>8, <1>9, <1>10, <1>11, <1>12, <1>13, Commands
  <1> QED BY <1>14 DEF Goal

\* The steps left are about entities that exist.
KnownTodo ==
    \A i \in 1 .. Len(Todo) : Todo[i].do # "seed" =>
        Todo[i].ent \in DOMAIN entities \/ (Todo[i].do = "activate" /\ Todo[i].ent = None)

LEMMA KnownShorter ==
    ASSUME Typed, KnownTodo, Shorter, DOMAIN entities \subseteq DOMAIN entities' PROVE KnownTodo'
  <1>1. \A i \in 1 .. Len(Todo') : Todo'[i] = Todo[i + 1] /\ i + 1 \in 1 .. Len(Todo)
    BY ShorterIs
  <1> QED BY <1>1 DEF KnownTodo

\* No bind step is next: what is open and what is bound is known.
LEMMA KnownNoBind ==
    ASSUME HandlerType', NoBind', KnownTodo', active'.ent \in DOMAIN entities' \cup {None},
           DOMAIN bound' \subseteq DOMAIN entities'
    PROVE  Known'
  BY NoBindAhead DEF Known, KnownTodo

\* The step at hand is about an entity that exists.
LEMMA KnownNext ==
    ASSUME Typed, Known, resets = 0, NEW do \in {"ensure", "bind", "activate"}, At(do)
    PROVE  Next1.ent \in DOMAIN entities \/ (do = "activate" /\ Next1.ent = None)
  <1>1. 1 \in 1 .. Len(Todo) /\ Next1 = Todo[1] /\ Next1.do = do
    BY NextIs
  <1> QED BY <1>1 DEF Known

LEMMA KnownStep == Typed /\ Known /\ Binding /\ Deleting /\ Typed' /\ [Next]_vars => Known'
  <1> SUFFICES ASSUME Typed, Known, Binding, Deleting, Typed', [Next]_vars, resets' = 0 PROVE Known'
    BY DEF Known
  <1> HandlerType'
    BY DEF Typed
  <1>9. CASE UNCHANGED vars
    BY <1>9 DEF vars, rows, links, faults, Known, At, Idle, Next1, Todo, BirthOf
  <1> SUFFICES ASSUME Next PROVE Known'
    BY <1>9
  <1>a. /\ resets = 0 /\ DOMAIN entities \subseteq DOMAIN entities'
        /\ \A e \in DOMAIN entities : entities'[e].birth = entities[e].birth
    BY NextGrown DEF Grown
  <1>b. KnownTodo /\ active.ent \in DOMAIN entities \cup {None} /\ DOMAIN bound \subseteq DOMAIN entities
    BY <1>a DEF Known, KnownTodo
  <1>1. CASE User
    <2>1. KnownTodo' /\ NoBind'
      <3>1. CASE Begun
        BY <3>1, BegunNoBind DEF Begun, KnownTodo
      <3>2. ASSUME NEW e \in AllShown, NEW force \in BOOLEAN, DeleteTopic(e, force) PROVE KnownTodo' /\ NoBind'
        <4>1. Len(Todo') = 2 /\ Todo'[1].ent = e /\ Todo'[2].ent = e /\ e \in DOMAIN entities
          BY <3>2, DeleteTopicBegun
        <4>2. \A i \in 1 .. Len(Todo') : i = 1 \/ i = 2
          BY <4>1
        <4> QED BY <1>a, <3>2, <4>1, <4>2, BegunNoBind DEF KnownTodo
      <3> QED BY <1>1, <3>1, <3>2, UserBegun
    <2>2. active'.ent \in DOMAIN entities' \cup {None}
      <3>1. ASSUME NEW e \in AllShown, active' = [active EXCEPT !.ent = e], UNCHANGED rows
            PROVE active'.ent \in DOMAIN entities'
        BY <1>a, <3>1, AllShownIs DEF Typed, ActiveType
      <3> QED BY <1>1, <1>a, <1>b, <3>1, UserActive
    <2>3. DOMAIN bound' \subseteq DOMAIN entities'
      BY <1>1, <1>a, <1>b, UserIs DEF SameTopics
    <2> QED BY <2>1, <2>2, <2>3, KnownNoBind
  <1>2. CASE SeedStep \/ Activate \/ Deactivate \/ AlreadyThere \/ DeleteForumTopic
    <2>1. Shorter /\ UNCHANGED bound
      BY <1>2, AdvanceIs DEF SeedStep, Activate, Deactivate, AlreadyThere, DeleteForumTopic, links
    <2>2. active'.ent \in DOMAIN entities' \cup {None}
      <3>1. CASE Activate
        <4>1. Next1.ent \in DOMAIN entities \cup {None}
          BY <1>a, <3>1, KnownNext DEF Activate
        <4> QED BY <1>a, <3>1, <4>1 DEF Activate
      <3>2. CASE Deactivate
        BY <1>a, <1>b, <3>2, ActiveIs
      <3>3. CASE SeedStep \/ AlreadyThere \/ DeleteForumTopic
        BY <1>a, <1>b, <3>3 DEF SeedStep, AlreadyThere, DeleteForumTopic
      <3> QED BY <1>2, <3>1, <3>2, <3>3
    <2> QED BY <1>a, <1>b, <2>1, <2>2, KnownShorter, ShorterNoBind, KnownNoBind
  <1>3. CASE CreateTopic
    <2>1. /\ At("ensure") /\ Creating /\ TopicAppears /\ UNCHANGED <<entities, bound, active>>
          /\ Len(Todo') = Len(Todo) /\ \A i \in 2 .. Len(Todo) : Todo'[i] = Todo[i]
          /\ Todo'[1].do = "bind" /\ Todo'[1].ent = Next1.ent /\ Todo'[1].topic = NewTopic
      BY <1>3, CreateIs DEF links, rows
    <2>2. Next1.ent \in DOMAIN entities /\ 1 \in 1 .. Len(Todo') /\ Len(Todo) \in Nat
      BY <1>a, <2>1, KnownNext, NextIs, TodoIs
    <2>3. KnownTodo'
      <3>1. \A i \in 1 .. Len(Todo') : i = 1 \/ (i \in 2 .. Len(Todo) /\ i \in 1 .. Len(Todo))
        BY <2>1, <2>2
      <3> QED BY <1>b, <2>1, <2>2, <3>1 DEF KnownTodo
    <2>4. forum'[NewTopic].birth = BirthOf(Next1.ent)
      BY <2>1, AppearsIs
    <2>5. Next1' = Todo'[1]
      BY <2>2, AtHeadNext
    <2>6. forum'[Next1'.topic].birth = BirthOf(Next1.ent)'
      BY <2>1, <2>4, <2>5 DEF BirthOf
    <2> QED BY <1>b, <2>1, <2>3, <2>6 DEF Known, KnownTodo
  <1>4. CASE BindTopic
    <2>1. Next1.ent \in DOMAIN entities
      BY <1>4, <1>a, KnownNext DEF BindTopic
    <2>2. DOMAIN bound' \subseteq DOMAIN entities' /\ UNCHANGED active
      BY <1>4, <1>a, <1>b, <2>1, BindIs
    <2> QED BY <1>4, <1>a, <1>b, <2>2, BindIs, KnownShorter, ShorterNoBind, KnownNoBind
  <1>5. CASE Unbind
    <2>1. DOMAIN bound' \subseteq DOMAIN entities' /\ UNCHANGED active
      BY <1>5, <1>a, <1>b, UnbindIs
    <2> QED BY <1>5, <1>a, <1>b, <2>1, UnbindIs, KnownShorter, ShorterNoBind, KnownNoBind
  <1>6. CASE Refused \/ TimesOut \/ Breaks \/ Crash
    <2>1. DOMAIN bound' \subseteq DOMAIN entities' /\ UNCHANGED active
      BY <1>6, <1>a, <1>b, FaultIs DEF links
    <2> QED BY <1>6, <1>a, <1>b, <2>1, FaultIs, KnownShorter, ShorterNoBind, KnownNoBind
  <1>7. ASSUME NEW t \in DOMAIN forum, DeletedByHand(t) PROVE Known'
    <2>1. UNCHANGED <<entities, bound, active, handler>> /\ forum' = [forum EXCEPT ![t].live = FALSE]
      BY <1>7 DEF DeletedByHand, rows, links
    <2>2. \A s \in DOMAIN forum : forum'[s].birth = forum[s].birth
      BY <2>1, GoesIs
    <2>3. At("bind") => /\ Next1.topic \in DOMAIN forum
                        /\ forum[Next1.topic].birth = BirthOf(Next1.ent)
      BY <1>a DEF Binding, Known
    <2>4. /\ Next1' = Next1 /\ (At("bind")' <=> At("bind")) /\ BirthOf(Next1.ent)' = BirthOf(Next1.ent)
      BY <2>1 DEF At, Idle, Next1, BirthOf
    <2>5. KnownTodo'
      BY <1>b, <2>1 DEF KnownTodo, Todo
    <2> QED BY <1>b, <2>1, <2>2, <2>3, <2>4, <2>5 DEF Known, KnownTodo
  <1> QED BY <1>1, <1>2, <1>3, <1>4, <1>5, <1>6, <1>7 DEF Next, Run, Fault

\* Bindings, and what topics were made for, stay.
LEMMA BelongsSame ==
    ASSUME Typed, Known, TopicBelongs, Grown, SameTopics,
           \A t \in DOMAIN forum : forum'[t].birth = forum[t].birth
    PROVE  TopicBelongs'
  <1> SUFFICES ASSUME resets' = 0, NEW e \in DOMAIN bound' PROVE forum'[bound'[e].topic].birth = BirthOf(e)'
    BY DEF TopicBelongs
  <1>1. e \in DOMAIN bound /\ bound'[e].topic = bound[e].topic /\ bound[e].topic \in DOMAIN forum
    BY DEF SameTopics, Typed, LinkTypes
  <1>2. resets = 0 /\ e \in DOMAIN entities /\ e \in DOMAIN entities' /\ entities'[e].birth = entities[e].birth
    BY <1>1 DEF Grown, Known
  <1>3. forum[bound[e].topic].birth = BirthOf(e)
    BY <1>1, <1>2 DEF TopicBelongs
  <1> QED BY <1>1, <1>2, <1>3 DEF BirthOf

LEMMA BelongsStep == Typed /\ Known /\ Binding /\ Deleting /\ TopicBelongs /\ [Next]_vars => TopicBelongs'
  <1> SUFFICES ASSUME Typed, Known, Binding, Deleting, TopicBelongs, [Next]_vars PROVE TopicBelongs'
    OBVIOUS
  <1>9. CASE UNCHANGED vars
    BY <1>9 DEF vars, rows, links, faults, TopicBelongs, BirthOf
  <1> SUFFICES ASSUME Next PROVE TopicBelongs'
    BY <1>9
  <1>a. Grown
    BY NextGrown
  <1>1. CASE User
    BY <1>1, <1>a, UserIs, BelongsSame
  <1>2. CASE SeedStep \/ Activate \/ Deactivate \/ AlreadyThere
    BY <1>2, <1>a, BelongsSame DEF SeedStep, Activate, Deactivate, AlreadyThere, links, SameTopics
  <1>3. CASE CreateTopic
    <2>1. UNCHANGED bound /\ Creating /\ TopicAppears
      BY <1>3, CreateIs DEF links
    <2>2. \A t \in DOMAIN forum : forum'[t].birth = forum[t].birth
      BY <2>1, AppearsIs
    <2> QED BY <1>a, <2>1, <2>2, BelongsSame DEF SameTopics
  <1>4. CASE BindTopic
    <2> SUFFICES ASSUME resets' = 0, NEW e \in DOMAIN bound' PROVE forum'[bound'[e].topic].birth = BirthOf(e)'
      BY DEF TopicBelongs
    <2>1. /\ UNCHANGED <<entities, forum, resets>> /\ At("bind")
          /\ DOMAIN bound' = DOMAIN bound \cup {Next1.ent}
          /\ bound'[Next1.ent].topic = Next1.topic /\ \A f \in DOMAIN bound : bound'[f] = bound[f]
      BY <1>4, BindIs DEF faults, rows, BindTopic
    <2>2. BirthOf(e)' = BirthOf(e)
      BY <2>1 DEF BirthOf
    <2>3. forum[Next1.topic].birth = BirthOf(Next1.ent)
      BY <2>1 DEF Known
    <2> QED BY <2>1, <2>2, <2>3 DEF TopicBelongs
  <1>5. CASE DeleteForumTopic
    <2>1. At("delete") /\ TopicGoes /\ UNCHANGED bound
      BY <1>5 DEF DeleteForumTopic, links
    <2> QED BY <1>a, <2>1, TopicGoesIs, BelongsSame DEF SameTopics
  <1>6. CASE Unbind
    <2>1. UNCHANGED <<entities, forum, resets>> /\ DOMAIN bound' \subseteq DOMAIN bound
          /\ \A e \in DOMAIN bound' : bound'[e] = bound[e]
      BY <1>6, UnbindIs DEF faults, rows
    <2> QED BY <2>1 DEF TopicBelongs, BirthOf
  <1>7. CASE Refused \/ TimesOut \/ Breaks \/ Crash
    <2>1. SameTopics
      BY <1>7, FaultIs DEF links, SameTopics
    <2>2. \A t \in DOMAIN forum : forum'[t].birth = forum[t].birth
      <3>1. CASE Creating /\ TopicAppears
        BY <3>1, AppearsIs
      <3>2. CASE At("delete") /\ TopicGoes
        BY <3>2, TopicGoesIs
      <3> QED BY <1>7, <3>1, <3>2, FaultIs
    <2> QED BY <1>a, <2>1, <2>2, BelongsSame
  <1>8. ASSUME NEW t \in DOMAIN forum, DeletedByHand(t) PROVE TopicBelongs'
    <2>1. UNCHANGED bound /\ forum' = [forum EXCEPT ![t].live = FALSE]
      BY <1>8 DEF DeletedByHand, links
    <2> QED BY <1>a, <2>1, GoesIs, BelongsSame DEF SameTopics
  <1> QED BY <1>1, <1>2, <1>3, <1>4, <1>5, <1>6, <1>7, <1>8 DEF Next, Run, Fault

-----------------------------------------------------------------------------
(* What is deleted is closed *)

\* Only a deletion makes a deleted row.
LEMMA UserGone ==
    ASSUME Typed, User, NEW f \in DOMAIN entities', entities'[f].gone = "deleted"
    PROVE  (f \in DOMAIN entities /\ entities[f].gone = "deleted") \/ (f \in AllShown /\ DeleteEntity(f))
  <1> DEFINE Goal == (f \in DOMAIN entities /\ entities[f].gone = "deleted") \/ (f \in AllShown /\ DeleteEntity(f))
  <1>a. ASSUME UNCHANGED entities PROVE Goal
    BY <1>a
  <1>b. ASSUME NEW w \in WsIds, NEW n \in Names, Insert(w, n) PROVE Goal
    BY <1>b, InsertIs
  <1>c. ASSUME NEW e \in AllShown, NEW how \in {"archived", "dropped"}, Hide(e, how) PROVE Goal
    <2>1. \A g \in DOMAIN entities : entities[g] \in Milestone
      BY RowIs
    <2> QED BY <1>c, <2>1 DEF Hide, Milestone
  <1>d. ASSUME NEW e \in AllShown, DeleteEntity(e) PROVE Goal
    <2>1. \A g \in DOMAIN entities : g # e => entities'[g] = entities[g]
      BY <1>d DEF DeleteEntity, Hide
    <2>2. DOMAIN entities' = DOMAIN entities
      BY <1>d DEF DeleteEntity, Hide
    <2> QED BY <1>d, <2>1, <2>2
  <1>1. ASSUME NEW seeds \in {<<>>, Seeds}, NEW opens \in BOOLEAN, NewWorkspace(seeds, opens) PROVE Goal
    BY <1>a, <1>1 DEF NewWorkspace
  <1>2. ASSUME NEW w \in DOMAIN workspaces, NEW n \in Names, AddEntity(w, n) \/ AddMilestone(w, n) PROVE Goal
    BY <1>b, <1>2, RowIs DEF AddEntity, AddMilestone
  <1>3. ASSUME NEW n \in Names, NLCreate(n) PROVE Goal
    BY <1>b, <1>3, RowIs DEF NLCreate
  <1>4. ASSUME NEW w \in DOMAIN workspaces, OpenWorkspace(w) \/ Shelve(w) PROVE Goal
    BY <1>a, <1>4 DEF OpenWorkspace, Shelve, rows
  <1>5. ASSUME NEW e \in AllShown, AdoptKind(e) \/ UpdateEntity(e) \/ OpenEntity(e) PROVE Goal
    BY <1>a, <1>5 DEF AdoptKind, UpdateEntity, Handle, OpenEntity, rows
  <1>6. ASSUME NEW e \in AllShown, NEW b \in BOOLEAN, SetLocked(e, b) \/ DeleteTopic(e, b) PROVE Goal
    BY <1>a, <1>6 DEF SetLocked, DeleteTopic, Handle, rows
  <1>7. ASSUME NEW e \in AllShown, NEW how \in {"archived", "dropped"}, HideMilestone(e, how) PROVE Goal
    BY <1>c, <1>7 DEF HideMilestone
  <1>8. ASSUME NEW e \in DOMAIN entities, EnsureTopic(e) PROVE Goal
    BY <1>a, <1>8 DEF EnsureTopic, Handle, rows
  <1>9. ASSUME NEW c \in Chats, LinkGroup(c) PROVE Goal
    BY <1>a, <1>9 DEF LinkGroup, rows
  <1>10. ASSUME LogProgress \/ BackfillTopics \/ RepairTopics PROVE Goal
    BY <1>a, <1>10 DEF LogProgress, BackfillTopics, RepairTopics, EnsureAll, Handle, rows
  <1>11. ASSUME CloseWorkspace \/ ClearStale PROVE Goal
    BY <1>a, <1>11 DEF CloseWorkspace, ClearStale, rows
  <1>12. ASSUME ResetEverything PROVE Goal
    BY <1>12 DEF ResetEverything
  <1> HIDE DEF Goal
  <1>13. Goal
    BY <1>d, <1>1, <1>2, <1>3, <1>4, <1>5, <1>6, <1>7, <1>8, <1>9, <1>10, <1>11, <1>12, Commands
  <1> QED BY <1>13 DEF Goal

\* What a handler will open is not deleted.
OpensShown ==
    \A i \in 1 .. Len(Todo) : Todo[i].do = "activate" /\ Todo[i].ent \in DOMAIN entities
        => entities[Todo[i].ent].gone # "deleted"

\* what is open is deleted
OpenDeleted == active.ent \in DOMAIN entities /\ entities[active.ent].gone = "deleted"

LEMMA NoneIsNoEntity == ASSUME Typed PROVE None \notin DOMAIN entities
  BY RowIs DEF None, EntityIds

LEMMA NoneIsNoEntityNext == ASSUME RowTypes' PROVE None \notin DOMAIN entities'
  BY DEF RowTypes, None

LEMMA OpensShorter ==
    ASSUME Typed, OpensShown, Shorter,
           \A e \in DOMAIN entities' : entities'[e].gone = "deleted" => e \in DOMAIN entities /\ entities[e].gone = "deleted"
    PROVE  OpensShown'
  <1>1. \A i \in 1 .. Len(Todo') : Todo'[i] = Todo[i + 1] /\ i + 1 \in 1 .. Len(Todo)
    BY ShorterIs
  <1> QED BY <1>1 DEF OpensShown

LEMMA ClosingIs ==
    ASSUME Typed, Closing
    PROVE  /\ OpensShown /\ (active.ws = None => active.ent = None)
           /\ slips = 0 /\ OpenDeleted => At("deactivate") /\ Next1.ent = active.ent
  BY DEF Closing, OpensShown, OpenDeleted

\* The parts of Closing' when nothing deleted is open.
LEMMA ClosingNext ==
    ASSUME OpensShown', active'.ws = None => active'.ent = None, slips' = 0 => ~OpenDeleted' PROVE Closing'
  BY DEF Closing, OpensShown, OpenDeleted

LEMMA ClosingUser == ASSUME Typed, Known, Closing, Typed', User PROVE Closing'
  <1>a. /\ OpensShown /\ (active.ws = None => active.ent = None)
        /\ slips = 0 => ~OpenDeleted
    BY ClosingIs, UserBegun, DeleteTopicBegun DEF Begun, At
  <1>b. None \notin DOMAIN entities' /\ UNCHANGED slips
    BY UserIs, NoneIsNoEntityNext DEF Typed
  <1>1. OpensShown'
    <2>1. CASE Begun
      BY <1>b, <2>1 DEF Begun, OpensShown
    <2>2. ASSUME NEW e \in AllShown, NEW force \in BOOLEAN, DeleteTopic(e, force) PROVE OpensShown'
      <3>1. Len(Todo') = 2 /\ Todo'[1].do = "delete" /\ Todo'[2].do = "unbind"
        BY <2>2, DeleteTopicBegun
      <3>2. \A i \in 1 .. Len(Todo') : i = 1 \/ i = 2
        BY <3>1
      <3> QED BY <3>1, <3>2 DEF OpensShown
    <2> QED BY <2>1, <2>2, UserBegun
  <1>2. active'.ws = None => active'.ent = None
    <2>1. ASSUME NEW e \in AllShown, active' = [active EXCEPT !.ent = e], active.ws # None PROVE active'.ws # None
      BY <2>1 DEF Typed, ActiveType
    <2> QED BY <1>a, <2>1, UserActive
  <1>3. CASE \E e \in AllShown : DeleteEntity(e) /\ active'.ent = e
    <2>1. PICK e \in AllShown : DeleteEntity(e) /\ active'.ent = e
      BY <1>3
    <2>2. Len(Todo') = 1 /\ Todo'[1].do = "deactivate" /\ Todo'[1].ent = e
      BY <2>1, DeleteEntityBegun
    <2>3. 1 \in 1 .. Len(Todo') /\ HandlerType'
      BY <2>2 DEF Typed
    <2>4. At("deactivate")' /\ Next1' = Todo'[1]
      BY <2>2, <2>3, AtHeadNext
    <2> QED BY <1>1, <1>2, <2>1, <2>2, <2>4 DEF Closing, OpensShown
  <1>4. CASE ~\E e \in AllShown : DeleteEntity(e) /\ active'.ent = e
    <2>1. slips' = 0 => ~OpenDeleted'
      <3> SUFFICES ASSUME slips' = 0, OpenDeleted' PROVE FALSE
        OBVIOUS
      <3>1. active'.ent \in DOMAIN entities' /\ entities'[active'.ent].gone = "deleted"
        BY DEF OpenDeleted
      <3>2. active'.ent \in DOMAIN entities /\ entities[active'.ent].gone = "deleted"
        BY <1>4, <3>1, UserGone
      <3>3. ASSUME NEW e \in AllShown, active' = [active EXCEPT !.ent = e] PROVE FALSE
        <4>1. active'.ent = e
          BY <3>3 DEF Typed, ActiveType
        <4> QED BY <3>2, <4>1, AllShownIs
      <3>4. UNCHANGED active
        BY <1>b, <3>1, <3>3, UserActive
      <3> QED BY <1>a, <1>b, <3>2, <3>4 DEF OpenDeleted
    <2> QED BY <1>1, <1>2, <2>1, ClosingNext
  <1> QED BY <1>3, <1>4

\* A step that deletes nothing and opens nothing.
LEMMA ClosingShorter ==
    ASSUME Typed, Closing, Shorter, ~At("deactivate") \/ slips' # 0, UNCHANGED <<entities, active>>,
           slips' = 0 => slips = 0
    PROVE  Closing'
  <1>1. OpensShown'
    BY ClosingIs, OpensShorter
  <1>2. slips' = 0 => ~OpenDeleted'
    BY ClosingIs DEF OpenDeleted
  <1> QED BY <1>1, <1>2, ClosingIs, ClosingNext

LEMMA ClosingStep == Typed /\ Known /\ Binding /\ Deleting /\ Typed' /\ Closing /\ [Next]_vars => Closing'
  <1> SUFFICES ASSUME Typed, Known, Binding, Deleting, Typed', Closing, [Next]_vars PROVE Closing'
    OBVIOUS
  <1>1. CASE User
    BY <1>1, ClosingUser
  <1>2. CASE SeedStep
    <2>1. /\ Insert(Next1.ws, Next1.name) /\ Next1.ws \in WsIds /\ Next1.name \in Names
          /\ Shorter /\ At("seed") /\ UNCHANGED <<active, slips>>
      BY <1>2, SeedStepIs DEF faults
    <2>2. \A e \in DOMAIN entities' : entities'[e].gone = "deleted" => e \in DOMAIN entities /\ entities[e].gone = "deleted"
      BY <2>1, InsertIs
    <2>3. OpensShown'
      BY <2>1, <2>2, ClosingIs, OpensShorter
    <2>4. slips' = 0 => ~OpenDeleted'
      BY <2>1, <2>2, ClosingIs, HeadsDiffer DEF OpenDeleted
    <2> QED BY <2>1, <2>3, <2>4, ClosingIs, ClosingNext
  <1>3. CASE Activate
    <2>1. /\ At("activate") /\ active' = [ws |-> Next1.ws, ent |-> Next1.ent] /\ Next1.ws \in WsIds
          /\ UNCHANGED <<entities, slips>> /\ Advance
      BY <1>3, ActiveIs DEF Activate, rows, faults
    <2>2. OpensShown'
      BY <2>1, AdvanceIs, ClosingIs, OpensShorter
    <2>3. ~OpenDeleted'
      <3>1. 1 \in 1 .. Len(Todo) /\ Next1 = Todo[1] /\ Next1.do = "activate"
        BY <2>1, NextIs
      <3>2. Next1.ent \in DOMAIN entities => entities[Next1.ent].gone # "deleted"
        BY <3>1, ClosingIs DEF OpensShown
      <3> QED BY <2>1, <3>2 DEF OpenDeleted
    <2>4. active'.ws # None
      BY <2>1 DEF WsIds, None
    <2> QED BY <2>2, <2>3, <2>4, ClosingNext
  <1>4. CASE Deactivate
    <2>1. /\ At("deactivate") /\ Advance /\ UNCHANGED <<entities, slips>> /\ active'.ws = active.ws
          /\ active'.ent = IF active.ws # None /\ active.ent = Next1.ent THEN None ELSE active.ent
      BY <1>4, ActiveIs DEF Deactivate, rows, faults
    <2>2. OpensShown'
      BY <2>1, AdvanceIs, ClosingIs, OpensShorter
    <2>3. slips' = 0 => ~OpenDeleted'
      BY <2>1, ClosingIs, NoneIsNoEntity DEF OpenDeleted
    <2>4. active'.ws = None => active'.ent = None
      BY <2>1, ClosingIs
    <2> QED BY <2>2, <2>3, <2>4, ClosingNext
  <1>5. CASE AlreadyThere \/ DeleteForumTopic
    <2>1. /\ ~At("deactivate") /\ Shorter /\ UNCHANGED <<entities, active, slips>>
      BY <1>5, AdvanceIs, HeadsDiffer DEF AlreadyThere, DeleteForumTopic, rows, faults
    <2> QED BY <2>1, ClosingShorter
  <1>6. CASE BindTopic
    <2>1. /\ ~At("deactivate") /\ Shorter /\ UNCHANGED <<entities, active, slips>>
      BY <1>6, BindIs, HeadsDiffer DEF BindTopic, rows, faults
    <2> QED BY <2>1, ClosingShorter
  <1>7. CASE Unbind
    <2>1. /\ ~At("deactivate") /\ Shorter /\ UNCHANGED <<entities, active, slips>>
      BY <1>7, UnbindIs, HeadsDiffer DEF rows, faults
    <2> QED BY <2>1, ClosingShorter
  <1>8. CASE CreateTopic
    <2>1. /\ At("ensure") /\ UNCHANGED <<entities, active, slips>> /\ Len(Todo') = Len(Todo)
          /\ Todo'[1].do = "bind" /\ \A i \in 2 .. Len(Todo) : Todo'[i] = Todo[i]
      BY <1>8, CreateIs DEF rows, faults
    <2>2. Len(Todo) \in Nat
      BY TodoIs
    <2>3. \A i \in 1 .. Len(Todo') : i = 1 \/ (i \in 2 .. Len(Todo) /\ i \in 1 .. Len(Todo))
      BY <2>1, <2>2
    <2>4. OpensShown'
      BY <2>1, <2>3, ClosingIs DEF OpensShown
    <2>5. slips' = 0 => ~OpenDeleted'
      BY <2>1, ClosingIs, HeadsDiffer DEF OpenDeleted
    <2> QED BY <2>1, <2>4, <2>5, ClosingIs, ClosingNext
  <1>9. CASE Refused \/ TimesOut \/ Breaks \/ Crash
    <2>1. Shorter /\ UNCHANGED <<entities, active>>
      BY <1>9, FaultIs DEF rows
    <2>2. CASE UNCHANGED slips /\ Calling
      BY <2>1, <2>2, HeadsDiffer, ClosingShorter DEF Calling, Creating
    <2>3. CASE slips' = slips + 1
      <3>1. slips' # 0
        BY <2>3 DEF Typed, Counters
      <3> QED BY <2>1, <3>1, ClosingShorter
    <2> QED BY <1>9, <2>2, <2>3, FaultIs
  <1>10. ASSUME NEW t \in DOMAIN forum, DeletedByHand(t) PROVE Closing'
    <2>1. UNCHANGED <<entities, active, handler, slips>>
      BY <1>10 DEF DeletedByHand, rows
    <2> QED BY <2>1 DEF Closing, At, Idle, Next1, Todo
  <1>11. CASE UNCHANGED vars
    BY <1>11 DEF vars, rows, faults, Closing, At, Idle, Next1, Todo
  <1> QED BY <1>1, <1>2, <1>3, <1>4, <1>5, <1>6, <1>7, <1>8, <1>9, <1>10, <1>11 DEF Next, Run, Fault

-----------------------------------------------------------------------------
(* Repairs *)

\* e has a topic, or the handler holds the step that gives it one.
Held(w, e) ==
    \/ e \in DOMAIN bound
    \/ \E i \in 1 .. Len(Todo) : Todo[i].ent = e /\ (Todo[i].do = "ensure" => Todo[i].ws = w)

RepairDos == \A i \in 1 .. Len(Todo) : Todo[i].do \in {"ensure", "bind"}

LEMMA RepairingIs ==
    Repairing <=> (handler.doing = "repair" => RepairDos /\ \A w \in Mirrored : \A e \in Canonical(w) : Held(w, e))
  BY DEF Repairing, RepairDos, Held

\* A repair goes on: what is no longer held has a topic.
LEMMA RepairShorter ==
    ASSUME Typed, Repairing, handler.doing = "repair", Todo # <<>>, Todo' = Tail(Todo),
           UNCHANGED <<rows, group>>, DOMAIN bound \subseteq DOMAIN bound',
           \A w \in Mirrored : Next1.do = "ensure" /\ Next1.ws = w => Next1.ent \in DOMAIN bound',
           Next1.do = "bind" => Next1.ent \in DOMAIN bound'
    PROVE  Repairing'
  <1>1. RepairDos /\ \A w \in Mirrored : \A e \in Canonical(w) : Held(w, e)
    BY RepairingIs
  <1>2. /\ Mirrored' = Mirrored /\ \A w : Canonical(w)' = Canonical(w)
    BY DEF rows, Mirrored, Canonical, Shown, Namesakes, Before
  <1>3. /\ Len(Todo) \in Nat /\ Todo' \in Seq(Steps) /\ Len(Todo') = Len(Todo) - 1
        /\ \A i \in 1 .. Len(Todo') : Todo'[i] = Todo[i + 1]
    <2>1. Todo \in Seq(Steps)
      BY TodoIs
    <2> QED BY <2>1, SeqIs
  <1>4. RepairDos'
    <2>1. \A i \in 1 .. Len(Todo') : i + 1 \in 1 .. Len(Todo)
      BY <1>3
    <2> QED BY <1>1, <1>3, <2>1 DEF RepairDos
  <1>5. ASSUME NEW w \in Mirrored, NEW e \in Canonical(w) PROVE Held(w, e)'
    <2>1. CASE e \in DOMAIN bound
      BY <2>1 DEF Held
    <2>2. ASSUME NEW i \in 1 .. Len(Todo), Todo[i].ent = e, Todo[i].do = "ensure" => Todo[i].ws = w
          PROVE Held(w, e)'
      <3>1. CASE i = 1
        <4>1. Next1 = Todo[1] /\ Next1.do \in {"ensure", "bind"}
          BY <1>1, <2>2, <3>1, TodoIs DEF RepairDos
        <4>2. e \in DOMAIN bound'
          BY <2>2, <3>1, <4>1
        <4> QED BY <4>2 DEF Held
      <3>2. CASE i # 1
        <4>1. i - 1 \in 1 .. Len(Todo') /\ Todo'[i - 1] = Todo[i]
          BY <1>3, <3>2
        <4> QED BY <2>2, <4>1 DEF Held
      <3> QED BY <3>1, <3>2
    <2> QED BY <1>1, <2>1, <2>2 DEF Held
  <1>6. \A w \in Mirrored' : \A e \in Canonical(w)' : Held(w, e)'
    BY <1>2, <1>5
  <1> QED BY <1>4, <1>6 DEF Repairing, RepairDos, Held

LEMMA RepairUser == ASSUME Typed, Known, User PROVE Repairing'
  <1>1. CASE handler'.doing = "other"
    BY <1>1 DEF Repairing
  <1>2. CASE RepairTopics
    <2> DEFINE E == UNION {Canonical(w) : w \in Mirrored}
    <2>1. EnsureAll("repair", E) /\ E \in SUBSET DOMAIN entities
      BY <1>2, VisitedIs DEF RepairTopics
    <2>2. \A e \in E : e \in E
      OBVIOUS
    <2>3. \A w \in Mirrored : \A e \in Canonical(w) : e \in E /\ entities[e].ws = w
      BY DEF Canonical, Shown
    <2> HIDE DEF E
    <2>4. /\ \A i \in 1 .. Len(Todo') : Todo'[i].do = "ensure"
          /\ \A e \in E : \E i \in 1 .. Len(Todo') : Todo'[i].ent = e /\ Todo'[i].ws = entities[e].ws
          /\ UNCHANGED <<rows, group>>
      BY <2>1, EnsureAllBegun DEF links
    <2>5. Mirrored' = Mirrored /\ \A w : Canonical(w)' = Canonical(w)
      BY <2>4 DEF rows, Mirrored, Canonical, Shown, Namesakes, Before
    <2>6. \A w \in Mirrored' : \A e \in Canonical(w)' :
             \E i \in 1 .. Len(Todo') : Todo'[i].ent = e /\ Todo'[i].ws = w
      BY <2>3, <2>4, <2>5
    <2> QED BY <2>4, <2>6 DEF Repairing
  <1>3. CASE \E e \in AllShown, force \in BOOLEAN : DeleteTopic(e, force)
    BY <1>1, <1>3, DeleteTopicBegun
  <1> QED BY <1>1, <1>2, <1>3, UserBegun

LEMMA RepairStep == Typed /\ Known /\ Binding /\ Deleting /\ Typed' /\ Repairing /\ [Next]_vars => Repairing'
  <1> SUFFICES ASSUME Typed, Known, Binding, Deleting, Typed', Repairing, [Next]_vars PROVE Repairing'
    OBVIOUS
  <1>1. CASE User
    BY <1>1, RepairUser
  <1>2. CASE UNCHANGED vars
    BY <1>2 DEF vars, rows, links, Repairing, Todo, Mirrored, Canonical, Shown, Namesakes, Before
  <1>3. ASSUME NEW t \in DOMAIN forum, DeletedByHand(t) PROVE Repairing'
    BY <1>3 DEF DeletedByHand, rows, links, Repairing, Todo, Mirrored, Canonical, Shown, Namesakes, Before
  <1>4. CASE Refused \/ TimesOut \/ Breaks \/ Crash
    <2>1. handler'.doing = "other"
      BY <1>4, FaultIs
    <2> QED BY <2>1 DEF Repairing
  <1>5. CASE Run
    <2>1. handler'.doing = handler.doing
      <3>1. CASE SeedStep \/ Activate \/ Deactivate \/ AlreadyThere \/ DeleteForumTopic
        BY <3>1, AdvanceIs DEF SeedStep, Activate, Deactivate, AlreadyThere, DeleteForumTopic
      <3> QED BY <1>5, <3>1, CreateIs, BindIs, UnbindIs DEF Run
    <2>2. CASE handler.doing = "other"
      BY <2>1, <2>2 DEF Repairing
    <2>3. CASE handler.doing = "repair"
      <3>1. \A do \in {"seed", "activate", "deactivate", "delete", "unbind"} : ~At(do)
        BY <2>3, AtHead DEF Repairing
      <3>2. CASE AlreadyThere
        <4>1. At("ensure") /\ ~Creating /\ Advance /\ UNCHANGED <<rows, links>>
          BY <3>2 DEF AlreadyThere
        <4>2. Todo' = Tail(Todo) /\ Todo # <<>> /\ Next1.do = "ensure"
          BY <4>1, AdvanceIs DEF At, Idle, Todo
        <4>3. \A w \in Mirrored : Next1.ws = w => Next1.ent \in DOMAIN bound
          BY <4>1 DEF Creating, HasTopic, Mirrored
        <4> QED BY <2>3, <4>1, <4>2, <4>3, RepairShorter DEF links
      <3>3. CASE BindTopic
        <4>1. At("bind") /\ Todo' = Tail(Todo) /\ Todo # <<>> /\ Next1.do = "bind"
          BY <3>3, BindIs DEF BindTopic, At, Idle, Todo
        <4> QED BY <2>3, <3>3, <4>1, BindIs, RepairShorter
      <3>4. CASE CreateTopic
        <4>1. /\ At("ensure") /\ UNCHANGED <<rows, links>> /\ Len(Todo') = Len(Todo)
              /\ Todo'[1].do = "bind" /\ Todo'[1].ent = Next1.ent
              /\ \A i \in 2 .. Len(Todo) : Todo'[i] = Todo[i]
          BY <3>4, CreateIs
        <4>2. Len(Todo) \in Nat /\ 1 \in 1 .. Len(Todo) /\ Next1 = Todo[1]
          BY <4>1, TodoIs, NextIs
        <4>3. \A i \in 1 .. Len(Todo) : i = 1 \/ i \in 2 .. Len(Todo)
          BY <4>2
        <4>4. /\ Mirrored' = Mirrored /\ \A w : Canonical(w)' = Canonical(w)
          BY <4>1 DEF rows, links, Mirrored, Canonical, Shown, Namesakes, Before
        <4>5. RepairDos /\ \A w \in Mirrored : \A e \in Canonical(w) : Held(w, e)
          BY <2>3, RepairingIs
        <4>6. RepairDos'
          BY <4>1, <4>3, <4>5 DEF RepairDos
        <4>7. ASSUME NEW w, NEW e, Held(w, e) PROVE Held(w, e)'
          <5>1. ASSUME NEW i \in 1 .. Len(Todo), Todo[i].ent = e, Todo[i].do = "ensure" => Todo[i].ws = w
                PROVE  Todo'[i].ent = e /\ (Todo'[i].do = "ensure" => Todo'[i].ws = w)
            BY <4>1, <4>2, <4>3, <5>1
          <5> QED BY <4>1, <4>7, <5>1 DEF Held, links
        <4>8. \A w \in Mirrored' : \A e \in Canonical(w)' : Held(w, e)'
          BY <4>4, <4>5, <4>7
        <4> QED BY <4>6, <4>8 DEF Repairing, RepairDos, Held
      <3> QED BY <1>5, <3>1, <3>2, <3>3, <3>4 DEF Run, SeedStep, Activate, Deactivate, DeleteForumTopic, Unbind
    <2>4. handler.doing \in {"other", "repair"}
      BY TodoIs
    <2> QED BY <2>2, <2>3, <2>4
  <1> QED BY <1>1, <1>2, <1>3, <1>4, <1>5 DEF Next, Fault

-----------------------------------------------------------------------------
(* The invariant *)

LEMMA Start == Init => Inv
  <1> SUFFICES ASSUME Init PROVE Inv
    OBVIOUS
  <1>1. /\ workspaces = <<>> /\ entities = <<>> /\ nextWs = 1 /\ nextEnt = 1
        /\ group = <<>> /\ bound = <<>> /\ forum = <<>>
        /\ active = [ws |-> None, ent |-> None]
        /\ handler = [doing |-> "other", todo |-> <<>>]
        /\ born = 0 /\ slips = 0 /\ hands = 0 /\ resets = 0
    BY DEF Init
  <1>2. /\ DOMAIN workspaces = {} /\ DOMAIN entities = {} /\ DOMAIN group = {} /\ DOMAIN bound = {} /\ DOMAIN forum = {}
    BY <1>1
  <1>3. Todo = <<>> /\ Idle /\ Len(Todo) = 0 /\ handler.doing = "other" /\ \A do : ~At(do)
    BY <1>1, EmptySeq DEF Todo, Idle, At
  <1>4. RowTypes
    BY <1>1, <1>2, TopicSizes DEF RowTypes
  <1>5. LinkTypes /\ ForumTypes
    <2>1. DOMAIN forum = 1 .. 0 /\ 0 \in 0 .. MaxTopics
      BY <1>2, TopicSizes
    <2> QED BY <1>2, <2>1 DEF LinkTypes, ForumTypes
  <1>6. ActiveType /\ Counters
    BY <1>1 DEF ActiveType, Counters
  <1>7. HandlerType
    BY <1>1, EmptySeq DEF HandlerType
  <1>8. Binding /\ Deleting /\ TopicBelongs
    BY <1>2, <1>3 DEF Binding, Deleting, TopicBelongs
  <1>9. OrphansPaidFor /\ Dead
    <2>1. Orphans = {} /\ DeadRows = {}
      BY <1>2, <1>3 DEF Orphans, DeadRows
    <2>2. Cardinality(Orphans) = 0 /\ Cardinality(DeadRows) = 0
      BY <2>1, FS_EmptySet
    <2> QED BY <1>1, <2>2 DEF OrphansPaidFor, Orphans, Dead
  <1>10. Known /\ Closing /\ Repairing
    BY <1>1, <1>2, <1>3 DEF Known, Closing, Repairing
  <1> QED BY <1>4, <1>5, <1>6, <1>7, <1>8, <1>9, <1>10 DEF Inv, Typed

LEMMA InvStep == Inv /\ [Next]_vars => Inv'
  <1> SUFFICES ASSUME Inv, [Next]_vars PROVE Inv'
    OBVIOUS
  <1> Typed /\ Binding /\ Deleting /\ OrphansPaidFor /\ Dead /\ Known /\ TopicBelongs /\ Closing /\ Repairing
    BY DEF Inv
  <1>1. Typed'
    BY TypedStep
  <1>2. Binding' /\ Deleting' /\ OrphansPaidFor'
    BY <1>1, BindingStep, DeletingStep, OrphansStep
  <1>3. Dead' /\ Known' /\ TopicBelongs'
    BY <1>1, DeadStep, KnownStep, BelongsStep
  <1>4. Closing' /\ Repairing'
    BY <1>1, ClosingStep, RepairStep
  <1> QED BY <1>1, <1>2, <1>3, <1>4 DEF Inv

\* Whatever the user sends, Telegram refuses, the owner deletes and the process
\* does not survive, the handlers keep to what Inv says of them.
THEOREM Invariance == Spec => []Inv
  <1> QED BY Start, InvStep, PTL DEF Spec

-----------------------------------------------------------------------------
(* What follows *)

\* The tables of workspaces, milestones, groups and topics hold what the code reads
\* back: ids in use lie below their sequence, a binding names a topic that was made.
THEOREM TypeCorrect == Spec => []TypeOK
  <1>1. Inv => TypeOK
    <2> SUFFICES ASSUME Inv PROVE TypeOK
      OBVIOUS
    <2>1. Typed
      BY DEF Inv
    <2>2. DOMAIN forum \subseteq TopicIds
      BY <2>1, TopicIdsFinite
    <2> QED BY <2>1, <2>2 DEF Typed, RowTypes, LinkTypes, ForumTypes, ActiveType, Topic, TypeOK
  <1> QED BY <1>1, Invariance, PTL

\* Each live topic of a group has a row, or is in the hands of the handler that made it:
\* there are no more others than crashes, time-outs and database errors (projection.py).
THEOREM OrphansPaid == Spec => []OrphansPaidFor
  <1>1. Inv => OrphansPaidFor
    BY DEF Inv
  <1> QED BY <1>1, Invariance, PTL

\* No more rows name a deleted topic than the owner deleted by hand and faults
\* interrupted delete_topic (groups_app.py).
THEOREM DeadPaid == Spec => []DeadPaidFor
  <1>1. Inv => DeadPaidFor
    <2> SUFFICES ASSUME Inv PROVE DeadPaidFor
      OBVIOUS
    <2> DEFINE S == {e \in DOMAIN bound : ~forum[bound[e].topic].live /\ ~(At("unbind") /\ Next1.ent = e)}
    <2>1. Typed /\ Dead
      BY DEF Inv
    <2>2. S \subseteq DeadRows
      BY DEF DeadRows
    <2>3. IsFiniteSet(DeadRows)
      BY <2>1, DeadFinite
    <2>4. Cardinality(S) <= Cardinality(DeadRows) /\ Cardinality(S) \in Nat /\ Cardinality(DeadRows) \in Nat
      BY <2>2, <2>3, FS_Subset, FS_CardinalityType
    <2>5. slips \in Nat /\ hands \in Nat
      BY <2>1 DEF Typed, Counters
    <2>6. Cardinality(S) <= slips + hands
      BY <2>1, <2>4, <2>5 DEF Dead
    <2> QED BY <2>6 DEF DeadPaidFor
  <1> QED BY <1>1, Invariance, PTL

\* Until everything is reset the topic an entity is bound to was made for that entity,
\* through any deletions, repairs and crashes between creation and binding.
THEOREM Belongs == Spec => []TopicBelongs
  <1>1. Inv => TopicBelongs
    BY DEF Inv
  <1> QED BY <1>1, Invariance, PTL

\* repair_workspace that met no error leaves no first-of-its-name entity of a linked
\* workspace without a topic, however many there are and whatever happened before.
THEOREM RepairsHeal == Spec => []RepairHeals
  <1>1. Inv => RepairHeals
    <2> SUFFICES ASSUME Inv, handler.doing = "repair", Idle, NEW w \in DOMAIN workspaces,
                        workspaces[w] = "active", w \in DOMAIN group, NEW e \in Canonical(w)
                 PROVE  e \in DOMAIN bound
      BY DEF RepairHeals
    <2>1. Typed /\ Repairing
      BY DEF Inv
    <2>2. w \in Mirrored /\ Len(Todo) = 0
      BY <2>1, TodoIs DEF Mirrored
    <2> QED BY <2>1, <2>2 DEF Repairing
  <1> QED BY <1>1, Invariance, PTL

\* After delete_entity the deleted row is not the active one, unless the process
\* failed between the deletion and the second write (tool_adapters.py).
THEOREM DeletedNotActive == Spec => []DeletedIsNotActive
  <1>1. Inv => DeletedIsNotActive
    BY DEF Inv, Closing, DeletedIsNotActive, At
  <1> QED BY <1>1, Invariance, PTL

=============================================================================
