------------------------ MODULE ConversationProofs -------------------------
(***************************************************************************)
(* Proofs about the conversation, for any titles, drafts and bounds.       *)
(*                                                                         *)
(* A confirmation is carried out at most once, and never after it has been *)
(* cancelled or replaced.  Every step does one of four things to the slot: *)
(* it leaves the prompt in it, puts the next prompt in, empties it, or     *)
(* empties it and carries the prompt out.  SlotInv says that the prompt in *)
(* the slot has been neither carried out nor dropped, and that no later    *)
(* prompt has.                                                             *)
(*                                                                         *)
(* A yes does what the last message presented, and an id reaches the task  *)
(* it was made for.  Inv says that, until a reset, an id is the number of  *)
(* the insertion it came from, in rows, buttons, slot and edits alike, and *)
(* that while a yes is awaited the slot holds what the chat shows.  Each   *)
(* block an action is built from keeps it; an action only has to be one.   *)
(***************************************************************************)
EXTENDS Conversation, FiniteSetTheorems, TLAPS

-----------------------------------------------------------------------------
(* Once and no more: the prompts *)

Fresh(n) == ran[n] = 0 /\ n \notin dropped

Settled(n) == ran[n] \in {0, 1} /\ (ran[n] = 1 => n \notin dropped)

\* The slot is a record with its fields; its values do not matter here.
SlotTyped ==
    /\ chat = [mode |-> chat.mode, pending |-> chat.pending,
               editing |-> chat.editing, partial |-> chat.partial]
    /\ chat.pending = [kind |-> chat.pending.kind, drafts |-> chat.pending.drafts,
                       targets |-> chat.pending.targets, no |-> chat.pending.no]
    /\ asked \in 0 .. MaxPrompts /\ chat.pending.no \in 0 .. asked
    /\ DOMAIN ran = Prompts

\* The inductive invariant
SlotInv ==
    /\ SlotTyped
    /\ \A n \in Prompts : n > asked => Fresh(n)
    /\ chat.pending.no > 0 => Fresh(chat.pending.no)
    /\ \A n \in Prompts : Settled(n)

Keeps ==
    /\ chat'.pending.no = chat.pending.no
    /\ asked' = asked /\ ran' = ran /\ dropped' = dropped

Opens ==
    /\ asked < MaxPrompts /\ asked' = asked + 1 /\ chat'.pending.no = asked + 1
    /\ ran' = ran /\ dropped' = dropped \cup Open

Closes ==
    /\ chat'.pending.no = 0
    /\ asked' = asked /\ ran' = ran /\ dropped' = dropped \cup Open

RunsOut ==
    /\ chat'.pending.no = 0
    /\ asked' = asked /\ dropped' = dropped
    /\ ran' = [ran EXCEPT ![chat.pending.no] = @ + 1]

\* The slot is still a record after the step.
StaysTyped ==
    /\ chat' = [mode |-> chat'.mode, pending |-> chat'.pending,
                editing |-> chat'.editing, partial |-> chat'.partial]
    /\ chat'.pending = [kind |-> chat'.pending.kind, drafts |-> chat'.pending.drafts,
                        targets |-> chat'.pending.targets, no |-> chat'.pending.no]

Shape == StaysTyped /\ (Keeps \/ Opens \/ Closes \/ RunsOut)

-----------------------------------------------------------------------------
(* The shapes of the building blocks *)

\* set_pending_action puts the next prompt into the slot.
LEMMA AskShape ==
    ASSUME SlotTyped, NEW kind, NEW drafts, NEW targets, NEW card,
           Ask(kind, drafts, targets, card)
    PROVE  Shape
<1>1. chat' = [mode |-> "confirming",
               pending |-> [kind |-> kind, drafts |-> drafts, targets |-> targets, no |-> asked + 1],
               editing |-> chat.editing, partial |-> chat.partial]
  BY DEF Ask, SlotTyped
<1>2. StaysTyped /\ chat'.pending.no = asked + 1
  BY <1>1 DEF StaysTyped
<1>3. Opens
  BY <1>2 DEF Opens, Ask
<1> QED
  BY <1>2, <1>3 DEF Shape

\* clear_state leaves no prompt in the slot.
LEMMA IdleShape ==
    ASSUME chat' = Idle
    PROVE  StaysTyped /\ chat'.pending.no = 0
BY DEF StaysTyped, Idle, Nothing, NoPartial

\* A step that clears the slot without acting drops the prompt in it.
LEMMA DropShape ==
    ASSUME ClearState(Open), asked' = asked, ran' = ran
    PROVE  Shape
BY IdleShape DEF ClearState, Closes, Shape

\* A step that clears the slot and acts counts the prompt in it.
LEMMA RunShape ==
    ASSUME ClearState({}), asked' = asked, ran' = [ran EXCEPT ![chat.pending.no] = @ + 1]
    PROVE  Shape
BY IdleShape DEF ClearState, RunsOut, Shape

\* A step that changes the slot's mode or data only leaves its prompt there.
LEMMA KeepShape ==
    ASSUME SlotTyped, asked' = asked, ran' = ran, dropped' = dropped,
           NEW mode, NEW editing, NEW partial, NEW p,
           p = [kind |-> p.kind, drafts |-> p.drafts, targets |-> p.targets, no |-> chat.pending.no],
           chat' = [mode |-> mode, pending |-> p, editing |-> editing, partial |-> partial]
    PROVE  Shape
<1>1. chat'.pending = p /\ chat'.pending.no = chat.pending.no
  OBVIOUS
<1>2. StaysTyped
  BY <1>1 DEF StaysTyped
<1> QED
  BY <1>1, <1>2 DEF Keeps, Shape

-----------------------------------------------------------------------------
(* The shapes of the actions *)

\* Correcting or repeating a prompt leaves it in the slot.
LEMMA AgainShape ==
    ASSUME SlotTyped, NEW p, NEW card, Again(p, card),
           p = [kind |-> p.kind, drafts |-> p.drafts, targets |-> p.targets, no |-> chat.pending.no]
    PROVE  Shape
<1>1. chat' = [mode |-> chat.mode, pending |-> p, editing |-> chat.editing, partial |-> chat.partial]
  BY DEF Again, SlotTyped
<1>2. asked' = asked /\ ran' = ran /\ dropped' = dropped
  BY DEF Again
<1> QED
  BY <1>1, <1>2, KeepShape

\* The pending data keeps its prompt when it gets a time.
LEMMA TimedNumber ==
    ASSUME SlotTyped
    PROVE  /\ chat.pending = [kind |-> chat.pending.kind, drafts |-> chat.pending.drafts,
                              targets |-> chat.pending.targets, no |-> chat.pending.no]
           /\ LET p == Stored(Timed(chat.pending))
              IN p = [kind |-> p.kind, drafts |-> p.drafts, targets |-> p.targets, no |-> chat.pending.no]
<1>1. chat.pending = [kind |-> chat.pending.kind, drafts |-> chat.pending.drafts,
                      targets |-> chat.pending.targets, no |-> chat.pending.no]
  BY DEF SlotTyped
<1> DEFINE ds == {[d EXCEPT !.timed = TRUE] : d \in chat.pending.drafts}
<1>2. Stored(Timed(chat.pending)) = [chat.pending EXCEPT !.drafts = ds]
  BY DEF Stored, Timed
<1> HIDE DEF ds
<1>3. Stored(Timed(chat.pending)) =
        [kind |-> chat.pending.kind, drafts |-> ds, targets |-> chat.pending.targets, no |-> chat.pending.no]
  BY <1>1, <1>2
<1> QED
  BY <1>1, <1>3

\* A reply runs, drops, repeats or corrects the prompt it answers.
LEMMA ReplyShape ==
    ASSUME SlotTyped, NEW said, Reply(said)
    PROVE  Shape
<1>1. ASSUME Run PROVE Shape
  BY <1>1, RunShape DEF Run
<1>2. ASSUME Drop PROVE Shape
  BY <1>2, DropShape DEF Drop
<1>3. ASSUME NEW card, Again(chat.pending, card) PROVE Shape
  BY <1>3, AgainShape, TimedNumber
<1>4. ASSUME NEW card, Again(Stored(Timed(chat.pending)), card) PROVE Shape
  BY <1>4, AgainShape, TimedNumber
<1>5. ASSUME ReplyToReset(said) PROVE Shape
  BY <1>5, <1>1, <1>2 DEF ReplyToReset
<1>6. ASSUME ReplyToOffline(said) PROVE Shape
  BY <1>6, <1>1, <1>2, <1>3 DEF ReplyToOffline
<1>7. ASSUME ReplyToLegacy(said) PROVE Shape
  BY <1>7, <1>1, <1>2, <1>3, <1>4 DEF ReplyToLegacy
<1> QED
  BY <1>5, <1>6, <1>7 DEF Reply

\* Asking for what is missing leaves the slot alone.
LEMMA GatherShape ==
    ASSUME SlotTyped, NEW partial, Gather(partial)
    PROVE  Shape
<1>1. chat' = [mode |-> "gathering", pending |-> chat.pending,
               editing |-> chat.editing, partial |-> partial]
  BY DEF Gather, SlotTyped
<1>2. asked' = asked /\ ran' = ran /\ dropped' = dropped
  BY DEF Gather
<1> QED
  BY <1>1, <1>2, KeepShape DEF SlotTyped

\* The Edit button leaves the slot alone.
LEMMA EditButtonShape ==
    ASSUME SlotTyped, NEW ref, EditButton(ref)
    PROVE  Shape
<1>1. chat' = [mode |-> "editing", pending |-> chat.pending,
               editing |-> {ref}, partial |-> chat.partial]
  BY DEF EditButton, SlotTyped
<1>2. asked' = asked /\ ran' = ran /\ dropped' = dropped
  BY DEF EditButton
<1> QED
  BY <1>1, <1>2, KeepShape DEF SlotTyped

\* The menu's Add Task empties the slot.
LEMMA AddTaskShape ==
    ASSUME AddTask
    PROVE  Shape
<1>1. chat' = [mode |-> "gathering", pending |-> Nothing, editing |-> {}, partial |-> NoPartial]
  BY DEF AddTask, Idle
<1>2. StaysTyped /\ chat'.pending.no = 0
  BY <1>1 DEF StaysTyped, Nothing
<1> QED
  BY <1>2 DEF AddTask, Closes, Shape

\* A command that works on a row at once leaves the slot alone.
LEMMA DirectShape ==
    ASSUME SlotTyped, chat' = chat, asked' = asked, ran' = ran, dropped' = dropped
    PROVE  Shape
BY DEF SlotTyped, StaysTyped, Keeps, Shape

\* Every message has one of the shapes.
LEMMA MessageShape ==
    ASSUME SlotTyped, Message
    PROVE  Shape
<1>1. CASE \E said \in Replies : Reply(said)
  BY <1>1, ReplyShape
<1>2. ASSUME NEW d \in Drafts,
             AskCreate(d) \/ AskAmPm(d) \/ AskHabit(d) \/ AskOfflineAdd(d) \/ GatherReply(d)
      PROVE Shape
  BY <1>2, AskShape DEF AskCreate, AskAmPm, AskHabit, AskOfflineAdd, GatherReply, Propose
<1>3. ASSUME NEW d \in Drafts, (\E titled \in BOOLEAN : AskMissing(d, titled)) \/ GatherAgain(d)
      PROVE Shape
  BY <1>3, GatherShape DEF AskMissing, GatherAgain
<1>4. ASSUME NEW D \in Lists, AskMultiple(D) PROVE Shape
  BY <1>4, AskShape DEF AskMultiple, Propose
<1>5. ASSUME NEW r \in tasks, AskDelete(r) \/ AskOfflineDelete(r) PROVE Shape
  BY <1>5, AskShape DEF AskDelete, AskOfflineDelete, Propose
<1>6. CASE AskWorker
  BY <1>6, AskShape DEF AskWorker, Propose
<1>7. ASSUME NEW t \in Titles, EditReply(t) PROVE Shape
  BY <1>7, DropShape DEF EditReply
<1>8. CASE EditLeave
  BY <1>8, DropShape DEF EditLeave, Drop
<1>9. ASSUME NEW ref \in seen, EditIntent(ref) PROVE Shape
  BY <1>9, DirectShape DEF EditIntent, Directly
<1> QED
  BY <1>1, <1>2, <1>3, <1>4, <1>5, <1>6, <1>7, <1>8, <1>9 DEF Message

\* Every command and button has one of the shapes.
LEMMA CommandShape ==
    ASSUME SlotTyped, Command
    PROVE  Shape
<1>1. CASE Cancel
  BY <1>1, DropShape DEF Cancel, Drop
<1>2. CASE AddTask
  BY <1>2, AddTaskShape
<1>3. CASE ResetTasks \/ ResetAll
  BY <1>3, AskShape DEF ResetTasks, ResetAll, Propose
<1>4. ASSUME NEW d \in Drafts, Template(d) PROVE Shape
  BY <1>4, AskShape DEF Template, Propose
<1>5. ASSUME NEW r \in tasks, NEW D \in Lists, Breakdown(r, D) PROVE Shape
  BY <1>5, AskShape DEF Breakdown, Propose
<1>6. ASSUME NEW T, Plan(T) PROVE Shape
  BY <1>6, AskShape DEF Plan, Propose
<1>7. ASSUME NEW D \in Lists, Photo(D) PROVE Shape
  BY <1>7, AskShape DEF Photo, Propose
<1>8. ASSUME NEW ref \in seen, DeleteCommand(ref) \/ DoneButton(ref) PROVE Shape
  BY <1>8, DirectShape DEF DeleteCommand, DoneButton, Directly
<1>9. ASSUME NEW ref \in seen, EditButton(ref) PROVE Shape
  BY <1>9, EditButtonShape
<1>10. CASE VisionSave
  BY <1>10, RunShape DEF VisionSave
<1> QED
  BY <1>1, <1>2, <1>3, <1>4, <1>5, <1>6, <1>7, <1>8, <1>9, <1>10 DEF Command

-----------------------------------------------------------------------------
(* The invariant *)

\* The bounds are numbers, and prompts are numbered from one.
LEMMA PromptNumbers == MaxPrompts \in Nat /\ Prompts \subseteq Nat /\ \A n \in Prompts : n > 0
BY ConversationSizes DEF Prompts

\* A step of any shape preserves the invariant.
LEMMA ShapePreserves ==
    ASSUME SlotInv, Shape
    PROVE  SlotInv'
<1> USE PromptNumbers
<1> DEFINE c == chat.pending.no
<1>0. asked \in Nat /\ c \in Nat /\ c <= asked
  BY DEF SlotInv, SlotTyped
<1>a. \A n \in Prompts : n > asked => n # c /\ Fresh(n)
  <2>1. ASSUME NEW n \in Prompts, n > asked PROVE n # c
    BY <1>0, <2>1
  <2> QED  BY <2>1 DEF SlotInv
<1>1. CASE Keeps
  BY <1>1 DEF SlotInv, SlotTyped, Shape, StaysTyped, Keeps, Fresh, Settled
<1>2. CASE Opens
  <2>1. SlotTyped'
    BY <1>0, <1>2 DEF SlotInv, SlotTyped, Shape, StaysTyped, Opens
  <2>2. Open \subseteq {c} /\ (c = 0 => Open = {})
    BY DEF Open
  <2>3. \A n \in Prompts : n > asked => Fresh(n)'
    BY <1>2, <1>a, <2>2 DEF Opens, Fresh
  <2>4. \A n \in Prompts : Settled(n)'
    <3>1. ASSUME NEW n \in Prompts PROVE Settled(n)'
      <4>1. CASE n = c
        <5>1. n > 0
          OBVIOUS
        <5>2. Fresh(n)
          BY <4>1, <5>1 DEF SlotInv
        <5> QED  BY <1>2, <5>2 DEF Opens, Fresh, Settled
      <4>2. CASE n # c
        BY <1>2, <2>2, <4>2 DEF SlotInv, Opens, Settled
      <4> QED  BY <4>1, <4>2
    <3> QED  BY <3>1
  <2>5. asked + 1 \in Prompts
    BY <1>0, <1>2 DEF Opens, Prompts
  <2>6. \A n \in Prompts : n > asked' => n > asked
    <3>1. ASSUME NEW n \in Prompts, n > asked + 1 PROVE n > asked
      BY <1>0, <3>1
    <3> QED  BY <1>2, <3>1 DEF Opens
  <2>7. Fresh(chat.pending.no)'
    BY <1>0, <1>2, <2>3, <2>5 DEF Opens, Fresh
  <2> QED  BY <2>1, <2>3, <2>4, <2>6, <2>7 DEF SlotInv
<1>3. CASE Closes
  <2>1. SlotTyped'
    BY <1>0, <1>3 DEF SlotInv, SlotTyped, Shape, StaysTyped, Closes
  <2>2. Open \subseteq {c} /\ (c = 0 => Open = {})
    BY DEF Open
  <2>3. \A n \in Prompts : n > asked => Fresh(n)'
    BY <1>3, <1>a, <2>2 DEF Closes, Fresh
  <2>4. ASSUME NEW n \in Prompts PROVE Settled(n)'
    <3>1. CASE n = c
      <4>1. Fresh(n)
        BY <3>1 DEF SlotInv
      <4> QED  BY <1>3, <4>1 DEF Closes, Fresh, Settled
    <3>2. CASE n # c
      BY <1>3, <2>2, <3>2 DEF SlotInv, Closes, Settled
    <3> QED  BY <3>1, <3>2
  <2>5. asked' = asked /\ ~(chat'.pending.no > 0)
    BY <1>3 DEF Closes
  <2> QED  BY <2>1, <2>3, <2>4, <2>5 DEF SlotInv
<1>4. CASE RunsOut
  <2>1. SlotTyped'
    BY <1>0, <1>4 DEF SlotInv, SlotTyped, Shape, StaysTyped, RunsOut
  <2>2. \A n \in Prompts : n # c => ran'[n] = ran[n]
    BY <1>4 DEF RunsOut, SlotInv, SlotTyped
  <2>3. c \in Prompts => ran'[c] = ran[c] + 1
    BY <1>4 DEF RunsOut, SlotInv, SlotTyped
  <2>4. \A n \in Prompts : n > asked => Fresh(n)'
    BY <1>4, <1>a, <2>2 DEF RunsOut, Fresh
  <2>5. ASSUME NEW n \in Prompts PROVE Settled(n)'
    <3>1. CASE n = c
      <4>1. Fresh(n)
        BY <3>1 DEF SlotInv
      <4> QED  BY <1>4, <2>3, <3>1, <4>1 DEF RunsOut, Fresh, Settled
    <3>2. CASE n # c
      BY <1>4, <2>2, <3>2 DEF SlotInv, RunsOut, Settled
    <3> QED  BY <3>1, <3>2
  <2>6. asked' = asked /\ ~(chat'.pending.no > 0)
    BY <1>4 DEF RunsOut
  <2> QED  BY <2>1, <2>4, <2>5, <2>6 DEF SlotInv
<1> QED
  BY <1>1, <1>2, <1>3, <1>4 DEF Shape

\* Every step preserves the invariant.
LEMMA SlotStep ==
    ASSUME SlotInv, [Next]_vars
    PROVE  SlotInv'
<1>0. SlotTyped
  BY DEF SlotInv
<1>1. CASE Message
  BY <1>0, <1>1, MessageShape, ShapePreserves
<1>2. CASE Command
  BY <1>0, <1>2, CommandShape, ShapePreserves
<1>3. CASE Restart
  BY <1>3, DropShape, ShapePreserves DEF Restart
<1>4. CASE UNCHANGED vars
  BY <1>4 DEF vars, SlotInv, SlotTyped, Fresh, Settled
<1> QED
  BY <1>1, <1>2, <1>3, <1>4 DEF Next

\* The empty slot satisfies the invariant.
LEMMA SlotInit == ASSUME Init PROVE SlotInv
BY PromptNumbers DEF Init, SlotInv, SlotTyped, Idle, Nothing, NoPartial, Fresh, Settled

\* A confirmation is carried out at most once, and never once it was cancelled or
\* replaced: main.py clears the slot before it acts, and every other way out of
\* the confirming state clears or overwrites it too.
THEOREM Settlement == Spec => []SettledOnce
<1>1. SlotInv => SettledOnce
  BY DEF SlotInv, Settled, SettledOnce
<1>2. Init => SlotInv
  BY SlotInit
<1>3. SlotInv /\ [Next]_vars => SlotInv'
  BY SlotStep
<1> QED
  BY <1>1, <1>2, <1>3, PTL DEF Spec

-----------------------------------------------------------------------------
(* Types *)

Modes == {"idle", "confirming", "gathering", "editing"}

ChatTypes ==
    /\ chat \in [mode : Modes, pending : Action, editing : SUBSET Ref, partial : Partial]
    /\ IsFiniteSet(chat.pending.drafts)
    /\ chat.pending.kind = "subtasks" => chat.pending.targets # {}
    /\ chat.mode = "confirming" => chat.pending.no > 0

OneEach(rows) == \A r, s \in rows : r.id = s.id => r = s

RowTypes ==
    /\ tasks \subseteq Row /\ seen \subseteq Ref /\ born \in 0 .. MaxRows /\ nextId \in 1 .. born + 1
    /\ OneEach(tasks) /\ \A r \in tasks : r.id < nextId

LogTypes ==
    /\ shown \in Card /\ asked \in 0 .. MaxPrompts /\ faults \in Nat /\ resets \in Nat
    /\ ran \in [Prompts -> Nat] /\ dropped \subseteq Prompts

Typed == ChatTypes /\ RowTypes /\ LogTypes

\* Before a reset ids count the rows ever inserted, so an id names one birth.
Same(refs) == \A r \in refs : r.birth = r.id

RowIds == nextId = born + 1 /\ Same(tasks) /\ Same(seen)

SlotIds == Same(chat.pending.targets) /\ Same(chat.editing)

Ids == resets = 0 => RowIds /\ SlotIds

\* What waits for a yes is what the last message said.
Presented ==
    faults = 0 /\ chat.mode = "confirming" /\ chat.pending.kind \in Described /\ shown.kind # "question"
        => CardOf(chat.pending) = shown

Inv == Typed /\ Ids /\ Presented /\ ReferencesHold /\ NoSurprise

LEMMA ChatIs ==
    ASSUME Typed
    PROVE  /\ chat.mode \in Modes /\ chat.pending \in Action /\ chat.editing \subseteq Ref /\ chat.partial \in Partial
           /\ chat.pending.kind \in Kinds \cup {"none"} /\ chat.pending.drafts \subseteq Draft
           /\ chat.pending.targets \subseteq Ref /\ chat.pending.no \in 0 .. MaxPrompts
           /\ IsFiniteSet(chat.pending.drafts)
           /\ chat = [mode |-> chat.mode, pending |-> chat.pending, editing |-> chat.editing, partial |-> chat.partial]
           /\ CardOf(chat.pending) \in Card
  <1>1. /\ chat \in [mode : Modes, pending : Action, editing : SUBSET Ref, partial : Partial]
        /\ IsFiniteSet(chat.pending.drafts)
    BY DEF Typed, ChatTypes
  <1>2. chat.pending \in Action
    BY <1>1
  <1>3. CardOf(chat.pending) \in Card
    BY <1>2 DEF Action, CardOf, Card
  <1> QED BY <1>1, <1>2, <1>3 DEF Action

LEMMA NothingIs ==
    /\ Nothing \in Action /\ Nothing.kind = "none" /\ Nothing.no = 0 /\ Nothing.targets = {} /\ Nothing.drafts = {}
    /\ NoPartial \in Partial
  BY ConversationSizes DEF Nothing, Action, NoPartial, Partial

LEMMA CardsIs ==
    /\ NoCard \in Card /\ NoCard.kind = "none" /\ Question \in Card /\ Question.kind = "question"
    /\ Untitled \in Card
  <1>1. NoCard = [kind |-> "none", drafts |-> {}, targets |-> {}]
    BY DEF NoCard, CardOf, Nothing
  <1>2. Question = [kind |-> "question", drafts |-> {}, targets |-> {}]
    BY <1>1 DEF Question
  <1>3. Untitled = [kind |-> "create", drafts |-> {}, targets |-> {}]
    BY <1>1 DEF Untitled
  <1> QED BY <1>1, <1>2, <1>3 DEF Card, Kinds, Described

LEMMA IdleIs ==
    /\ Idle \in [mode : Modes, pending : Action, editing : SUBSET Ref, partial : Partial]
    /\ Idle.mode = "idle" /\ Idle.pending = Nothing /\ Idle.editing = {}
  BY NothingIs DEF Idle, Modes

\* The slot is empty.
LEMMA IdleTypes == ASSUME chat' = Idle PROVE ChatTypes' /\ (chat'.mode # "confirming") /\ chat'.pending.targets = {} /\ chat'.editing = {}
  <1>1. IsFiniteSet({})
    BY FS_EmptySet
  <1> QED BY <1>1, IdleIs, NothingIs DEF ChatTypes

LEMMA DraftIs ==
    ASSUME NEW d \in Draft, NEW t \in BOOLEAN
    PROVE  /\ d.title \in Titles /\ d.dated \in BOOLEAN /\ d.timed \in BOOLEAN /\ d.phrased \in BOOLEAN
           /\ Phrased(d) \in Draft /\ Plain(d) \in Draft /\ [d EXCEPT !.timed = t] \in Draft
  BY DEF Draft, Phrased, Plain

LEMMA DraftsIs == Drafts \subseteq Draft /\ IsFiniteSet(Drafts)
  BY DraftsTyped DEF Draft

LEMMA OneDraft == ASSUME NEW d \in Draft PROVE {d} \in SUBSET Draft /\ IsFiniteSet({d})
  BY FS_Singleton

LEMMA NoDrafts == {} \in SUBSET Draft /\ IsFiniteSet({})
  BY FS_EmptySet

LEMMA PlainDrafts ==
    ASSUME NEW D \in Lists
    PROVE  {Plain(d) : d \in D} \in SUBSET Draft /\ IsFiniteSet({Plain(d) : d \in D})
  <1> DEFINE f == [d \in D |-> Plain(d)]
  <1>1. D \subseteq Drafts
    BY DEF Lists
  <1>2. IsFiniteSet(D) /\ D \subseteq Draft
    BY <1>1, DraftsIs, FS_Subset
  <1>4. IsFiniteSet({Plain(d) : d \in D})
    <2>1. f \in Surjection(D, {Plain(d) : d \in D})
      BY DEF Surjection
    <2> QED BY <1>2, <2>1, FS_Surjection
  <1>5. \A d \in D : Plain(d) \in Draft
    BY <1>2, DraftIs
  <1> QED BY <1>4, <1>5

LEMMA TimedIs ==
    ASSUME Typed
    PROVE  LET p == Timed(chat.pending)
           IN /\ p \in Action /\ p.kind = chat.pending.kind /\ p.targets = chat.pending.targets
              /\ p.no = chat.pending.no /\ IsFiniteSet(p.drafts)
  <1> DEFINE D == chat.pending.drafts
             ds == {[d EXCEPT !.timed = TRUE] : d \in D}
             f == [d \in D |-> [d EXCEPT !.timed = TRUE]]
  <1>1. chat.pending \in Action /\ D \subseteq Draft /\ IsFiniteSet(D)
    BY ChatIs
  <1>2. f \in Surjection(D, ds)
    BY DEF Surjection
  <1>3. IsFiniteSet(ds)
    <2> HIDE DEF ds, f
    <2> QED BY <1>1, <1>2, FS_Surjection
  <1>4. ds \in SUBSET Draft
    <2>1. \A d \in D : [d EXCEPT !.timed = TRUE] \in Draft
      BY <1>1, DraftIs
    <2> QED BY <2>1
  <1>5. Timed(chat.pending) = [chat.pending EXCEPT !.drafts = ds]
    BY DEF Timed
  <1> HIDE DEF ds, f
  <1> QED BY <1>1, <1>3, <1>4, <1>5 DEF Action


-----------------------------------------------------------------------------
(* The table *)

\* A finite set as a sequence: one entry per element.
LEMMA AsSequence ==
    ASSUME NEW S, IsFiniteSet(S)
    PROVE  /\ Cardinality(S) \in Nat /\ Len(SetToSeq(S)) = Cardinality(S)
           /\ \A i \in 1 .. Len(SetToSeq(S)) : SetToSeq(S)[i] \in S
  <1> DEFINE n == Cardinality(S)
  <1>1. n \in Nat /\ ExistsBijection(1 .. n, S)
    BY FS_CardinalityType
  <1>2. PICK f : f \in Bijection(1 .. n, S)
    BY <1>1 DEF ExistsBijection
  <1>3. f \in [1 .. n -> S] /\ IsInjective(f)
    BY <1>2 DEF Bijection, Injection, IsInjective
  <1>4. SetToSeq(S) \in [1 .. n -> S]
    BY <1>3 DEF SetToSeq
  <1>5. Len(SetToSeq(S)) = n
    BY <1>1, <1>4
  <1> HIDE DEF n
  <1>6. \A i \in 1 .. n : SetToSeq(S)[i] \in S
    BY <1>4
  <1>7. Len(SetToSeq(S)) \in Nat /\ \A i \in 1 .. Len(SetToSeq(S)) : SetToSeq(S)[i] \in S
    BY <1>1, <1>5, <1>6
  <1> QED BY <1>1, <1>5, <1>7 DEF n

RowKinds == {"task", "habit", "subtask"}

\* New rows have ids and births of their own.
LEMMA InsertRows ==
    ASSUME RowTypes, NEW drafts, drafts \subseteq Draft, IsFiniteSet(drafts), NEW kind \in RowKinds,
           NEW parent \in 0 .. MaxRows, Insert(drafts, kind, parent)
    PROVE  RowTypes' /\ (RowIds => RowIds')
  <1> DEFINE new == SetToSeq(drafts)
             n == Len(new)
             row(i) == [id |-> nextId + i - 1, birth |-> born + i, title |-> new[i].title,
                        dated |-> new[i].dated, timed |-> new[i].timed, deadline |-> new[i].deadline,
                        phrased |-> new[i].phrased, done |-> FALSE, kind |-> kind, parent |-> parent]
             ref(i) == [id |-> nextId + i - 1, birth |-> born + i]
  <1>1. n \in Nat /\ \A i \in 1 .. n : new[i] \in Draft
    BY AsSequence
  <1>2. /\ born + n <= MaxRows /\ born' = born + n /\ nextId' = nextId + n
        /\ tasks' = tasks \cup {row(i) : i \in 1 .. n}
        /\ seen' = seen \cup {ref(i) : i \in 1 .. n}
    BY DEF Insert, NewId
  <1>3. /\ MaxRows \in Nat /\ born \in 0 .. MaxRows /\ nextId \in 1 .. born + 1
        /\ tasks \subseteq Row /\ seen \subseteq Ref /\ OneEach(tasks) /\ \A r \in tasks : r.id < nextId
    BY ConversationSizes DEF RowTypes
  <1>4. ASSUME NEW i \in 1 .. n
        PROVE  /\ row(i) \in Row /\ ref(i) \in Ref
               /\ row(i).id = nextId + i - 1 /\ row(i).birth = born + i
               /\ ref(i).id = nextId + i - 1 /\ ref(i).birth = born + i
    <2>1. i \in Nat /\ i >= 1 /\ i <= n
      BY <1>1
    <2>2. nextId + i - 1 \in 1 .. MaxRows /\ born + i \in 1 .. MaxRows
      BY <2>1, <1>1, <1>2, <1>3
    <2>3. new[i] \in Draft
      BY <1>1
    <2> HIDE DEF new, n
    <2>4. ref(i) \in Ref
      BY <2>2 DEF Ref
    <2>5. row(i) \in Row
      BY <2>2, <2>3 DEF Row, Draft, RowKinds
    <2> QED BY <2>4, <2>5
  <1> HIDE DEF new, n, row, ref
  <1>5. tasks' \subseteq Row /\ seen' \subseteq Ref
    BY <1>2, <1>3, <1>4
  <1>6. born' \in 0 .. MaxRows /\ nextId' \in 1 .. born' + 1
    BY <1>1, <1>2, <1>3
  <1>7. \A r \in tasks' : r.id < nextId'
    <2>1. ASSUME NEW r \in tasks PROVE r.id < nextId'
      <3>1. r.id \in Int
        BY <1>3 DEF Row
      <3> QED BY <3>1, <1>1, <1>2, <1>3
    <2>2. ASSUME NEW i \in 1 .. n PROVE row(i).id < nextId'
      BY <1>1, <1>2, <1>3, <1>4
    <2> QED BY <2>1, <2>2, <1>2
  <1>8. OneEach(tasks)'
    <2>1. ASSUME NEW r \in tasks, NEW i \in 1 .. n PROVE r.id # row(i).id
      <3>1. r.id \in Int /\ r.id < nextId
        BY <1>3 DEF Row
      <3> QED BY <3>1, <1>1, <1>3, <1>4
    <2>2. ASSUME NEW i \in 1 .. n, NEW j \in 1 .. n, row(i).id = row(j).id PROVE row(i) = row(j)
      <3>1. i = j
        BY <2>2, <1>1, <1>3, <1>4
      <3> QED BY <3>1
    <2> QED BY <2>1, <2>2, <1>2, <1>3 DEF OneEach
  <1>9. RowIds => RowIds'
    <2> SUFFICES ASSUME RowIds PROVE RowIds'
      OBVIOUS
    <2>1. \A i \in 1 .. n : row(i).birth = row(i).id /\ ref(i).birth = ref(i).id
      BY <1>1, <1>3, <1>4 DEF RowIds
    <2>2. nextId' = born' + 1
      BY <1>1, <1>2, <1>3 DEF RowIds
    <2>3. \A r \in tasks' : r.birth = r.id
      BY <1>2, <2>1 DEF RowIds, Same
    <2>4. \A r \in seen' : r.birth = r.id
      BY <1>2, <2>1 DEF RowIds, Same
    <2> QED BY <2>2, <2>3, <2>4 DEF RowIds, Same
  <1> QED BY <1>5, <1>6, <1>7, <1>8, <1>9 DEF RowTypes

\* Rewritten rows keep their ids and births.
LEMMA RewriteRows ==
    ASSUME RowTypes, NEW refs, NEW f,
           \A r \in Hit(refs) : f[r] \in Row /\ f[r].id = r.id /\ f[r].birth = r.birth,
           tasks' = (tasks \ Hit(refs)) \cup {f[r] : r \in Hit(refs)},
           UNCHANGED <<nextId, born, seen>>
    PROVE  RowTypes' /\ (RowIds => RowIds')
  <1>1. Hit(refs) \subseteq tasks
    BY DEF Hit
  <1>2. ASSUME NEW s \in tasks'
        PROVE  \E r \in tasks : s.id = r.id /\ s.birth = r.birth /\ s \in Row
                                /\ s = IF r \in Hit(refs) THEN f[r] ELSE r
    BY <1>1 DEF RowTypes
  <1>3. tasks' \subseteq Row /\ \A s \in tasks' : s.id < nextId
    BY <1>2 DEF RowTypes
  <1>4. OneEach(tasks)'
    BY <1>2 DEF OneEach, RowTypes
  <1>5. RowIds => RowIds'
    BY <1>2 DEF RowIds, Same
  <1> QED BY <1>3, <1>4, <1>5 DEF RowTypes

\* Rows go away; the ids go on or start again in an empty table.
LEMMA FewerRows ==
    ASSUME RowTypes, tasks' \subseteq tasks, nextId' = nextId \/ (nextId' = 1 /\ tasks' = {}),
           UNCHANGED <<born, seen>>
    PROVE  RowTypes' /\ (RowIds /\ nextId' = nextId => RowIds')
  <1>1. 1 \in 1 .. born + 1
    BY ConversationSizes DEF RowTypes
  <1>2. nextId' \in 1 .. born + 1
    BY <1>1 DEF RowTypes
  <1>3. OneEach(tasks)' /\ \A r \in tasks' : r.id < nextId'
    BY DEF RowTypes, OneEach
  <1>4. RowIds /\ nextId' = nextId => RowIds'
    BY DEF RowIds, Same
  <1> QED BY <1>2, <1>3, <1>4 DEF RowTypes

\* What is written over a row
LEMMA RowChanges ==
    ASSUME RowTypes, NEW r \in tasks, NEW b \in BOOLEAN, NEW t \in Titles
    PROVE  /\ [r EXCEPT !.timed = b] \in Row /\ [r EXCEPT !.timed = b].id = r.id /\ [r EXCEPT !.timed = b].birth = r.birth
           /\ [r EXCEPT !.dated = b] \in Row /\ [r EXCEPT !.dated = b].id = r.id /\ [r EXCEPT !.dated = b].birth = r.birth
           /\ [r EXCEPT !.done = b] \in Row /\ [r EXCEPT !.done = b].id = r.id /\ [r EXCEPT !.done = b].birth = r.birth
           /\ [r EXCEPT !.title = t, !.dated = b] \in Row /\ [r EXCEPT !.title = t, !.dated = b].id = r.id
           /\ [r EXCEPT !.title = t, !.dated = b].birth = r.birth
  <1>0. r \in Row
    BY DEF RowTypes
  <1>1. [r EXCEPT !.timed = b] \in Row /\ [r EXCEPT !.timed = b].id = r.id /\ [r EXCEPT !.timed = b].birth = r.birth
    BY <1>0 DEF Row
  <1>2. [r EXCEPT !.dated = b] \in Row /\ [r EXCEPT !.dated = b].id = r.id /\ [r EXCEPT !.dated = b].birth = r.birth
    BY <1>0 DEF Row
  <1>3. [r EXCEPT !.done = b] \in Row /\ [r EXCEPT !.done = b].id = r.id /\ [r EXCEPT !.done = b].birth = r.birth
    BY <1>0 DEF Row
  <1>4. [r EXCEPT !.title = t] \in Row /\ [r EXCEPT !.title = t].id = r.id /\ [r EXCEPT !.title = t].birth = r.birth
    BY <1>0 DEF Row
  <1>5. [r EXCEPT !.title = t, !.dated = b] = [[r EXCEPT !.title = t] EXCEPT !.dated = b]
    BY <1>0 DEF Row
  <1>6. /\ [r EXCEPT !.title = t, !.dated = b] \in Row /\ [r EXCEPT !.title = t, !.dated = b].id = r.id
        /\ [r EXCEPT !.title = t, !.dated = b].birth = r.birth
    BY <1>0, <1>4, <1>5 DEF Row
  <1> QED BY <1>1, <1>2, <1>3, <1>6

\* /delete, and a yes to a deletion
LEMMA ForgetRows ==
    ASSUME RowTypes, NEW rows, Forget(rows)
    PROVE  RowTypes' /\ (RowIds => RowIds')
  <1>1. tasks' \subseteq tasks /\ nextId' = nextId /\ UNCHANGED <<born, seen>>
    BY DEF Forget
  <1> QED BY <1>1, FewerRows

\* The effect of each kind of pending action
LEMMA CarryRows ==
    ASSUME Typed, Carry(chat.pending), chat.pending.kind # "none"
    PROVE  RowTypes' /\ (chat.pending.kind \notin {"reset", "nuke"} /\ RowIds => RowIds')
  <1> DEFINE p == chat.pending
             Goal == RowTypes' /\ (p.kind \notin {"reset", "nuke"} /\ RowIds => RowIds')
  <1>0. /\ p.kind \in Kinds /\ p.drafts \subseteq Draft /\ IsFiniteSet(p.drafts) /\ p.targets \subseteq Ref
        /\ RowTypes /\ (p.kind = "subtasks" => p.targets # {})
    BY ChatIs DEF Typed, ChatTypes
  <1>1. ASSUME p.kind \in {"create", "offline_add", "multiple"} PROVE Goal
    <2> DEFINE D == {d \in p.drafts : ~Exists(d)}
    <2>1. Insert(D, "task", 0)
      BY <1>1 DEF Carry
    <2>2. D \subseteq Draft /\ IsFiniteSet(D)
      BY <1>0, FS_Subset
    <2>3. 0 \in 0 .. MaxRows /\ "task" \in RowKinds
      BY ConversationSizes DEF RowKinds
    <2> HIDE DEF D
    <2> QED BY <1>0, <2>1, <2>2, <2>3, InsertRows
  <1>2. ASSUME p.kind = "habit" PROVE Goal
    <2>1. Insert(p.drafts, "habit", 0)
      BY <1>2 DEF Carry
    <2>2. 0 \in 0 .. MaxRows /\ "habit" \in RowKinds
      BY ConversationSizes DEF RowKinds
    <2> QED BY <1>0, <2>1, <2>2, InsertRows
  <1>3. ASSUME p.kind = "subtasks" PROVE Goal
    <2> DEFINE t == CHOOSE t \in p.targets : TRUE
    <2>1. Insert(p.drafts, "subtask", t.id)
      BY <1>3 DEF Carry
    <2>2. t \in p.targets
      BY <1>0, <1>3
    <2>3. t.id \in 0 .. MaxRows /\ "subtask" \in RowKinds
      BY <1>0, <2>2, ConversationSizes DEF Ref, RowKinds
    <2> HIDE DEF t
    <2> QED BY <1>0, <2>1, <2>3, InsertRows
  <1>4. ASSUME p.kind = "plan" PROVE Goal
    <2> DEFINE H == Hit(p.targets)
               f == [r \in H |-> [r EXCEPT !.timed = TRUE]]
    <2>1. /\ tasks' = (tasks \ H) \cup {[r EXCEPT !.timed = TRUE] : r \in H}
          /\ UNCHANGED <<nextId, born, seen>>
      BY <1>4 DEF Carry, Rewrite
    <2>2. \A r \in H : r \in tasks /\ r.title \in Titles
      BY <1>0 DEF Hit, RowTypes, Row
    <2> HIDE DEF H
    <2>3. {[r EXCEPT !.timed = TRUE] : r \in H} = {f[r] : r \in H}
      OBVIOUS
    <2>4. \A r \in H : f[r] \in Row /\ f[r].id = r.id /\ f[r].birth = r.birth
      <3>1. ASSUME NEW r \in H
            PROVE [r EXCEPT !.timed = TRUE] \in Row /\ [r EXCEPT !.timed = TRUE].id = r.id /\ [r EXCEPT !.timed = TRUE].birth = r.birth
        BY <1>0, <2>2, RowChanges
      <3> QED BY <3>1
    <2> HIDE DEF f
    <2>5. tasks' = (tasks \ H) \cup {f[r] : r \in H}
      BY <2>1, <2>3
    <2>6. H = Hit(p.targets)
      BY DEF H
    <2>7. RowTypes /\ UNCHANGED <<nextId, born, seen>>
      BY <1>0, <2>1
    <2> HIDE DEF p
    <2>8. RowTypes' /\ (RowIds => RowIds')
      BY <2>4, <2>5, <2>6, <2>7, RewriteRows
    <2> QED BY <2>8
  <1>5. ASSUME p.kind \in {"delete", "offline_delete"} PROVE Goal
    BY <1>0, <1>5, ForgetRows DEF Carry
  <1>6. ASSUME p.kind \in {"reset", "nuke"} PROVE Goal
    <2>1. tasks' \subseteq tasks /\ (nextId' = nextId \/ (nextId' = 1 /\ tasks' = {})) /\ UNCHANGED <<born, seen>>
      BY <1>6 DEF Carry, WipeTasks, WipeEverything
    <2> QED BY <1>0, <1>6, <2>1, FewerRows
  <1>7. ASSUME p.kind \in {"worker", "vision"} PROVE Goal
    <2>1. UNCHANGED <<tasks, nextId, born, seen>>
      BY <1>7 DEF Carry, db
    <2> QED BY <1>0, <2>1 DEF RowTypes, RowIds, OneEach, Same
  <1> HIDE DEF Goal
  <1>8. Goal
    BY <1>0, <1>1, <1>2, <1>3, <1>4, <1>5, <1>6, <1>7 DEF Kinds, Described
  <1> QED BY <1>8 DEF Goal

-----------------------------------------------------------------------------
(* Parts of a step *)

\* A reply is what it was to be unless it was refused.
LEMMA TellIs ==
    ASSUME LogTypes, NEW card \in Card, Tell(card)
    PROVE  shown' \in Card /\ faults' \in Nat /\ (faults' = 0 => faults = 0 /\ shown' = card)
  BY CardsIs DEF Tell, LogTypes

\* A step that reaches no row
LEMMA QuietHolds == ASSUME Quietly PROVE ReferencesHold' /\ NoSurprise'
  <1>1. last'.hit = {} /\ last'.did.kind = "none"
    BY CardsIs DEF Quietly, Silence
  <1> QED BY <1>1 DEF ReferencesHold, NoSurprise, Described

LEMMA SameRows ==
    ASSUME RowTypes, UNCHANGED db
    PROVE  RowTypes' /\ (RowIds => RowIds')
  BY DEF RowTypes, RowIds, OneEach, Same, db

\* The prompts that are settled
LEMMA OpenIs ==
    ASSUME Typed
    PROVE  dropped \cup Open \subseteq Prompts /\ [ran EXCEPT ![chat.pending.no] = @ + 1] \in [Prompts -> Nat]
  <1>1. chat.pending.no \in 0 .. MaxPrompts /\ MaxPrompts \in Nat
    BY ChatIs, ConversationSizes
  <1>2. dropped \subseteq Prompts /\ ran \in [Prompts -> Nat]
    BY DEF Typed, LogTypes
  <1>3. Open \subseteq Prompts
    BY <1>1 DEF Open, Prompts
  <1>4. ASSUME NEW n PROVE [ran EXCEPT ![n] = @ + 1] \in [Prompts -> Nat]
    <2> DEFINE q == [ran EXCEPT ![n] = @ + 1]
    <2>1. q = [x \in Prompts |-> IF x = n THEN ran[n] + 1 ELSE ran[x]]
      BY <1>2
    <2>2. \A x \in Prompts : q[x] \in Nat
      <3>1. ASSUME NEW x \in Prompts PROVE (IF x = n THEN ran[n] + 1 ELSE ran[x]) \in Nat
        BY <1>2
      <3> QED BY <2>1, <3>1
    <2>3. q = [x \in Prompts |-> q[x]]
      BY <2>1
    <2> HIDE DEF q
    <2>4. q \in [Prompts -> Nat]
      BY <2>2, <2>3
    <2> QED BY <2>4 DEF q
  <1> QED BY <1>2, <1>3, <1>4

\* An id that no reset has given out again reaches the row it was made for.
LEMMA HitIsAim ==
    ASSUME RowIds, NEW refs, Same(refs)
    PROVE  {r.birth : r \in Hit(refs)} \subseteq {t.birth : t \in refs}
  BY DEF RowIds, Same, Hit

LEMMA NoteHolds ==
    ASSUME Ids, resets' = 0 => resets = 0, NEW did, NEW refs, Note(did, refs), resets = 0 => Same(refs)
    PROVE  ReferencesHold'
  <1>1. last'.aim = {t.birth : t \in refs} /\ last'.hit = {r.birth : r \in Hit(refs)}
    BY DEF Note
  <1>2. resets = 0 => last'.hit \subseteq last'.aim
    BY <1>1, HitIsAim DEF Ids
  <1> QED BY <1>2 DEF ReferencesHold

LEMMA NothingDone ==
    ASSUME NEW refs, Note(Nothing, refs)
    PROVE  NoSurprise'
  <1>1. last'.did.kind = "none"
    BY DEF Note, Nothing, CardOf
  <1> QED BY <1>1 DEF NoSurprise, Described

\* A slot that is not waiting for a yes presents nothing.
LEMMA NotWaiting == ASSUME chat'.mode # "confirming" PROVE Presented'
  BY DEF Presented

LEMMA ClearedHolds ==
    ASSUME Inv, chat' = Idle, RowTypes', LogTypes', resets' = 0 => resets = 0,
           resets' = 0 /\ RowIds => RowIds', ReferencesHold', NoSurprise'
    PROVE  Inv'
  <1>1. ChatTypes' /\ chat'.mode # "confirming" /\ chat'.pending.targets = {} /\ chat'.editing = {}
    BY IdleTypes
  <1>2. Presented'
    BY <1>1, NotWaiting
  <1>3. SlotIds'
    BY <1>1 DEF SlotIds, Same
  <1>4. Ids'
    BY <1>3 DEF Ids, Inv
  <1>5. Typed'
    BY <1>1 DEF Typed
  <1> QED BY <1>2, <1>4, <1>5 DEF Inv

-----------------------------------------------------------------------------
(* Each kind of step keeps the invariant *)

\* What is put into the slot is what the message says, or the message asks for more.
LEMMA AskHolds ==
    ASSUME Inv, NEW kind \in Kinds, NEW drafts \in SUBSET Draft, IsFiniteSet(drafts),
           NEW targets \in SUBSET Ref, kind = "subtasks" => targets # {}, resets = 0 => Same(targets),
           NEW card, card = Question \/ card = [kind |-> kind, drafts |-> drafts, targets |-> targets],
           Ask(kind, drafts, targets, card)
    PROVE  Inv'
  <1> DEFINE p == [kind |-> kind, drafts |-> drafts, targets |-> targets, no |-> asked + 1]
  <1>0. Typed /\ Ids /\ RowTypes /\ LogTypes
    BY DEF Inv, Typed
  <1>1. /\ asked' = asked + 1 /\ asked' \in 0 .. MaxPrompts /\ asked' > 0
        /\ ran' = ran /\ resets' = resets /\ UNCHANGED db /\ Tell(card) /\ Quietly /\ dropped' = dropped \cup Open
    BY <1>0, ConversationSizes DEF Ask, LogTypes
  <1>2. chat' = [mode |-> "confirming", pending |-> p, editing |-> chat.editing, partial |-> chat.partial]
    BY <1>0, ChatIs DEF Ask
  <1>3. p \in Action
    BY <1>1 DEF Action
  <1>4. ChatTypes'
    BY <1>0, <1>1, <1>2, <1>3, ChatIs DEF ChatTypes, Modes
  <1>5. card \in Card
    BY CardsIs DEF Card
  <1>6. LogTypes'
    BY <1>0, <1>1, <1>5, TellIs, OpenIs DEF LogTypes
  <1>7. RowTypes' /\ (RowIds => RowIds')
    BY <1>0, <1>1, SameRows
  <1>8. Ids'
    BY <1>0, <1>1, <1>2, <1>7 DEF Ids, SlotIds, Same
  <1>9. Presented'
    <2>1. CardOf(p) = [kind |-> kind, drafts |-> drafts, targets |-> targets]
      BY DEF CardOf
    <2>2. chat'.pending = p
      BY <1>2
    <2>3. faults' = 0 => shown' = card
      BY <1>0, <1>1, <1>5, TellIs
    <2>4. CardOf(chat.pending)' = CardOf(p)
      BY <2>2 DEF CardOf
    <2> HIDE DEF p
    <2> QED BY <2>1, <2>3, <2>4, CardsIs DEF Presented
  <1> QED BY <1>1, <1>4, <1>6, <1>7, <1>8, <1>9, QuietHolds DEF Inv, Typed

\* A correction goes into the slot and into the message that repeats it.
LEMMA AgainHolds ==
    ASSUME Inv, NEW p \in Action, IsFiniteSet(p.drafts), p.kind = chat.pending.kind,
           p.targets = chat.pending.targets, p.no = chat.pending.no,
           NEW card \in Card, p.kind \in Described => card = Question \/ card = CardOf(p),
           Again(p, card)
    PROVE  Inv'
  <1>0. Typed /\ Ids /\ RowTypes /\ LogTypes /\ ChatTypes
    BY DEF Inv, Typed
  <1>1. chat' = [mode |-> chat.mode, pending |-> p, editing |-> chat.editing, partial |-> chat.partial]
    BY <1>0, ChatIs DEF Again
  <1>2. UNCHANGED <<asked, ran, dropped, resets>> /\ UNCHANGED db /\ Tell(card) /\ Quietly
    BY DEF Again
  <1>3. ChatTypes'
    BY <1>0, <1>1, ChatIs DEF ChatTypes
  <1>4. LogTypes'
    BY <1>0, <1>2, TellIs DEF LogTypes
  <1>5. RowTypes' /\ (RowIds => RowIds')
    BY <1>0, <1>2, SameRows
  <1>6. Ids'
    BY <1>0, <1>1, <1>2, <1>5 DEF Ids, SlotIds, Same
  <1>7. Presented'
    <2>1. chat'.pending = p
      BY <1>1
    <2>2. faults' = 0 => shown' = card
      BY <1>0, <1>2, TellIs
    <2>3. CardOf(chat.pending)' = CardOf(p)
      BY <2>1 DEF CardOf
    <2> QED BY <2>1, <2>2, <2>3, CardsIs DEF Presented
  <1> QED BY <1>2, <1>3, <1>4, <1>5, <1>6, <1>7, QuietHolds DEF Inv, Typed

\* A step that leaves the pending action and stops waiting for a yes
LEMMA AsideHolds ==
    ASSUME Inv, NEW mode \in Modes, mode # "confirming", NEW editing \in SUBSET Ref,
           resets = 0 => Same(editing), NEW partial \in Partial,
           chat' = [mode |-> mode, pending |-> chat.pending, editing |-> editing, partial |-> partial],
           Tell(Question), Quietly, UNCHANGED <<db, asked, ran, dropped, resets>>
    PROVE  Inv'
  <1>0. Typed /\ Ids /\ RowTypes /\ LogTypes /\ ChatTypes
    BY DEF Inv, Typed
  <1>1. ChatTypes'
    BY <1>0, ChatIs DEF ChatTypes
  <1>2. LogTypes'
    BY <1>0, TellIs, CardsIs DEF LogTypes
  <1>3. RowTypes' /\ (RowIds => RowIds')
    BY <1>0, SameRows
  <1>4. Ids'
    BY <1>0, <1>3 DEF Ids, SlotIds, Same
  <1>5. Presented'
    BY NotWaiting
  <1> QED BY <1>1, <1>2, <1>3, <1>4, <1>5, QuietHolds DEF Inv, Typed

LEMMA GatherHolds ==
    ASSUME Inv, NEW partial \in Partial, Gather(partial)
    PROVE  Inv'
  <1>1. chat' = [mode |-> "gathering", pending |-> chat.pending, editing |-> chat.editing, partial |-> partial]
    BY ChatIs DEF Gather, Inv
  <1>2. chat.editing \in SUBSET Ref /\ (resets = 0 => Same(chat.editing)) /\ "gathering" \in Modes
    BY ChatIs DEF Inv, Ids, SlotIds, Modes
  <1>3. Tell(Question) /\ Quietly /\ UNCHANGED <<db, asked, ran, dropped, resets>>
    BY DEF Gather
  <1> QED BY <1>1, <1>2, <1>3, AsideHolds

\* A row that was shown
LEMMA SeenIs ==
    ASSUME Inv, NEW ref \in seen
    PROVE  {ref} \in SUBSET Ref /\ (resets = 0 => Same({ref}))
  BY DEF Inv, Typed, RowTypes, Ids, RowIds, Same

LEMMA EditButtonHolds ==
    ASSUME Inv, NEW ref \in seen, EditButton(ref)
    PROVE  Inv'
  <1>1. chat' = [mode |-> "editing", pending |-> chat.pending, editing |-> {ref}, partial |-> chat.partial]
    BY ChatIs DEF EditButton, Inv
  <1>2. chat.partial \in Partial /\ "editing" \in Modes
    BY ChatIs DEF Inv, Modes
  <1>3. Tell(Question) /\ Quietly /\ UNCHANGED <<db, asked, ran, dropped, resets>>
    BY DEF EditButton
  <1> QED BY <1>1, <1>2, <1>3, SeenIs, AsideHolds

\* A yes carries out what waited for it.
LEMMA RunHolds ==
    ASSUME Inv, chat.mode = "confirming", chat.pending.kind \in Kinds, Run
    PROVE  Inv'
  <1> DEFINE p == chat.pending
  <1>0. Typed /\ Ids /\ RowTypes /\ LogTypes
    BY DEF Inv, Typed
  <1>1. /\ chat' = Idle /\ dropped' = dropped /\ ran' = [ran EXCEPT ![p.no] = @ + 1] /\ Carry(p)
        /\ resets' = resets + (IF p.kind \in {"reset", "nuke"} THEN 1 ELSE 0)
        /\ shown' = NoCard /\ Note(p, p.targets) /\ asked' = asked /\ faults' = faults
    BY DEF Run, ClearState
  <1>2. resets' \in Nat /\ (resets' = 0 => resets = 0 /\ p.kind \notin {"reset", "nuke"})
    <2>1. resets \in Nat
      BY <1>0 DEF LogTypes
    <2> QED BY <1>1, <2>1
  <1>3. LogTypes'
    BY <1>0, <1>1, <1>2, OpenIs, CardsIs DEF LogTypes
  <1>4. RowTypes' /\ (p.kind \notin {"reset", "nuke"} /\ RowIds => RowIds')
    <2>1. p.kind # "none"
      BY DEF Kinds, Described
    <2> QED BY <1>0, <1>1, <2>1, CarryRows
  <1>5. ReferencesHold'
    <2>1. resets = 0 => Same(p.targets)
      BY <1>0 DEF Ids, SlotIds
    <2> HIDE DEF p
    <2> QED BY <1>0, <1>1, <1>2, <2>1, NoteHolds
  <1>6. NoSurprise'
    <2>1. last'.did = CardOf(p) /\ last'.shown = shown
      BY <1>1 DEF Note
    <2>2. CardOf(p).kind = p.kind
      BY DEF CardOf
    <2>3. faults = 0 /\ p.kind \in Described /\ shown.kind # "question" => CardOf(p) = shown
      BY DEF Inv, Presented
    <2> HIDE DEF p
    <2> QED BY <1>1, <2>1, <2>2, <2>3 DEF NoSurprise
  <1> QED BY <1>1, <1>2, <1>3, <1>4, <1>5, <1>6, ClearedHolds

\* A step that empties the slot and leaves the table
LEMMA EmptiedHolds ==
    ASSUME Inv, chat' = Idle, dropped' = dropped \cup Open, shown' \in Card, Quietly, faults' \in Nat,
           UNCHANGED <<db, asked, ran, resets>>
    PROVE  Inv'
  <1>0. Typed /\ RowTypes /\ LogTypes
    BY DEF Inv, Typed
  <1>1. LogTypes'
    BY <1>0, OpenIs DEF LogTypes
  <1>2. RowTypes' /\ (RowIds => RowIds')
    BY <1>0, SameRows
  <1> QED BY <1>1, <1>2, QuietHolds, ClearedHolds

LEMMA DropHolds ==
    ASSUME Inv, Drop
    PROVE  Inv'
  <1>1. /\ chat' = Idle /\ dropped' = dropped \cup Open /\ shown' \in Card /\ Quietly
        /\ UNCHANGED <<db, asked, ran, faults, resets>>
    BY CardsIs DEF Drop, ClearState
  <1>2. faults' \in Nat
    BY <1>1 DEF Inv, Typed, LogTypes
  <1> QED BY <1>1, <1>2, EmptiedHolds

\* A restart empties the slot and leaves the chat as it was.
LEMMA RestartHolds ==
    ASSUME Inv, Restart
    PROVE  Inv'
  <1>1. /\ chat' = Idle /\ dropped' = dropped \cup Open /\ shown' = shown /\ Quietly
        /\ faults' = faults + 1 /\ UNCHANGED <<db, asked, ran, resets>>
    BY DEF Restart, ClearState
  <1>2. faults' \in Nat /\ shown' \in Card
    BY <1>1 DEF Inv, Typed, LogTypes
  <1> QED BY <1>1, <1>2, EmptiedHolds

LEMMA AddTaskHolds ==
    ASSUME Inv, AddTask
    PROVE  Inv'
  <1>0. Typed /\ Ids /\ RowTypes /\ LogTypes
    BY DEF Inv, Typed
  <1>1. /\ dropped' = dropped \cup Open /\ shown' = Question /\ Quietly
        /\ UNCHANGED <<db, asked, ran, faults, resets>>
    BY DEF AddTask
  <1>2. chat' = [mode |-> "gathering", pending |-> Nothing, editing |-> {}, partial |-> NoPartial]
    BY DEF AddTask, Idle
  <1>3. ChatTypes'
    <2>1. IsFiniteSet({})
      BY FS_EmptySet
    <2> QED BY <1>2, <2>1, NothingIs DEF ChatTypes, Modes
  <1>4. LogTypes'
    BY <1>0, <1>1, OpenIs, CardsIs DEF LogTypes
  <1>5. RowTypes' /\ (RowIds => RowIds')
    BY <1>0, <1>1, SameRows
  <1>6. Ids'
    BY <1>0, <1>1, <1>2, <1>5, NothingIs DEF Ids, SlotIds, Same
  <1>7. Presented'
    BY <1>2, NotWaiting
  <1> QED BY <1>1, <1>3, <1>4, <1>5, <1>6, <1>7, QuietHolds DEF Inv, Typed

\* The change is written over the rows that the edit was opened for.
LEMMA EditReplyHolds ==
    ASSUME Inv, NEW t \in Titles, EditReply(t)
    PROVE  Inv'
  <1> DEFINE H == Hit(chat.editing)
             f == [r \in H |-> [r EXCEPT !.title = t, !.dated = TRUE]]
  <1>0. Typed /\ Ids /\ RowTypes /\ LogTypes
    BY DEF Inv, Typed
  <1>1. /\ chat' = Idle /\ dropped' = dropped \cup Open /\ shown' = NoCard /\ Note(Nothing, chat.editing)
        /\ UNCHANGED <<asked, ran, faults, resets>>
        /\ tasks' = (tasks \ H) \cup {[r EXCEPT !.title = t, !.dated = TRUE] : r \in H}
        /\ UNCHANGED <<nextId, born, seen>>
    BY DEF EditReply, ClearState, Rewrite
  <1>2. \A r \in H : r \in tasks
    BY DEF Hit
  <1>3. H = Hit(chat.editing)
    OBVIOUS
  <1> HIDE DEF H
  <1>4. {[r EXCEPT !.title = t, !.dated = TRUE] : r \in H} = {f[r] : r \in H}
    OBVIOUS
  <1>5. \A r \in H : f[r] \in Row /\ f[r].id = r.id /\ f[r].birth = r.birth
    <2>1. ASSUME NEW r \in H
          PROVE  /\ [r EXCEPT !.title = t, !.dated = TRUE] \in Row
                 /\ [r EXCEPT !.title = t, !.dated = TRUE].id = r.id
                 /\ [r EXCEPT !.title = t, !.dated = TRUE].birth = r.birth
      BY <1>0, <1>2, RowChanges
    <2> QED BY <2>1
  <1> HIDE DEF f
  <1>6. tasks' = (tasks \ H) \cup {f[r] : r \in H}
    BY <1>1, <1>4
  <1>7. RowTypes' /\ (RowIds => RowIds')
    <2>1. RowTypes /\ UNCHANGED <<nextId, born, seen>>
      BY <1>0, <1>1
    <2> QED BY <2>1, <1>3, <1>5, <1>6, RewriteRows
  <1>8. LogTypes'
    BY <1>0, <1>1, OpenIs, CardsIs DEF LogTypes
  <1>9. ReferencesHold' /\ NoSurprise'
    <2>1. resets = 0 => Same(chat.editing)
      BY <1>0 DEF Ids, SlotIds
    <2> QED BY <1>0, <1>1, <2>1, NoteHolds, NothingDone
  <1> QED BY <1>1, <1>7, <1>8, <1>9, ClearedHolds

\* A command or button that works on a row at once
LEMMA DirectHolds ==
    ASSUME Inv, NEW ref \in seen, Directly(ref), RowTypes', RowIds => RowIds'
    PROVE  Inv'
  <1>0. Typed /\ Ids /\ ChatTypes /\ LogTypes /\ Presented
    BY DEF Inv, Typed
  <1>1. Note(Nothing, {ref}) /\ UNCHANGED <<chat, shown, asked, ran, dropped, faults, resets>>
    BY DEF Directly
  <1>2. ChatTypes' /\ LogTypes'
    BY <1>0, <1>1 DEF ChatTypes, LogTypes
  <1>3. Ids'
    BY <1>0, <1>1 DEF Ids, SlotIds, Same
  <1>4. Presented'
    BY <1>0, <1>1 DEF Presented, CardOf
  <1>5. ReferencesHold' /\ NoSurprise'
    BY <1>0, <1>1, SeenIs, NoteHolds, NothingDone
  <1> QED BY <1>2, <1>3, <1>4, <1>5 DEF Inv, Typed

LEMMA DeleteCommandHolds ==
    ASSUME Inv, NEW ref \in seen, DeleteCommand(ref)
    PROVE  Inv'
  <1>1. RowTypes' /\ (RowIds => RowIds')
    BY ForgetRows DEF DeleteCommand, Inv, Typed
  <1> QED BY <1>1, DirectHolds DEF DeleteCommand

LEMMA DoneButtonHolds ==
    ASSUME Inv, NEW ref \in seen, DoneButton(ref)
    PROVE  Inv'
  <1> DEFINE refs == {ref}
             H == Hit(refs)
             f == [r \in H |-> [r EXCEPT !.done = r.kind # "habit"]]
  <1>0. RowTypes
    BY DEF Inv, Typed
  <1>1. /\ tasks' = (tasks \ H) \cup {[r EXCEPT !.done = r.kind # "habit"] : r \in H}
        /\ UNCHANGED <<nextId, born, seen>> /\ Directly(ref)
    BY DEF DoneButton, Rewrite
  <1>2. \A r \in H : r \in tasks /\ r.title \in Titles
    BY <1>0 DEF Hit, RowTypes, Row
  <1>3. H = Hit(refs)
    OBVIOUS
  <1> HIDE DEF H, refs
  <1>4. {[r EXCEPT !.done = r.kind # "habit"] : r \in H} = {f[r] : r \in H}
    OBVIOUS
  <1>5. \A r \in H : f[r] \in Row /\ f[r].id = r.id /\ f[r].birth = r.birth
    <2>1. ASSUME NEW r \in H
          PROVE  /\ [r EXCEPT !.done = r.kind # "habit"] \in Row
                 /\ [r EXCEPT !.done = r.kind # "habit"].id = r.id
                 /\ [r EXCEPT !.done = r.kind # "habit"].birth = r.birth
      <3>1. (r.kind # "habit") \in BOOLEAN
        OBVIOUS
      <3> QED BY <1>0, <1>2, <3>1, RowChanges
    <2> QED BY <2>1
  <1> HIDE DEF f
  <1>6. tasks' = (tasks \ H) \cup {f[r] : r \in H}
    BY <1>1, <1>4
  <1>7. RowTypes' /\ (RowIds => RowIds')
    <2>1. RowTypes /\ UNCHANGED <<nextId, born, seen>>
      BY <1>0, <1>1
    <2> QED BY <2>1, <1>3, <1>5, <1>6, RewriteRows
  <1> QED BY <1>1, <1>7, DirectHolds

LEMMA EditIntentHolds ==
    ASSUME Inv, NEW ref \in seen, EditIntent(ref)
    PROVE  Inv'
  <1> DEFINE refs == {ref}
             H == Hit(refs)
             f == [r \in H |-> [r EXCEPT !.dated = TRUE]]
  <1>0. RowTypes
    BY DEF Inv, Typed
  <1>1. /\ tasks' = (tasks \ H) \cup {[r EXCEPT !.dated = TRUE] : r \in H}
        /\ UNCHANGED <<nextId, born, seen>> /\ Directly(ref)
    BY DEF EditIntent, Rewrite
  <1>2. \A r \in H : r \in tasks /\ r.title \in Titles
    BY <1>0 DEF Hit, RowTypes, Row
  <1>3. H = Hit(refs)
    OBVIOUS
  <1> HIDE DEF H, refs
  <1>4. {[r EXCEPT !.dated = TRUE] : r \in H} = {f[r] : r \in H}
    OBVIOUS
  <1>5. \A r \in H : f[r] \in Row /\ f[r].id = r.id /\ f[r].birth = r.birth
    <2>1. ASSUME NEW r \in H
          PROVE  /\ [r EXCEPT !.dated = TRUE] \in Row
                 /\ [r EXCEPT !.dated = TRUE].id = r.id /\ [r EXCEPT !.dated = TRUE].birth = r.birth
      BY <1>0, <1>2, RowChanges
    <2> QED BY <2>1
  <1> HIDE DEF f
  <1>6. tasks' = (tasks \ H) \cup {f[r] : r \in H}
    BY <1>1, <1>4
  <1>7. RowTypes' /\ (RowIds => RowIds')
    <2>1. RowTypes /\ UNCHANGED <<nextId, born, seen>>
      BY <1>0, <1>1
    <2> QED BY <2>1, <1>3, <1>5, <1>6, RewriteRows
  <1> QED BY <1>1, <1>7, DirectHolds

\* The button under a photo inserts the tasks read from it.
LEMMA VisionSaveHolds ==
    ASSUME Inv, VisionSave
    PROVE  Inv'
  <1> DEFINE D == {d \in chat.pending.drafts : ~Exists(d)}
  <1>0. Typed /\ RowTypes /\ LogTypes
    BY DEF Inv, Typed
  <1>1. /\ Insert(D, "task", 0) /\ chat' = Idle /\ dropped' = dropped
        /\ ran' = [ran EXCEPT ![chat.pending.no] = @ + 1] /\ shown' = NoCard /\ Quietly
        /\ UNCHANGED <<asked, faults, resets>>
    BY DEF VisionSave, ClearState
  <1>2. D \subseteq Draft /\ IsFiniteSet(D)
    BY <1>0, ChatIs, FS_Subset
  <1> HIDE DEF D
  <1>3. 0 \in 0 .. MaxRows /\ "task" \in RowKinds
    BY ConversationSizes DEF RowKinds
  <1>4. RowTypes' /\ (RowIds => RowIds')
    BY <1>0, <1>1, <1>2, <1>3, InsertRows
  <1>5. LogTypes'
    BY <1>0, <1>1, OpenIs, CardsIs DEF LogTypes
  <1> QED BY <1>1, <1>4, <1>5, QuietHolds, ClearedHolds

-----------------------------------------------------------------------------
(* The invariant over every step *)

\* build_summary describes the pending action, where it describes it at all.
LEMMA SummaryIs ==
    ASSUME NEW p \in Action
    PROVE  /\ Summary(p) \in Card /\ CardOf(p) \in Card
           /\ p.kind \in Legacy \cap Described => Summary(p) = CardOf(p)
  <1>1. CardOf(p) \in Card
    BY DEF Action, CardOf, Card
  <1>2. Legacy \cap Described \subseteq {"create", "habit"}
    BY DEF Legacy, Described
  <1> QED BY <1>1, <1>2, CardsIs DEF Summary

LEMMA ReplyHolds ==
    ASSUME Inv, NEW said, Reply(said)
    PROVE  Inv'
  <1> DEFINE p == chat.pending
             q == Timed(chat.pending)
  <1>0. Typed /\ chat.mode = "confirming" /\ p \in Action /\ IsFiniteSet(p.drafts)
    BY ChatIs DEF Reply, Inv
  <1>1. ASSUME Run, p.kind \in Kinds PROVE Inv'
    BY <1>0, <1>1, RunHolds
  <1>2. ASSUME Drop PROVE Inv'
    BY <1>2, DropHolds
  <1>3. ASSUME NEW card \in Card, p.kind \in Described => card = Question \/ card = CardOf(p), Again(p, card)
        PROVE  Inv'
    BY <1>0, <1>3, AgainHolds
  <1>4. ASSUME p.kind \in Legacy, Again(q, Summary(q)) PROVE Inv'
    <2>1. /\ q \in Action /\ q.kind = p.kind /\ q.targets = p.targets /\ q.no = p.no /\ IsFiniteSet(q.drafts)
      BY <1>0, TimedIs
    <2>2. Summary(q) \in Card /\ (q.kind \in Described => Summary(q) = CardOf(q))
      BY <1>4, <2>1, SummaryIs
    <2> HIDE DEF q
    <2> QED BY <1>4, <2>1, <2>2, AgainHolds
  <1>5. Legacy \subseteq Kinds /\ {"reset", "nuke", "offline_add", "offline_delete", "worker"} \subseteq Kinds
    BY DEF Legacy, Kinds, Described
  <1>6. CASE ReplyToReset(said)
    BY <1>6, <1>1, <1>2, <1>5 DEF ReplyToReset
  <1>7. CASE ReplyToOffline(said)
    <2>1. p.kind \in Kinds /\ CardOf(p) \in Card
      BY <1>0, <1>5, <1>7, SummaryIs DEF ReplyToOffline
    <2>2. Run \/ Drop \/ Again(p, CardOf(p))
      BY <1>7 DEF ReplyToOffline
    <2> QED BY <2>1, <2>2, <1>1, <1>2, <1>3
  <1>8. CASE ReplyToLegacy(said)
    <2>1. p.kind \in Legacy /\ p.kind \in Kinds
      BY <1>5, <1>8 DEF ReplyToLegacy
    <2>2. Run \/ Drop \/ Again(q, Summary(q)) \/ Again(p, Question) \/ Again(p, Summary(p))
      BY <1>8 DEF ReplyToLegacy, Stored
    <2>3. Summary(p) \in Card /\ (p.kind \in Described => Summary(p) = CardOf(p)) /\ Question \in Card
      BY <1>0, <2>1, SummaryIs, CardsIs
    <2> HIDE DEF p, q
    <2> QED BY <2>1, <2>2, <2>3, <1>1, <1>2, <1>3, <1>4
  <1> QED BY <1>6, <1>7, <1>8 DEF Reply

\* Proposals name what the message names.
LEMMA ProposeHolds ==
    ASSUME Inv, NEW kind \in Kinds, NEW drafts \in SUBSET Draft, IsFiniteSet(drafts),
           NEW targets \in SUBSET Ref, kind = "subtasks" => targets # {}, resets = 0 => Same(targets),
           Propose(kind, drafts, targets)
    PROVE  Inv'
  BY AskHolds DEF Propose

LEMMA NoTargets == {} \in SUBSET Ref /\ Same({})
  BY DEF Same

\* The rows as references
LEMMA RefsIs ==
    ASSUME Inv, NEW T \in SUBSET tasks
    PROVE  {RefTo(r) : r \in T} \in SUBSET Ref /\ (resets = 0 => Same({RefTo(r) : r \in T}))
  <1>1. ASSUME NEW r \in tasks PROVE RefTo(r) \in Ref /\ (resets = 0 => RefTo(r).birth = RefTo(r).id)
    <2>1. r \in Row /\ (resets = 0 => r.birth = r.id)
      BY DEF Inv, Typed, RowTypes, Ids, RowIds, Same
    <2> QED BY <2>1 DEF RefTo, Row, Ref
  <1>2. \A t \in {RefTo(r) : r \in T} : t \in Ref /\ (resets = 0 => t.birth = t.id)
    BY <1>1
  <1> QED BY <1>2 DEF Same

LEMMA OneRef ==
    ASSUME Inv, NEW r \in tasks
    PROVE  {RefTo(r)} \in SUBSET Ref /\ {RefTo(r)} # {} /\ (resets = 0 => Same({RefTo(r)}))
  <1>1. {RefTo(s) : s \in {r}} = {RefTo(r)}
    OBVIOUS
  <1>2. {r} \in SUBSET tasks
    OBVIOUS
  <1>3. {RefTo(s) : s \in {r}} \in SUBSET Ref /\ (resets = 0 => Same({RefTo(s) : s \in {r}}))
    BY <1>2, RefsIs
  <1> QED BY <1>1, <1>3

\* A draft that is asked for
LEMMA AskedDraft ==
    ASSUME NEW d \in Drafts
    PROVE  /\ d \in Draft
           /\ {Phrased(d)} \in SUBSET Draft /\ IsFiniteSet({Phrased(d)})
           /\ {Plain(d)} \in SUBSET Draft /\ IsFiniteSet({Plain(d)})
           /\ {[d EXCEPT !.timed = FALSE]} \in SUBSET Draft /\ IsFiniteSet({[d EXCEPT !.timed = FALSE]})
  <1>1. d \in Draft
    BY DraftsIs
  <1>2. Phrased(d) \in Draft /\ Plain(d) \in Draft /\ [d EXCEPT !.timed = FALSE] \in Draft
    BY <1>1, DraftIs
  <1> QED BY <1>1, <1>2, OneDraft

LEMMA KindsAre == Kinds = {"create", "habit", "offline_add", "offline_delete", "worker", "reset", "nuke",
                           "multiple", "plan", "subtasks", "delete", "vision"}
  BY DEF Kinds, Described

\* What is known of the task while it is gathered
LEMMA MergedIs ==
    ASSUME Inv, NEW d \in Drafts
    PROVE  /\ Merged(d) \in Partial /\ Merged(d).title \subseteq Titles /\ Merged(d).dated \in BOOLEAN
           /\ Merged(d).timed \in BOOLEAN /\ chat.partial.phrased \in BOOLEAN
           /\ [Merged(d) EXCEPT !.title = chat.partial.title] \in Partial
  <1>1. chat.partial \in Partial /\ d \in Draft
    BY ChatIs, AskedDraft DEF Inv
  <1> DEFINE m == [title |-> IF chat.partial.title = {} THEN {d.title} ELSE chat.partial.title,
                   dated |-> chat.partial.dated \/ d.dated, timed |-> chat.partial.timed \/ d.timed,
                   phrased |-> chat.partial.phrased]
  <1>2. d.title \in Titles /\ d.dated \in BOOLEAN /\ d.timed \in BOOLEAN
    BY <1>1, DraftIs
  <1>3. /\ chat.partial = [title |-> chat.partial.title, dated |-> chat.partial.dated,
                           timed |-> chat.partial.timed, phrased |-> chat.partial.phrased]
        /\ chat.partial.title \subseteq Titles /\ chat.partial.dated \in BOOLEAN
        /\ chat.partial.timed \in BOOLEAN /\ chat.partial.phrased \in BOOLEAN
    BY <1>1 DEF Partial
  <1>4. Merged(d) = m
    <2> DEFINE q == Merged(d)
    <2>1. /\ q.title = m.title /\ q.dated = m.dated /\ q.timed = m.timed /\ q.phrased = m.phrased
      BY <1>1 DEF Merged, Partial
    <2>2. q = [x \in {"title", "dated", "timed", "phrased"} |-> q[x]]
      BY <1>1 DEF Merged, Partial
    <2>3. m = [x \in {"title", "dated", "timed", "phrased"} |-> m[x]]
      OBVIOUS
    <2> HIDE DEF q, m
    <2>4. q = m
      BY <2>1, <2>2, <2>3
    <2> QED BY <2>4 DEF q
  <1>5. m.title \subseteq Titles /\ m.dated \in BOOLEAN /\ m.timed \in BOOLEAN /\ m.phrased \in BOOLEAN
    BY <1>2, <1>3
  <1>6. m \in Partial
    BY <1>5 DEF Partial
  <1> HIDE DEF m
  <1>7. [m EXCEPT !.title = chat.partial.title] \in Partial
    BY <1>3, <1>6 DEF Partial
  <1> QED BY <1>3, <1>4, <1>5, <1>6, <1>7

LEMMA GatherReplyHolds ==
    ASSUME Inv, NEW d \in Drafts, GatherReply(d)
    PROVE  Inv'
  <1>1. PICK title \in Merged(d).title :
          Propose("create", {[title |-> title, dated |-> Merged(d).dated, timed |-> Merged(d).timed,
                              deadline |-> FALSE, phrased |-> chat.partial.phrased]}, {})
    BY DEF GatherReply
  <1>2. [title |-> title, dated |-> Merged(d).dated, timed |-> Merged(d).timed,
         deadline |-> FALSE, phrased |-> chat.partial.phrased] \in Draft
    BY MergedIs DEF Draft
  <1> QED BY <1>1, <1>2, OneDraft, NoTargets, KindsAre, ProposeHolds

LEMMA AskMissingHolds ==
    ASSUME Inv, NEW d \in Drafts, NEW titled \in BOOLEAN, AskMissing(d, titled)
    PROVE  Inv'
  <1> DEFINE p == [title |-> IF titled THEN {d.title} ELSE {}, dated |-> FALSE,
                   timed |-> d.timed, phrased |-> d.phrased]
  <1>1. p \in Partial
    BY AskedDraft, DraftIs DEF Partial
  <1>2. Gather(p)
    BY DEF AskMissing
  <1> HIDE DEF p
  <1> QED BY <1>1, <1>2, GatherHolds

LEMMA AskAmPmHolds ==
    ASSUME Inv, NEW d \in Drafts, AskAmPm(d)
    PROVE  Inv'
  <1> DEFINE D == {[d EXCEPT !.timed = FALSE]}
  <1>1. D \in SUBSET Draft /\ IsFiniteSet(D)
    BY AskedDraft
  <1>2. Ask("create", D, {}, Question)
    BY DEF AskAmPm
  <1> HIDE DEF D
  <1> QED BY <1>1, <1>2, NoTargets, KindsAre, AskHolds

\* Every message keeps the invariant.
LEMMA MessageHolds ==
    ASSUME Inv, Message
    PROVE  Inv'
  <1>1. CASE \E said \in Replies : Reply(said)
    BY <1>1, ReplyHolds
  <1>2. ASSUME NEW d \in Drafts, AskCreate(d) PROVE Inv'
    BY <1>2, AskedDraft, NoTargets, KindsAre, ProposeHolds DEF AskCreate
  <1>3. ASSUME NEW d \in Drafts, AskAmPm(d) PROVE Inv'
    BY <1>3, AskAmPmHolds
  <1>4. ASSUME NEW d \in Drafts, AskHabit(d) PROVE Inv'
    BY <1>4, AskedDraft, NoTargets, KindsAre, ProposeHolds DEF AskHabit
  <1>5. ASSUME NEW d \in Drafts, AskOfflineAdd(d) PROVE Inv'
    BY <1>5, AskedDraft, NoTargets, KindsAre, ProposeHolds DEF AskOfflineAdd
  <1>6. ASSUME NEW d \in Drafts, NEW titled \in BOOLEAN, AskMissing(d, titled) PROVE Inv'
    BY <1>6, AskMissingHolds
  <1>7. ASSUME NEW d \in Drafts, GatherReply(d) PROVE Inv'
    BY <1>7, GatherReplyHolds
  <1>8. ASSUME NEW d \in Drafts, GatherAgain(d) PROVE Inv'
    BY <1>8, MergedIs, GatherHolds DEF GatherAgain
  <1>9. ASSUME NEW D \in Lists, AskMultiple(D) PROVE Inv'
    BY <1>9, PlainDrafts, NoTargets, KindsAre, ProposeHolds DEF AskMultiple
  <1>10. ASSUME NEW r \in tasks, AskDelete(r) PROVE Inv'
    BY <1>10, OneRef, NoDrafts, KindsAre, ProposeHolds DEF AskDelete
  <1>11. ASSUME NEW r \in tasks, AskOfflineDelete(r) PROVE Inv'
    BY <1>11, OneRef, NoDrafts, KindsAre, ProposeHolds DEF AskOfflineDelete
  <1>12. ASSUME NEW ref \in seen, EditIntent(ref) PROVE Inv'
    BY <1>12, EditIntentHolds
  <1>13. CASE AskWorker
    BY <1>13, NoDrafts, NoTargets, KindsAre, ProposeHolds DEF AskWorker
  <1>14. ASSUME NEW t \in Titles, EditReply(t) PROVE Inv'
    BY <1>14, EditReplyHolds
  <1>15. CASE EditLeave
    BY <1>15, DropHolds DEF EditLeave
  <1> QED
    BY <1>1, <1>2, <1>3, <1>4, <1>5, <1>6, <1>7, <1>8, <1>9, <1>10, <1>11, <1>12, <1>13, <1>14, <1>15 DEF Message

\* Every command and button keeps the invariant.
LEMMA CommandHolds ==
    ASSUME Inv, Command
    PROVE  Inv'
  <1>1. CASE Cancel
    BY <1>1, DropHolds DEF Cancel
  <1>2. CASE AddTask
    BY <1>2, AddTaskHolds
  <1>3. CASE ResetTasks
    BY <1>3, NoDrafts, NoTargets, KindsAre, ProposeHolds DEF ResetTasks
  <1>4. CASE ResetAll
    BY <1>4, NoDrafts, NoTargets, KindsAre, ProposeHolds DEF ResetAll
  <1>5. ASSUME NEW d \in Drafts, Template(d) PROVE Inv'
    BY <1>5, AskedDraft, NoTargets, KindsAre, ProposeHolds DEF Template
  <1>6. ASSUME NEW r \in tasks, NEW D \in Lists, Breakdown(r, D) PROVE Inv'
    BY <1>6, PlainDrafts, OneRef, KindsAre, ProposeHolds DEF Breakdown
  <1>7. ASSUME NEW T \in SUBSET {r \in tasks : ~r.done /\ r.dated}, Plan(T) PROVE Inv'
    <2>1. T \in SUBSET tasks
      OBVIOUS
    <2> DEFINE R == {RefTo(r) : r \in T}
    <2>2. Propose("plan", {}, R)
      BY <1>7 DEF Plan
    <2>3. R \in SUBSET Ref /\ (resets = 0 => Same(R))
      BY <2>1, RefsIs
    <2> HIDE DEF R
    <2> QED BY <2>2, <2>3, NoDrafts, KindsAre, ProposeHolds
  <1>8. ASSUME NEW D \in Lists, Photo(D) PROVE Inv'
    BY <1>8, PlainDrafts, NoTargets, KindsAre, ProposeHolds DEF Photo
  <1>9. ASSUME NEW ref \in seen, DeleteCommand(ref) PROVE Inv'
    BY <1>9, DeleteCommandHolds
  <1>10. ASSUME NEW ref \in seen, DoneButton(ref) PROVE Inv'
    BY <1>10, DoneButtonHolds
  <1>11. ASSUME NEW ref \in seen, EditButton(ref) PROVE Inv'
    BY <1>11, EditButtonHolds
  <1>12. CASE VisionSave
    BY <1>12, VisionSaveHolds
  <1> QED
    BY <1>1, <1>2, <1>3, <1>4, <1>5, <1>6, <1>7, <1>8, <1>9, <1>10, <1>11, <1>12 DEF Command

LEMMA ChatStep ==
    ASSUME Inv, [Next]_vars
    PROVE  Inv'
  <1>1. CASE Message
    BY <1>1, MessageHolds
  <1>2. CASE Command
    BY <1>2, CommandHolds
  <1>3. CASE Restart
    BY <1>3, RestartHolds
  <1>4. CASE UNCHANGED vars
    <2>1. Typed'
      BY <1>4 DEF vars, db, Inv, Typed, ChatTypes, RowTypes, OneEach, LogTypes
    <2>2. Ids' /\ Presented'
      BY <1>4 DEF vars, db, Inv, Ids, RowIds, SlotIds, Same, Presented, CardOf
    <2>3. ReferencesHold' /\ NoSurprise'
      BY <1>4 DEF vars, Inv, ReferencesHold, NoSurprise
    <2> QED BY <2>1, <2>2, <2>3 DEF Inv
  <1> QED BY <1>1, <1>2, <1>3, <1>4 DEF Next

LEMMA ChatInit ==
    ASSUME Init
    PROVE  Inv
  <1>1. ChatTypes
    <2>1. IsFiniteSet({})
      BY FS_EmptySet
    <2> QED BY <2>1, IdleIs, NothingIs DEF Init, ChatTypes
  <1>2. RowTypes
    BY ConversationSizes DEF Init, RowTypes, OneEach
  <1>3. LogTypes
    BY ConversationSizes, CardsIs DEF Init, LogTypes
  <1>4. Ids /\ Presented
    BY IdleIs, NothingIs DEF Init, Ids, RowIds, SlotIds, Same, Presented
  <1>5. last.hit = {} /\ last.did.kind = "none"
    BY CardsIs DEF Init, Silence
  <1>6. ReferencesHold /\ NoSurprise
    BY <1>5 DEF ReferencesHold, NoSurprise, Described
  <1> QED BY <1>1, <1>2, <1>3, <1>4, <1>6 DEF Inv, Typed

\* The inductive invariant holds for any drafts, prompts, rows, faults and resets:
\* the types, ids that count births until a reset, and a slot that is what the
\* last message presented.
THEOREM Invariance == Spec => []Inv
  <1>1. Init => Inv
    BY ChatInit
  <1>2. Inv /\ [Next]_vars => Inv'
    BY ChatStep
  <1> QED BY <1>1, <1>2, PTL DEF Spec

\* The slot, the table and the history are what their types say; ids are unique
\* and the next one is above them all (sqlite_sequence, in reset_all_tasks too).
THEOREM TypeCorrect == Spec => []TypeOK
  <1>1. Inv => TypeOK
    <2> SUFFICES ASSUME Inv PROVE TypeOK
      OBVIOUS
    <2>1. /\ chat.mode \in Modes /\ chat.pending \in Action /\ chat.partial \in Partial /\ chat.editing \subseteq Ref
      BY ChatIs DEF Inv
    <2>2. RowTypes /\ LogTypes /\ (chat.mode = "confirming" => chat.pending.no > 0)
      BY DEF Inv, Typed, ChatTypes
    <2>3. \A r \in tasks : r.id < nextId /\ \A s \in tasks : r.id = s.id => r = s
      BY <2>2 DEF RowTypes, OneEach
    <2>4. {asked, faults, resets} \subseteq Nat
      BY <2>2, ConversationSizes DEF LogTypes
    <2> QED BY <2>1, <2>2, <2>3, <2>4 DEF TypeOK, Modes, RowTypes, LogTypes
  <1> QED BY <1>1, Invariance, PTL

\* An id in a button, in the slot or in an edit under way reaches the task it was
\* made for or none until a reset: AUTOINCREMENT gives no id twice, and every
\* reference the bot keeps was taken from a row.
THEOREM References == Spec => []ReferencesHold
  <1>1. Inv => ReferencesHold
    BY DEF Inv
  <1> QED BY <1>1, Invariance, PTL

\* Unless a message was refused, a yes does what the last message presented:
\* every message that asks sets the slot in the same handler, every correction
\* that is described is stored, and what takes the chat elsewhere ends the wait.
THEOREM NoSurprises == Spec => []NoSurprise
  <1>1. Inv => NoSurprise
    BY DEF Inv
  <1> QED BY <1>1, Invariance, PTL
=============================================================================
