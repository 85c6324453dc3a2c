---------------------------- MODULE WorkerProofs ----------------------------
(***************************************************************************)
(* A message of the owner reaches the rows it means, for any rows, titles, *)
(* spellings and lengths of the memories (Worker).                         *)
(*                                                                         *)
(* ReferencesMeet needs to know that what the typed referents say is so    *)
(* (Told): a referent noted since the last reset bears the title of its    *)
(* row, and a goal noted before it has no row, for a goal that gets its id *)
(* is noted in its place.  That in turn needs the rows to be numbered      *)
(* without a gap, which OneRowPerName needs too.                           *)
(***************************************************************************)
EXTENDS Worker, FiniteSetTheorems, WellFoundedInduction, TLAPS

-----------------------------------------------------------------------------
(* Numbers and recursion *)

Less == {p \in Nat \X Nat : p[1] < p[2]}

LEMMA SmallestOf == ASSUME NEW S \in SUBSET Nat, S # {} PROVE \E n \in S : \A m \in S : n <= m
  <1>1. IsWellFoundedOn(Less, Nat)
    BY NatLessThanWellFounded DEF OpToRel, Less
  <1>2. PICK n \in S : \A m \in S : <<m, n>> \notin Less
    BY <1>1, WFMin
  <1>3. \A m \in S : ~(m < n)
    BY <1>2 DEF Less
  <1> QED BY <1>3

LEMMA LowestIs == ASSUME NEW S \in SUBSET Nat, S # {} PROVE Lowest(S) \in S
BY SmallestOf DEF Lowest

LEMMA LargestIs == ASSUME NEW N \in Nat, NEW S \in SUBSET (1 .. N), S # {} PROVE Max(S) \in S
  <1> DEFINE D == {N - i : i \in S}
  <1>1. D \in SUBSET Nat /\ D # {}
    <2>1. \A i \in S : N - i \in Nat
      OBVIOUS
    <2>2. PICK i \in S : TRUE
      OBVIOUS
    <2>3. N - i \in D
      OBVIOUS
    <2> QED BY <2>1, <2>3
  <1>2. PICK d \in D : \A e \in D : d <= e
    <2> HIDE DEF D
    <2> QED BY <1>1, SmallestOf
  <1>3. PICK x \in S : d = N - x
    BY <1>2
  <1>4. \A y \in S : x >= y
    <2> SUFFICES ASSUME NEW y \in S PROVE x >= y
      OBVIOUS
    <2>1. N - y \in D
      OBVIOUS
    <2>2. d <= N - y
      BY <1>2, <2>1
    <2>3. x \in 1 .. N /\ y \in 1 .. N
      OBVIOUS
    <2> QED BY <1>3, <2>2, <2>3
  <1> QED BY <1>4 DEF Max

LEMMA Climb ==
    ASSUME NEW n \in Nat, NEW P, 0 \in P, \A i \in 1 .. n : i - 1 \in P => i \in P
    PROVE  \A i \in 0 .. n : i \in P
  <1> DEFINE Bad == {i \in 0 .. n : i \notin P}
  <1>1. SUFFICES ASSUME Bad # {} PROVE FALSE
    OBVIOUS
  <1>2. PICK b \in Bad : \A c \in Bad : b <= c
    <2>1. Bad \in SUBSET Nat
      OBVIOUS
    <2> HIDE DEF Bad
    <2> QED BY <1>1, <2>1, SmallestOf
  <1>3. b \in 1 .. n /\ b - 1 \in 0 .. n
    BY <1>2
  <1>4. b - 1 \notin Bad
    BY <1>2, <1>3
  <1> QED BY <1>2, <1>3, <1>4

\* n moves from a within S
Moves(n, S) == [1 .. n -> [S -> S]]
Follows(g, n, S, a, step) == g \in [0 .. n -> S] /\ g[0] = a /\ \A i \in 1 .. n : g[i] = step[i][g[i - 1]]

LEMMA Recursion ==
    ASSUME NEW n \in Nat, NEW S, NEW a \in S, NEW step \in Moves(n, S)
    PROVE  \E g : Follows(g, n, S, a, step)
  <1> USE DEF Moves
  <1> DEFINE Upto(m) == \E g \in [0 .. m -> S] : g[0] = a /\ \A i \in 1 .. m : g[i] = step[i][g[i - 1]]
             P == {m \in 0 .. n : Upto(m)}
  <1>1. Upto(0)
    <2>1. /\ [i \in 0 .. 0 |-> a] \in [0 .. 0 -> S] /\ [i \in 0 .. 0 |-> a][0] = a
          /\ \A i \in 1 .. 0 : FALSE
      OBVIOUS
    <2> QED BY <2>1
  <1>2. ASSUME NEW m \in 1 .. n, Upto(m - 1)
        PROVE  Upto(m)
    <2>1. PICK g \in [0 .. (m - 1) -> S] : g[0] = a /\ \A i \in 1 .. (m - 1) : g[i] = step[i][g[i - 1]]
      BY <1>2
    <2> DEFINE h == [i \in 0 .. m |-> IF i = m THEN step[m][g[m - 1]] ELSE g[i]]
    <2>2. step[m][g[m - 1]] \in S
      BY <2>1
    <2>3. h \in [0 .. m -> S]
      BY <2>1, <2>2
    <2>4. h[0] = a /\ h[m] = step[m][h[m - 1]]
      BY <2>1
    <2>5. \A i \in 1 .. (m - 1) : h[i] = step[i][h[i - 1]]
      BY <2>1
    <2>6. \A i \in 1 .. m : i = m \/ i \in 1 .. (m - 1)
      OBVIOUS
    <2> HIDE DEF h
    <2> QED BY <2>3, <2>4, <2>5, <2>6
  <1>3. 0 \in P /\ \A m \in 1 .. n : m - 1 \in P => m \in P
    <2> HIDE DEF Upto
    <2> QED BY <1>1, <1>2
  <1>4. n \in P
    <2>1. n \in 0 .. n
      OBVIOUS
    <2> HIDE DEF P
    <2> QED BY <1>3, <2>1, Climb
  <1> QED BY <1>4 DEF Follows

-----------------------------------------------------------------------------
(* The lists *)

\* A filter keeps members of the list that are in the set.
LEMMA KeptIs ==
    ASSUME NEW T, NEW list \in Seq(T), NEW S
    PROVE  Kept(list, S) \in Seq(T \cap S)
  <1> DEFINE n == Len(list)
             U == Seq(T \cap S)
             step == [i \in 1 .. n |-> [l \in U |-> IF list[i] \in S THEN Append(l, list[i]) ELSE l]]
             Eq(f) == f = [i \in 0 .. n |->
                          IF i = 0 THEN <<>> ELSE IF list[i] \in S THEN Append(f[i - 1], list[i]) ELSE f[i - 1]]
  <1>1. n \in Nat /\ <<>> \in U /\ step \in [1 .. n -> [U -> U]]
    OBVIOUS
  <1>2. PICK g \in [0 .. n -> U] : g[0] = <<>> /\ \A i \in 1 .. n : g[i] = step[i][g[i - 1]]
    <2> DEFINE a == <<>>
    <2>1. n \in Nat /\ a \in U /\ step \in Moves(n, U)
      BY <1>1 DEF Moves
    <2>2. a = <<>>
      OBVIOUS
    <2> HIDE DEF n, U, step, a
    <2>3. \E g : Follows(g, n, U, a, step)
      BY <2>1, Recursion
    <2> QED BY <2>2, <2>3 DEF Follows
  <1>3. Eq(g)
    <2>1. \A i \in 1 .. n : i - 1 \in 0 .. n
      BY <1>1
    <2>2. \A i \in 1 .. n : g[i - 1] \in U
      <3> HIDE DEF U, n
      <3> QED BY <1>2, <2>1
    <2>3. \A i \in 1 .. n : step[i][g[i - 1]] = IF list[i] \in S THEN Append(g[i - 1], list[i]) ELSE g[i - 1]
      <3> HIDE DEF U, n
      <3> QED BY <2>2
    <2>4. \A i \in 0 .. n : i = 0 \/ i \in 1 .. n
      BY <1>1
    <2> HIDE DEF n, U, step
    <2> QED BY <1>2, <2>3, <2>4
  <1> DEFINE f == CHOOSE h : Eq(h)
  <1>4. Eq(f)
    <2> HIDE DEF Eq
    <2> QED BY <1>3
  <1>5. \A i \in 0 .. n : f[i] \in U
    <2> DEFINE P == {i \in 0 .. n : f[i] \in U}
    <2> HIDE DEF f
    <2>1. \A i \in 1 .. n : i \in 0 .. n /\ i - 1 \in 0 .. n /\ i # 0
      BY <1>1
    <2>2. f[0] = <<>> /\ \A i \in 1 .. n : f[i] = IF list[i] \in S THEN Append(f[i - 1], list[i]) ELSE f[i - 1]
      <3>1. 0 \in 0 .. n
        BY <1>1
      <3> HIDE DEF n
      <3> QED BY <3>1, <2>1, <1>4
    <2>3. 0 \in P
      <3>1. 0 \in 0 .. n
        BY <1>1
      <3> HIDE DEF n, U
      <3> QED BY <2>2, <1>1, <3>1
    <2>4. \A i \in 1 .. n : i - 1 \in P => i \in P
      <3> SUFFICES ASSUME NEW i \in 1 .. n, f[i - 1] \in U PROVE f[i] \in U
        BY <2>1
      <3>1. list[i] \in T
        OBVIOUS
      <3>2. CASE list[i] \in S
        <4>1. f[i] = Append(f[i - 1], list[i])
          BY <2>2, <3>2
        <4> QED BY <3>1, <3>2, <4>1
      <3>3. CASE list[i] \notin S
        BY <2>2, <3>3
      <3> QED BY <3>2, <3>3
    <2> HIDE DEF P, U, n
    <2>5. \A i \in 0 .. n : i \in P
      BY <2>3, <2>4, <1>1, Climb
    <2> QED BY <2>5 DEF P
  <1>6. Kept(list, S) = f[n]
    BY DEF Kept
  <1>7. n \in 0 .. n
    BY <1>1
  <1> HIDE DEF U, n, f
  <1> QED BY <1>5, <1>6, <1>7

\* The last of a list are members of it, and no more than the limit.
LEMMA LatestIs ==
    ASSUME NEW max \in Nat \ {0}, NEW T, NEW list \in Seq(T)
    PROVE  Latest(max, list) \in Seq(T) /\ Len(Latest(max, list)) <= max
  <1>1. CASE Len(list) <= max
    BY <1>1 DEF Latest
  <1>2. CASE ~(Len(list) <= max)
    <2> DEFINE l == SubSeq(list, Len(list) - max + 1, Len(list))
    <2>1. Len(list) \in Nat /\ Len(list) > max
      BY <1>2
    <2>2. Latest(max, list) = l
      BY <2>1 DEF Latest
    <2>3. l \in Seq(T) /\ Len(l) = max
      BY <2>1
    <2> QED BY <2>2, <2>3
  <1> QED BY <1>1, <1>2

\* A note puts its referent in the place of the one of that kind and id.
LEMMA NoteIs ==
    ASSUME WorkerSizes, NEW T, NEW list \in Seq(T), NEW U, NEW k, NEW n, NEW name,
           \A r \in T : r.kind # k \/ r.id # n => r \in U,
           [kind |-> k, id |-> n, name |-> name, era |-> era] \in U
    PROVE  Note(list, k, n, name) \in Seq(U) /\ Len(Note(list, k, n, name)) <= MAX_REFERENTS
  <1> DEFINE S == {r \in Range(list) : r.kind # k \/ r.id # n}
             new == [kind |-> k, id |-> n, name |-> name, era |-> era]
  <1>1. Kept(list, S) \in Seq(T \cap S)
    BY KeptIs
  <1>2. T \cap S \subseteq U
    OBVIOUS
  <1>3. Kept(list, S) \in Seq(U)
    <2> HIDE DEF S
    <2> QED BY <1>1, <1>2
  <1>4. Append(Kept(list, S), new) \in Seq(U)
    <2> HIDE DEF S, new
    <2>1. new \in U
      BY DEF new
    <2> QED BY <1>3, <2>1
  <1>5. Note(list, k, n, name) = Latest(MAX_REFERENTS, Append(Kept(list, S), new))
    BY DEF Note
  <1>6. MAX_REFERENTS \in Nat \ {0}
    BY DEF WorkerSizes
  <1> HIDE DEF S, new
  <1> QED BY <1>4, <1>5, <1>6, LatestIs

\* Notes of a list, one by one.
LEMMA NoteAllIs ==
    ASSUME WorkerSizes, NEW U, NEW list \in Seq(U), Len(list) <= MAX_REFERENTS, NEW k, NEW S, NEW order \in Seq(S),
           \A i \in 1 .. Len(order) :
              [kind |-> k, id |-> order[i], name |-> Title(k, order[i]), era |-> era] \in U
    PROVE  NoteAll(list, k, order) \in Seq(U) /\ Len(NoteAll(list, k, order)) <= MAX_REFERENTS
  <1> DEFINE n == Len(order)
             V == {l \in Seq(U) : Len(l) <= MAX_REFERENTS}
             To(l, i) == Note(l, k, order[i], Title(k, order[i]))
             step == [i \in 1 .. n |-> [l \in V |-> To(l, i)]]
             Eq(f) == f = [i \in 0 .. n |-> IF i = 0 THEN list ELSE To(f[i - 1], i)]
  <1>1. n \in Nat /\ list \in V
    OBVIOUS
  <1>2. \A i \in 1 .. n, l \in V : To(l, i) \in V
    <2> SUFFICES ASSUME NEW i \in 1 .. n, NEW l \in V
                 PROVE  To(l, i) \in Seq(U) /\ Len(To(l, i)) <= MAX_REFERENTS
      OBVIOUS
    <2> QED BY NoteIs
  <1>3. PICK g \in [0 .. n -> V] : g[0] = list /\ \A i \in 1 .. n : g[i] = step[i][g[i - 1]]
    <2>1. step \in Moves(n, V)
      <3> HIDE DEF To, V, n
      <3> QED BY <1>2 DEF Moves
    <2> HIDE DEF n, V, step
    <2>2. \E g : Follows(g, n, V, list, step)
      BY <1>1, <2>1, Recursion
    <2> QED BY <2>2 DEF Follows
  <1>4. Eq(g)
    <2>1. \A i \in 1 .. n : i - 1 \in 0 .. n
      BY <1>1
    <2>2. \A i \in 1 .. n : g[i - 1] \in V
      <3> HIDE DEF V, n
      <3> QED BY <1>3, <2>1
    <2>3. \A i \in 1 .. n : step[i][g[i - 1]] = To(g[i - 1], i)
      <3> HIDE DEF V, n, To
      <3> QED BY <2>2
    <2>4. \A i \in 0 .. n : i = 0 \/ i \in 1 .. n
      BY <1>1
    <2> HIDE DEF n, V, step, To
    <2> QED BY <1>3, <2>3, <2>4
  <1> DEFINE f == CHOOSE h : Eq(h)
  <1>5. Eq(f)
    <2> HIDE DEF Eq
    <2> QED BY <1>4
  <1>6. \A i \in 0 .. n : f[i] \in V
    <2> DEFINE P == {i \in 0 .. n : f[i] \in V}
    <2> HIDE DEF f
    <2>1. \A i \in 1 .. n : i \in 0 .. n /\ i - 1 \in 0 .. n /\ i # 0
      BY <1>1
    <2>2. f[0] = list /\ \A i \in 1 .. n : f[i] = To(f[i - 1], i)
      <3>1. 0 \in 0 .. n
        BY <1>1
      <3> HIDE DEF n, To
      <3> QED BY <3>1, <2>1, <1>5
    <2>3. 0 \in P
      <3>1. 0 \in 0 .. n
        BY <1>1
      <3> HIDE DEF n, V
      <3> QED BY <2>2, <1>1, <3>1
    <2>4. \A i \in 1 .. n : i - 1 \in P => i \in P
      <3> HIDE DEF V, n, To
      <3> QED BY <1>2, <2>1, <2>2
    <2> HIDE DEF P, V, n
    <2>5. \A i \in 0 .. n : i \in P
      BY <2>3, <2>4, <1>1, Climb
    <2> QED BY <2>5 DEF P
  <1>7. NoteAll(list, k, order) = f[n]
    BY DEF NoteAll
  <1>8. n \in 0 .. n
    BY <1>1
  <1>9. f[n] \in V
    <2> HIDE DEF V, n, f
    <2> QED BY <1>6, <1>8
  <1> HIDE DEF n, f
  <1> QED BY <1>7, <1>9

\* A mention of an entity that is in a workspace.
LEMMA MentionIs ==
    ASSUME WorkerSizes, era \in 0 .. MaxResets, NEW list \in Seq(Mentions),
           NEW n \in 1 .. MaxOf["entity"], NEW s \in Spaces
    PROVE  Mention(list, n, s) \in Seq(Mentions) /\ Len(Mention(list, n, s)) <= MAX_RECENT
  <1> DEFINE S == {r \in Range(list) : r.id # n}
             new == [id |-> n, space |-> s, era |-> era]
  <1>1. Kept(list, S) \in Seq(Mentions \cap S)
    <2> HIDE DEF S
    <2> QED BY KeptIs
  <1>2. new \in Mentions
    BY DEF Mentions
  <1>3. Kept(list, S) \in Seq(Mentions)
    <2>1. Mentions \cap S \subseteq Mentions
      OBVIOUS
    <2> HIDE DEF S
    <2> QED BY <1>1, <2>1
  <1>4. Append(Kept(list, S), new) \in Seq(Mentions)
    <2> HIDE DEF S, new
    <2> QED BY <1>2, <1>3
  <1>5. Mention(list, n, s) = Latest(MAX_RECENT, Append(Kept(list, S), new))
    BY DEF Mention
  <1>6. MAX_RECENT \in Nat \ {0}
    BY DEF WorkerSizes
  <1> HIDE DEF S, new
  <1> QED BY <1>4, <1>5, <1>6, LatestIs

LEMMA MentionAllIs ==
    ASSUME WorkerSizes, era \in 0 .. MaxResets, NEW list \in Seq(Mentions), Len(list) <= MAX_RECENT,
           NEW order \in Seq(1 .. MaxOf["entity"]), NEW s \in Spaces
    PROVE  MentionAll(list, order, s) \in Seq(Mentions) /\ Len(MentionAll(list, order, s)) <= MAX_RECENT
  <1> DEFINE n == Len(order)
             V == {l \in Seq(Mentions) : Len(l) <= MAX_RECENT}
             To(l, i) == Mention(l, order[i], s)
             step == [i \in 1 .. n |-> [l \in V |-> To(l, i)]]
             Eq(f) == f = [i \in 0 .. n |-> IF i = 0 THEN list ELSE To(f[i - 1], i)]
  <1>1. n \in Nat /\ list \in V
    OBVIOUS
  <1>2. \A i \in 1 .. n, l \in V : To(l, i) \in V
    <2> SUFFICES ASSUME NEW i \in 1 .. n, NEW l \in V
                 PROVE  To(l, i) \in Seq(Mentions) /\ Len(To(l, i)) <= MAX_RECENT
      OBVIOUS
    <2> DEFINE E == 1 .. MaxOf["entity"]
    <2>1. order[i] \in E
      <3>1. order \in Seq(E) /\ i \in 1 .. Len(order)
        OBVIOUS
      <3> HIDE DEF E
      <3> QED BY <3>1
    <2> QED BY <2>1, MentionIs
  <1>3. PICK g \in [0 .. n -> V] : g[0] = list /\ \A i \in 1 .. n : g[i] = step[i][g[i - 1]]
    <2>1. step \in Moves(n, V)
      <3> HIDE DEF To, V, n
      <3> QED BY <1>2 DEF Moves
    <2> HIDE DEF n, V, step
    <2>2. \E g : Follows(g, n, V, list, step)
      BY <1>1, <2>1, Recursion
    <2> QED BY <2>2 DEF Follows
  <1>4. Eq(g)
    <2>1. \A i \in 1 .. n : i - 1 \in 0 .. n
      BY <1>1
    <2>2. \A i \in 1 .. n : g[i - 1] \in V
      <3> HIDE DEF V, n
      <3> QED BY <1>3, <2>1
    <2>3. \A i \in 1 .. n : step[i][g[i - 1]] = To(g[i - 1], i)
      <3> HIDE DEF V, n, To
      <3> QED BY <2>2
    <2>4. \A i \in 0 .. n : i = 0 \/ i \in 1 .. n
      BY <1>1
    <2> HIDE DEF n, V, step, To
    <2> QED BY <1>3, <2>3, <2>4
  <1> DEFINE f == CHOOSE h : Eq(h)
  <1>5. Eq(f)
    <2> HIDE DEF Eq
    <2> QED BY <1>4
  <1>6. \A i \in 0 .. n : f[i] \in V
    <2> DEFINE P == {i \in 0 .. n : f[i] \in V}
    <2> HIDE DEF f
    <2>1. \A i \in 1 .. n : i \in 0 .. n /\ i - 1 \in 0 .. n /\ i # 0
      BY <1>1
    <2>2. f[0] = list /\ \A i \in 1 .. n : f[i] = To(f[i - 1], i)
      <3>1. 0 \in 0 .. n
        BY <1>1
      <3> HIDE DEF n, To
      <3> QED BY <3>1, <2>1, <1>5
    <2>3. 0 \in P
      <3>1. 0 \in 0 .. n
        BY <1>1
      <3> HIDE DEF n, V
      <3> QED BY <2>2, <1>1, <3>1
    <2>4. \A i \in 1 .. n : i - 1 \in P => i \in P
      <3> HIDE DEF V, n, To
      <3> QED BY <1>2, <2>1, <2>2
    <2> HIDE DEF P, V, n
    <2>5. \A i \in 0 .. n : i \in P
      BY <2>3, <2>4, <1>1, Climb
    <2> QED BY <2>5 DEF P
  <1>7. MentionAll(list, order, s) = f[n]
    BY DEF MentionAll
  <1>8. n \in 0 .. n
    BY <1>1
  <1>9. f[n] \in V
    <2> HIDE DEF V, n, f
    <2> QED BY <1>6, <1>8
  <1> HIDE DEF n, f
  <1> QED BY <1>7, <1>9
-----------------------------------------------------------------------------
(* The rows of a message *)

Row == [name : Names, space : Spaces \cup {"none"}, is : {"open", "done", "gone"}, added : BOOLEAN]

\* The rows of every kind are numbered without a gap.
Numbered(r) ==
    /\ \A k \in Kinds : \E n \in Nat : {key \in DOMAIN r : key[1] = k} = {<<k, m>> : m \in 1 .. n}
    /\ \A key \in DOMAIN r : key \in Keys /\ r[key] \in Row

InSight(r, s) ==
    {n \in 1 .. MaxOf["entity"] :
        <<"entity", n>> \in DOMAIN r /\ r[<<"entity", n>>].is = "open" /\ r[<<"entity", n>>].space = s}

Unique(r) ==
    \A s \in Spaces : \A m, n \in InSight(r, s) :
        m < n /\ r[<<"entity", m>>].name = r[<<"entity", n>>].name => r[<<"entity", n>>].added

NewRow(name, s, added) == [name |-> name, space |-> s, is |-> "open", added |-> added]

\* What a step does to the rows: nothing, all of them go, one comes, under a new
\* title unless /add made it, or one changes, an entity only by going, and what
\* goes goes by a Yes to the question for that tool.
OneComes ==
    \E k \in Kinds : \E name \in Names, s \in Spaces \cup {"none"}, added \in BOOLEAN :
        /\ Adds(k, name, s, added)
        /\ k = "entity" => added = TRUE \/ Titled("entity", Entities(s), name) = {}

Answered(kind) ==
    turn.at = "idle" /\ asked' = Nobody /\ asked.tool = IF kind = "task" THEN "delete_task" ELSE "delete_entity"

OneChanges ==
    \E k, n :
        \/ k # "entity" /\ \E state \in {"open", "done"} : Becomes(k, n, state)
        \/ k = "task" /\ \E name \in Names : rows' = [rows EXCEPT ![<<k, n>>].name = name]
        \/ Answered(k) /\ Becomes(k, n, "gone")

RowsStep == rows' = rows \/ rows' = <<>> \/ OneComes \/ OneChanges

-----------------------------------------------------------------------------

LEMMA NextIdIs ==
    ASSUME Numbered(rows), NEW k \in Kinds
    PROVE  \E n \in Nat : /\ {key \in DOMAIN rows : key[1] = k} = {<<k, m>> : m \in 1 .. n}
                          /\ NextId(k) = n + 1
  <1>1. PICK n \in Nat : {key \in DOMAIN rows : key[1] = k} = {<<k, m>> : m \in 1 .. n}
    BY DEF Numbered
  <1> DEFINE S == {<<k, m>> : m \in 1 .. n}
             f == [m \in 1 .. n |-> <<k, m>>]
  <1>2. f \in Bijection(1 .. n, S)
    BY DEF Bijection, Injection, Surjection, IsInjective
  <1>3. Cardinality(S) = n
    BY <1>2, FS_CountingElements DEF ExistsBijection
  <1>4. NextId(k) = n + 1
    <2> DEFINE T == {key \in DOMAIN rows : key[1] = k}
    <2>1. NextId(k) = 1 + Cardinality(T)
      BY DEF NextId
    <2>2. Cardinality(T) = n
      BY <1>1, <1>3
    <2> HIDE DEF S, f, T
    <2> QED BY <2>1, <2>2
  <1> QED BY <1>1, <1>4

\* the row that comes is the next of its kind
Grown(k, n, name, s, added) ==
    /\ {key \in DOMAIN rows : key[1] = k} = {<<k, m>> : m \in 1 .. n}
    /\ NextId(k) = n + 1 /\ n + 1 <= MaxOf[k] /\ <<k, n + 1>> \notin DOMAIN rows
    /\ DOMAIN rows' = DOMAIN rows \cup {<<k, n + 1>>}
    /\ \A key \in DOMAIN rows : rows'[key] = rows[key]
    /\ rows'[<<k, n + 1>>] = NewRow(name, s, added)

LEMMA AddsIs ==
    ASSUME Numbered(rows), NEW k \in Kinds, NEW name, NEW s, NEW added, Adds(k, name, s, added)
    PROVE  \E n \in Nat : Grown(k, n, name, s, added)
  <1>1. PICK n \in Nat : /\ {key \in DOMAIN rows : key[1] = k} = {<<k, m>> : m \in 1 .. n}
                         /\ NextId(k) = n + 1
    BY NextIdIs
  <1>2. <<k, n + 1>> \notin DOMAIN rows
    BY <1>1
  <1>3. /\ n + 1 <= MaxOf[k]
        /\ rows' = [x \in DOMAIN rows \cup {<<k, n + 1>>} |->
                      IF x = <<k, n + 1>> THEN NewRow(name, s, added) ELSE rows[x]]
    BY <1>1 DEF Adds, NewRow
  <1>4. Grown(k, n, name, s, added)
    BY <1>1, <1>2, <1>3 DEF Grown
  <1> QED BY <1>4

LEMMA ChangesIs ==
    ASSUME Numbered(rows), OneChanges
    PROVE  \E k, n :
              /\ DOMAIN rows' = DOMAIN rows
              /\ \A key \in DOMAIN rows : rows'[key] \in Row
              /\ \A key \in DOMAIN rows : key[1] # "task" => rows'[key].name = rows[key].name
              /\ \A key \in DOMAIN rows : key # <<k, n>> => rows'[key] = rows[key]
              /\ \A key \in DOMAIN rows :
                    rows'[key].is # rows[key].is /\ rows'[key].is = "gone" => Answered(k)
              /\ k = "entity" => \A key \in DOMAIN rows :
                    /\ rows'[key].is = "open" => rows[key].is = "open"
                    /\ rows'[key].name = rows[key].name /\ rows'[key].space = rows[key].space
                    /\ rows'[key].added = rows[key].added
  <1>1. PICK k, n : \/ k # "entity" /\ \E state \in {"open", "done"} : Becomes(k, n, state)
                    \/ k = "task" /\ \E name \in Names : rows' = [rows EXCEPT ![<<k, n>>].name = name]
                    \/ Answered(k) /\ Becomes(k, n, "gone")
    BY DEF OneChanges
  <1>2. CASE k # "entity" /\ \E state \in {"open", "done"} : Becomes(k, n, state)
    BY <1>2 DEF Becomes, Numbered, Row
  <1>3. CASE k = "task" /\ \E name \in Names : rows' = [rows EXCEPT ![<<k, n>>].name = name]
    BY <1>3 DEF Numbered, Row
  <1>4. CASE Answered(k) /\ Becomes(k, n, "gone")
    <2>1. /\ DOMAIN rows' = DOMAIN rows
          /\ \A key \in DOMAIN rows :
                rows'[key] = IF key = <<k, n>> THEN [rows[key] EXCEPT !.is = "gone"] ELSE rows[key]
      BY <1>4 DEF Becomes
    <2>2. \A key \in DOMAIN rows :
             /\ [rows[key] EXCEPT !.is = "gone"] \in Row
             /\ [rows[key] EXCEPT !.is = "gone"].is = "gone"
             /\ [rows[key] EXCEPT !.is = "gone"].name = rows[key].name
             /\ [rows[key] EXCEPT !.is = "gone"].space = rows[key].space
             /\ [rows[key] EXCEPT !.is = "gone"].added = rows[key].added
      BY DEF Numbered, Row
    <2>3. \A key \in DOMAIN rows : rows[key] \in Row
      BY DEF Numbered
    <2>4. /\ \A key \in DOMAIN rows : rows'[key] \in Row
          /\ \A key \in DOMAIN rows : key[1] # "task" => rows'[key].name = rows[key].name
          /\ \A key \in DOMAIN rows : key # <<k, n>> => rows'[key] = rows[key]
          /\ \A key \in DOMAIN rows :
                /\ rows'[key].is = "open" => rows[key].is = "open"
                /\ rows'[key].name = rows[key].name /\ rows'[key].space = rows[key].space
                /\ rows'[key].added = rows[key].added
      BY <2>1, <2>2, <2>3
    <2> QED BY <1>4, <2>1, <2>4
  <1> QED BY <1>1, <1>2, <1>3, <1>4

LEMMA NumberedStep == ASSUME Numbered(rows), RowsStep PROVE Numbered(rows)'
  <1>1. CASE rows' = rows
    BY <1>1 DEF Numbered
  <1>2. CASE rows' = <<>>
    <2>1. \A k : {key \in DOMAIN rows' : key[1] = k} = {<<k, m>> : m \in 1 .. 0}
      BY <1>2
    <2> QED BY <1>2, <2>1 DEF Numbered
  <1>3. CASE OneComes
    <2>1. PICK k \in Kinds : \E name \in Names, s \in Spaces \cup {"none"}, added \in BOOLEAN :
                Adds(k, name, s, added)
      BY <1>3 DEF OneComes
    <2>0. PICK name \in Names, s \in Spaces \cup {"none"}, added \in BOOLEAN : Adds(k, name, s, added)
      BY <2>1
    <2>2. PICK n \in Nat : Grown(k, n, name, s, added)
      BY <2>0, AddsIs
    <2> USE DEF Grown
    <2>3. {key \in DOMAIN rows' : key[1] = k} = {<<k, m>> : m \in 1 .. n + 1}
      <3>1. {key \in DOMAIN rows' : key[1] = k} = {key \in DOMAIN rows : key[1] = k} \cup {<<k, n + 1>>}
        BY <2>2
      <3>2. {<<k, m>> : m \in 1 .. n + 1} = {<<k, m>> : m \in 1 .. n} \cup {<<k, n + 1>>}
        OBVIOUS
      <3> QED BY <2>2, <3>1, <3>2
    <2>4. \A j \in Kinds \ {k} : {key \in DOMAIN rows' : key[1] = j} = {key \in DOMAIN rows : key[1] = j}
      BY <2>2
    <2>5. \A j \in Kinds : \E i \in Nat : {key \in DOMAIN rows' : key[1] = j} = {<<j, m>> : m \in 1 .. i}
      <3>1. n + 1 \in Nat
        OBVIOUS
      <3>2. \A j \in Kinds \ {k} : \E i \in Nat : {key \in DOMAIN rows' : key[1] = j} = {<<j, m>> : m \in 1 .. i}
        BY <2>4 DEF Numbered
      <3>3. \E i \in Nat : {key \in DOMAIN rows' : key[1] = k} = {<<k, m>> : m \in 1 .. i}
        BY <2>3, <3>1
      <3> QED BY <3>2, <3>3
    <2>6. \A key \in DOMAIN rows' : key \in Keys /\ rows'[key] \in Row
      <3>1. <<k, n + 1>> \in Keys /\ NewRow(name, s, added) \in Row
        BY <2>2 DEF Keys, NewRow, Row
      <3> QED BY <2>2, <3>1 DEF Numbered
    <2> QED BY <2>5, <2>6 DEF Numbered
  <1>4. CASE OneChanges
    BY <1>4, ChangesIs DEF Numbered
  <1> QED BY <1>1, <1>2, <1>3, <1>4 DEF RowsStep

LEMMA UniqueStep == ASSUME Numbered(rows), Unique(rows), RowsStep PROVE Unique(rows)'
  <1>1. CASE rows' = rows
    BY <1>1 DEF Unique, InSight
  <1>2. CASE rows' = <<>>
    BY <1>2 DEF Unique, InSight
  <1>3. CASE OneComes
    <2>0. PICK k \in Kinds : \E name \in Names, s \in Spaces \cup {"none"}, added \in BOOLEAN :
              /\ Adds(k, name, s, added)
              /\ k = "entity" => added = TRUE \/ Titled("entity", Entities(s), name) = {}
      BY <1>3 DEF OneComes
    <2>1. PICK name \in Names, s \in Spaces \cup {"none"}, added \in BOOLEAN :
              /\ Adds(k, name, s, added)
              /\ k = "entity" => added = TRUE \/ Titled("entity", Entities(s), name) = {}
      BY <2>0
    <2>2. PICK n \in Nat : Grown(k, n, name, s, added)
      <3>1. Adds(k, name, s, added)
        BY <2>1
      <3> QED BY <3>1, AddsIs
    <2> USE DEF Grown
    <2>3. SUFFICES ASSUME NEW w \in Spaces, NEW x \in InSight(rows, w)', NEW y \in InSight(rows, w)', x < y,
                          rows'[<<"entity", x>>].name = rows'[<<"entity", y>>].name
                   PROVE  rows'[<<"entity", y>>].added
      BY DEF Unique
    <2>4. CASE <<"entity", x>> \in DOMAIN rows /\ <<"entity", y>> \in DOMAIN rows
      BY <2>2, <2>3, <2>4 DEF Unique, InSight
    <2>5. CASE ~(<<"entity", x>> \in DOMAIN rows /\ <<"entity", y>> \in DOMAIN rows)
      <3>1. k = "entity" /\ y = n + 1 /\ <<"entity", x>> \in DOMAIN rows
        BY <2>2, <2>3, <2>5 DEF InSight
      <3>2. s = w /\ rows[<<"entity", x>>].name = name /\ rows'[<<"entity", y>>].added = added
        BY <2>2, <2>3, <3>1 DEF InSight, NewRow
      <3>3. x \in Titled("entity", Entities(s), name)
        BY <2>2, <2>3, <3>1, <3>2 DEF Titled, Entities, Shown, Title, InSight
      <3> QED BY <2>1, <3>1, <3>2, <3>3
    <2> QED BY <2>4, <2>5
  <1>4. CASE OneChanges
    <2>1. PICK k, n :
              /\ DOMAIN rows' = DOMAIN rows
              /\ \A key \in DOMAIN rows : key # <<k, n>> => rows'[key] = rows[key]
              /\ k = "entity" => \A key \in DOMAIN rows :
                    /\ rows'[key].is = "open" => rows[key].is = "open"
                    /\ rows'[key].name = rows[key].name /\ rows'[key].space = rows[key].space
                    /\ rows'[key].added = rows[key].added
      BY <1>4, ChangesIs
    <2>2. \A m : <<"entity", m>> \in DOMAIN rows =>
             /\ rows'[<<"entity", m>>].is = "open" => rows[<<"entity", m>>].is = "open"
             /\ rows'[<<"entity", m>>].name = rows[<<"entity", m>>].name
             /\ rows'[<<"entity", m>>].space = rows[<<"entity", m>>].space
             /\ rows'[<<"entity", m>>].added = rows[<<"entity", m>>].added
      BY <2>1
    <2>3. \A w : InSight(rows, w)' \subseteq InSight(rows, w)
      BY <2>1, <2>2 DEF InSight
    <2>4. \A w : \A m \in InSight(rows, w) : <<"entity", m>> \in DOMAIN rows
      BY DEF InSight
    <2>5. SUFFICES ASSUME NEW w \in Spaces, NEW x \in InSight(rows, w)', NEW y \in InSight(rows, w)', x < y,
                          rows'[<<"entity", x>>].name = rows'[<<"entity", y>>].name
                   PROVE  rows'[<<"entity", y>>].added
      BY DEF Unique
    <2>6. /\ x \in InSight(rows, w) /\ y \in InSight(rows, w)
          /\ rows[<<"entity", x>>].name = rows[<<"entity", y>>].name
      BY <2>2, <2>3, <2>4, <2>5
    <2>7. rows[<<"entity", y>>].added
      BY <2>5, <2>6 DEF Unique
    <2> QED BY <2>2, <2>4, <2>6, <2>7
  <1> QED BY <1>1, <1>2, <1>3, <1>4 DEF RowsStep
-----------------------------------------------------------------------------
(* The steps *)

Same == rows' = rows

LEMMA SameIs == Same => RowsStep
BY DEF Same, RowsStep

LEMMA LoopRows ==
    StartMessage \/ Final \/ Unhandled \/ InvalidArgs \/ Elsewhere \/ No \/ Restart \/ Legacy => Same
BY DEF StartMessage, Final, Unhandled, InvalidArgs, Elsewhere, No, Restart, Legacy, Same

LEMMA TaskRows ==
    ASSUME NEW o, NEW name, NEW n, NEW ref, NEW state,
           \/ FindTask(o) \/ CompleteTask(n) \/ UpdateGoalDeadline(ref) \/ ListGoals
           \/ name \in Names /\ (CreateTask(name) \/ CreateGoal(name) \/ UpdateTask(n, name))
           \/ state \in {"open", "done"} /\ UpdateGoalProgress(n, state)
    PROVE  RowsStep
  <1>1. CASE FindTask(o) \/ UpdateGoalDeadline(ref) \/ ListGoals
    BY <1>1, SameIs DEF FindTask, UpdateGoalDeadline, ListGoals, Same
  <1>2. CASE name \in Names /\ CreateTask(name)
    BY <1>2 DEF CreateTask, RowsStep, OneComes, Kinds
  <1>3. CASE name \in Names /\ CreateGoal(name)
    BY <1>3 DEF CreateGoal, RowsStep, OneComes, Kinds
  <1>4. CASE CompleteTask(n)
    BY <1>4 DEF CompleteTask, RowsStep, OneChanges
  <1>5. CASE name \in Names /\ UpdateTask(n, name)
    BY <1>5 DEF UpdateTask, RowsStep, OneChanges
  <1>6. CASE state \in {"open", "done"} /\ UpdateGoalProgress(n, state)
    BY <1>6 DEF UpdateGoalProgress, RowsStep, OneChanges
  <1> QED BY <1>1, <1>2, <1>3, <1>4, <1>5, <1>6

LEMMA EntityRows ==
    ASSUME NEW o, NEW name, NEW s \in Spaces \cup {"none"}, NEW ref,
           \/ OpenSpace(s) \/ ListEntities(s) \/ ListAll(s) \/ FindEntity(o) \/ AdoptEntity(name, s)
           \/ name \in Names /\ (CreateEntity(name, s) \/ CreateEntityBroken(name, s))
           \/ GetEntity(ref, s) \/ UpdateEntity(ref, s) \/ TopicOf(ref, s)
    PROVE  RowsStep
  <1>1. CASE OpenSpace(s) \/ ListEntities(s) \/ ListAll(s) \/ FindEntity(o) \/ AdoptEntity(name, s)
    BY <1>1, SameIs DEF OpenSpace, ListEntities, ListAll, FindEntity, AdoptEntity, Same
  <1>2. CASE GetEntity(ref, s) \/ UpdateEntity(ref, s) \/ TopicOf(ref, s)
    BY <1>2, SameIs DEF GetEntity, UpdateEntity, TopicOf, Same
  <1>3. CASE name \in Names /\ CreateEntity(name, s)
    BY <1>3 DEF CreateEntity, RowsStep, OneComes, Kinds
  <1>4. CASE name \in Names /\ CreateEntityBroken(name, s)
    BY <1>4 DEF CreateEntityBroken, RowsStep, OneComes, Kinds
  <1> QED BY <1>1, <1>2, <1>3, <1>4

LEMMA GatedRows ==
    ASSUME NEW tool \in {"delete_task", "delete_entity", "delete_entity_topic"}, NEW ref, NEW s,
           CallGated(tool, ref, s)
    PROVE  Same
BY DEF CallGated, Gated, Same

LEMMA YesRows == ASSUME Yes PROVE RowsStep
  <1> DEFINE tool == asked.tool
             ref == asked.ref
             n == NameMatch(ref, SpaceOf(asked.space))
             m == ResolveEntity(ref, SpaceOf(asked.space))
  <1>1. Runs(tool, ref, asked.space) /\ turn.at = "idle" /\ asked' = Nobody
    BY DEF Yes
  <1>2. CASE tool = "delete_task" /\ ref[1] = "id" /\ <<"task", ref[2]>> \in DOMAIN rows
    <2>1. Becomes("task", ref[2], "gone") /\ Answered("task")
      BY <1>1, <1>2 DEF Runs, Answered
    <2> QED BY <2>1 DEF RowsStep, OneChanges
  <1>3. CASE tool = "delete_entity" /\ n # 0
    <2>1. Becomes("entity", n, "gone") /\ Answered("entity")
      BY <1>1, <1>3 DEF Runs, Answered
    <2> QED BY <2>1 DEF RowsStep, OneChanges
  <1>4. CASE /\ ~(tool = "delete_task" /\ ref[1] = "id" /\ <<"task", ref[2]>> \in DOMAIN rows)
             /\ ~(tool = "delete_entity" /\ n # 0)
    <2>1. Same
      BY <1>1, <1>4 DEF Runs, Same
    <2> QED BY <2>1, SameIs
  <1> QED BY <1>2, <1>3, <1>4

LEMMA ManagerRows ==
    ASSUME NEW word, NEW signal, NEW byTitle, NEW name, NEW o,
           \/ PassesOn(word, signal) \/ Replies(word, signal) \/ ShowReferred(word, signal)
           \/ UpdateReferred(word, signal, byTitle) \/ UpdateNamed(name, word, signal)
           \/ RetrieveList(o, word, signal) \/ RetrieveNamed(name)
    PROVE  Same
BY DEF PassesOn, Replies, ShowReferred, UpdateReferred, UpdateNamed, RetrieveList, RetrieveNamed, Same

LEMMA OwnerRows ==
    ASSUME active.space \in Spaces \cup {"none"}, NEW name, NEW s, NEW n,
           \/ name \in Names /\ (CreateInWords(name) \/ AddCommand(name))
           \/ UseCommand(s, n) \/ Reset
    PROVE  RowsStep
  <1>1. CASE name \in Names /\ CreateInWords(name)
    BY <1>1 DEF CreateInWords, Here, RowsStep, OneComes, Kinds
  <1>2. CASE name \in Names /\ AddCommand(name)
    BY <1>2 DEF AddCommand, RowsStep, OneComes, Kinds
  <1>3. CASE UseCommand(s, n)
    BY <1>3 DEF UseCommand, RowsStep
  <1>4. CASE Reset
    BY <1>4 DEF Reset, RowsStep
  <1> QED BY <1>1, <1>2, <1>3, <1>4

-----------------------------------------------------------------------------
(* What the referents say *)

\* Since the last reset: that the row is there and has the title; a done goal is
\* noted as "goal".  From before it: no goal, for a new one takes its place.
IsTold(r) ==
    /\ r.era <= era
    /\ r.kind \in {"entity", "goal"} /\ r.era = era =>
          /\ <<r.kind, r.id>> \in DOMAIN rows
          /\ Title(r.kind, r.id) = r.name \/ (r.kind = "goal" /\ r.name = "goal")
    /\ r.kind = "goal" /\ r.era # era => <<"goal", r.id>> \notin DOMAIN rows
Told == {r \in Referents : IsTold(r)}

\* no reset, no title changes but a task's, and no goal comes
Keeps ==
    /\ era' = era
    /\ \A key \in DOMAIN rows : key[1] # "task" => key \in DOMAIN rows' /\ rows'[key].name = rows[key].name
    /\ \A n : <<"goal", n>> \in DOMAIN rows' => <<"goal", n>> \in DOMAIN rows

LEMMA ToldKept == ASSUME Keeps PROVE \A r \in Told : r \in Told'
  <1> SUFFICES ASSUME NEW r \in Referents, IsTold(r) PROVE IsTold(r)'
    BY DEF Told, Referents
  <1>1. <<r.kind, r.id>>[1] = r.kind
    OBVIOUS
  <1>2. r.kind \in {"entity", "goal"} /\ <<r.kind, r.id>> \in DOMAIN rows =>
           <<r.kind, r.id>> \in DOMAIN rows' /\ rows'[<<r.kind, r.id>>].name = rows[<<r.kind, r.id>>].name
    BY <1>1 DEF Keeps
  <1> QED BY <1>2 DEF Keeps, IsTold, Title

LEMMA SameKeeps == UNCHANGED <<rows, era>> => Keeps
BY DEF Keeps

LEMMA AddKeeps ==
    ASSUME Numbered(rows), NEW k \in Kinds, k # "goal", NEW name \in Names, NEW s \in Spaces \cup {"none"},
           NEW added \in BOOLEAN, Adds(k, name, s, added), era' = era
    PROVE  Keeps
  <1>2. PICK n \in Nat : Grown(k, n, name, s, added)
    BY AddsIs
  <1> QED BY <1>2 DEF Keeps, Grown

LEMMA ChangeKeeps == ASSUME Numbered(rows), OneChanges, era' = era PROVE Keeps
  <1>1. /\ DOMAIN rows' = DOMAIN rows
        /\ \A key \in DOMAIN rows : key[1] # "task" => rows'[key].name = rows[key].name
    BY ChangesIs
  <1> QED BY <1>1 DEF Keeps

\* what a title says of a row that is there
LEMMA TrueTitle ==
    ASSUME Numbered(rows), era \in 0 .. MaxResets, NEW k \in {"entity", "goal"}, NEW n \in Nat, <<k, n>> \in DOMAIN rows
    PROVE  [kind |-> k, id |-> n, name |-> Title(k, n), era |-> era] \in Told
  <1>1. Title(k, n) \in Names
    BY DEF Numbered, Row, Title
  <1>2. era <= era
    OBVIOUS
  <1> QED BY <1>1, <1>2 DEF Told, IsTold, Referents, Kinds

LEMMA TaskTold ==
    ASSUME era \in 0 .. MaxResets, NEW n \in Nat, NEW name \in Names
    PROVE  [kind |-> "task", id |-> n, name |-> name, era |-> era] \in Told
  <1>1. era <= era
    OBVIOUS
  <1> QED BY <1>1 DEF Told, IsTold, Referents, Kinds

-----------------------------------------------------------------------------
(* The row a reference reaches *)

LEMMA ShownIs ==
    ASSUME WorkerSizes, NEW k \in Kinds
    PROVE  /\ Shown(k) \in SUBSET Nat /\ Shown(k) \subseteq 1 .. MaxOf[k]
           /\ \A n \in Shown(k) : <<k, n>> \in DOMAIN rows
BY DEF WorkerSizes, Shown

LEMMA EntitiesAre ==
    ASSUME WorkerSizes, NEW s
    PROVE  /\ Entities(s) \in SUBSET Nat /\ Entities(s) \subseteq 1 .. MaxOf["entity"]
           /\ \A n \in Entities(s) : <<"entity", n>> \in DOMAIN rows
BY ShownIs DEF Entities, Kinds

LEMMA OneOf == ASSUME NEW S \in SUBSET Nat, Cardinality(S) = 1 PROVE S # {}
BY FS_EmptySet

LEMMA NameMatchIs ==
    ASSUME WorkerSizes, NEW ref \in Refs, NEW s, NameMatch(ref, s) # 0
    PROVE  /\ NameMatch(ref, s) \in Entities(s)
           /\ ref[1] = "id" => ref[2] = NameMatch(ref, s)
           /\ ref[1] = "name" => NameFits("entity", Entities(s), ref[2], NameMatch(ref, s))
  <1> DEFINE S == Entities(s)
             exact == Titled("entity", S, ref[2])
             part == {n \in S : ref[2] \in Within[Title("entity", n)]}
  <1>1. S \in SUBSET Nat /\ exact \in SUBSET Nat /\ part \in SUBSET Nat
    BY EntitiesAre DEF Titled
  <1>2. NameMatch(ref, s) =
           IF ref[1] = "id" THEN (IF ref[2] \in S THEN ref[2] ELSE 0)
           ELSE IF exact # {} THEN Lowest(exact)
           ELSE IF Cardinality(part) = 1 THEN Lowest(part) ELSE 0
    BY DEF NameMatch
  <1>3. CASE ref[1] = "id"
    BY <1>2, <1>3
  <1>4. CASE ref[1] # "id" /\ exact # {}
    <2>1. Lowest(exact) \in exact
      <3> HIDE DEF exact
      <3> QED BY <1>1, <1>4, LowestIs
    <2> QED BY <1>2, <1>4, <2>1 DEF Titled, NameFits
  <1>5. CASE ref[1] # "id" /\ exact = {}
    <2>1. Cardinality(part) = 1 /\ NameMatch(ref, s) = Lowest(part)
      BY <1>2, <1>5
    <2>2. Lowest(part) \in part
      <3> HIDE DEF part
      <3> QED BY <1>1, <2>1, OneOf, LowestIs
    <2> QED BY <1>5, <2>1, <2>2 DEF NameFits
  <1> QED BY <1>3, <1>4, <1>5

LEMMA ReferenceIs ==
    ASSUME NEW who, NEW word, NEW signal, NEW s, Reference(who, word, signal, s).is = "entity"
    PROVE  Reference(who, word, signal, s).id \in Entities(s)
BY DEF Reference, Ordinal, Pronoun, Found, Lost

\* Three ways a typed referent is found, or none.
LEMMA ResolveIs ==
    ASSUME typed \in Seq(Told), NEW ref \in Refs, NEW k \in Kinds
    PROVE  LET t == Resolve(ref, k)
           IN \/ t = NoReferent /\ (HoldsPronoun(ref) => typed = <<>>)
              \/ t \in Told /\ t.kind = k /\ ref \in {<<"id", t.id>>, <<"name", t.name>>}
              \/ t \in Told /\ HoldsPronoun(ref) /\ typed # <<>> /\ t = Last(typed)
  <1> DEFINE named == {i \in DOMAIN typed :
                          typed[i].kind = k /\ ref \in {<<"id", typed[i].id>>, <<"name", typed[i].name>>}}
  <1>1. Resolve(ref, k) = IF named # {} THEN typed[Max(named)]
                          ELSE IF typed # <<>> /\ HoldsPronoun(ref) THEN Last(typed) ELSE NoReferent
    BY DEF Resolve
  <1>2. CASE named # {}
    <2>1. named \in SUBSET (1 .. Len(typed)) /\ Len(typed) \in Nat
      OBVIOUS
    <2>2. Max(named) \in named
      <3> HIDE DEF named
      <3> QED BY <1>2, <2>1, LargestIs
    <2> QED BY <1>1, <1>2, <2>2
  <1>3. CASE named = {} /\ typed # <<>> /\ HoldsPronoun(ref)
    <2>1. Last(typed) \in Told
      BY <1>3 DEF Last
    <2> QED BY <1>1, <1>3, <2>1
  <1>4. CASE named = {} /\ ~(typed # <<>> /\ HoldsPronoun(ref))
    BY <1>1, <1>4
  <1> QED BY <1>2, <1>3, <1>4

Fine == {"meant", "pronoun", "untitled", "twin"}

LEMMA RefKinds == ASSUME NEW ref \in Refs PROVE ref[1] \in {"id", "name", "word"} /\ (ref[1] = "word" => HoldsPronoun(ref))
BY DEF Refs, HoldsPronoun

\* A tool reaches a visible entity of the workspace that the reference may mean.
LEMMA EntityReached ==
    ASSUME WorkerSizes, typed \in Seq(Told), NEW ref \in Refs, NEW s,
           ResolveEntity(ref, s).is = "entity",
           Judged("entity", Entities(s), ref, ResolveEntity(ref, s))
    PROVE  ResolveEntity(ref, s).id \in Entities(s) /\ reached' \in Fine
  <1> DEFINE t == Resolve(ref, "entity")
             m == IF ref[1] = "word" THEN Reference("worker", ref[2], FALSE, s) ELSE Lost("none")
             S == Entities(s)
             found == ResolveEntity(ref, s)
  <1>1. found =
           IF t.kind \notin {"none", "entity"} THEN Lost("conflict")
           ELSE IF t.kind = "entity" /\ t.id \in S THEN Found(t.id, t.era)
           ELSE IF m.is = "entity" THEN m
           ELSE IF NameMatch(ref, s) # 0 THEN Found(NameMatch(ref, s), era) ELSE Lost("none")
    BY DEF ResolveEntity
  <1>2. \/ t = NoReferent /\ (HoldsPronoun(ref) => typed = <<>>)
        \/ t \in Told /\ t.kind = "entity" /\ ref \in {<<"id", t.id>>, <<"name", t.name>>}
        \/ t \in Told /\ HoldsPronoun(ref) /\ typed # <<>> /\ t = Last(typed)
    BY ResolveIs DEF Kinds
  <1>3. ref[1] \in {"id", "name", "word"} /\ (ref[1] = "word" => HoldsPronoun(ref))
    BY RefKinds
  <1>4. SUFFICES /\ found.id \in S
                 /\ \/ found.era # era
                    \/ ref[1] = "id" /\ ref[2] = found.id
                    \/ ref[1] = "name" /\ NameFits("entity", S, ref[2], found.id)
                    \/ HoldsPronoun(ref) /\ WordFits("entity", S, found.id)
    BY <1>3 DEF Judged, Fine
  <1>5. t.kind \in {"none", "entity"}
    <2>1. t.kind \notin {"none", "entity"} => found = Lost("conflict")
      BY <1>1
    <2> HIDE DEF t
    <2> QED BY <2>1 DEF Lost
  <1>6. CASE t.kind = "entity" /\ t.id \in S
    <2>1. found.id = t.id /\ found.era = t.era /\ t # NoReferent
      BY <1>1, <1>6 DEF Found, NoReferent
    <2>2. CASE ref \in {<<"id", t.id>>, <<"name", t.name>>} /\ t \in Told
      BY <1>6, <2>1, <2>2 DEF Told, IsTold, NameFits
    <2>3. CASE HoldsPronoun(ref) /\ typed # <<>> /\ t = Last(typed)
      BY <1>6, <2>1, <2>3 DEF WordFits
    <2> QED BY <1>2, <2>1, <2>2, <2>3
  <1>7. CASE ~(t.kind = "entity" /\ t.id \in S)
    <2>1. HoldsPronoun(ref) => \A n : WordFits("entity", S, n) \/ ref[1] # "word"
      <3>1. ref[1] = "word" => ref \notin {<<"id", t.id>>, <<"name", t.name>>}
        OBVIOUS
      <3>2. t \in Told => t.kind # "none"
        BY DEF Told, Referents, Kinds
      <3> QED BY <1>2, <1>5, <1>7, <3>1, <3>2 DEF WordFits
    <2>2. CASE m.is = "entity"
      <3>1. ref[1] = "word" /\ found = m /\ m.id \in S
        BY <1>1, <1>5, <1>7, <2>2, ReferenceIs DEF Lost
      <3> QED BY <1>3, <2>1, <3>1
    <2>3. CASE m.is # "entity"
      <3>1. NameMatch(ref, s) # 0 /\ found.id = NameMatch(ref, s)
        BY <1>1, <1>5, <1>7, <2>3 DEF Lost, Found
      <3> QED BY <1>3, <2>1, <3>1, NameMatchIs
    <2> QED BY <2>2, <2>3
  <1> QED BY <1>6, <1>7

LEMMA GoalReached ==
    ASSUME WorkerSizes, Numbered(rows), era \in 0 .. MaxResets, typed \in Seq(Told), NEW ref \in Refs, NEW g, NEW name,
           g = ResolveGoal(ref), g.is = "entity", <<"goal", g.id>> \in DOMAIN rows,
           name = IF Resolve(ref, "goal").kind = "goal" THEN Resolve(ref, "goal").name ELSE Title("goal", g.id),
           Judged("goal", Shown("goal"), ref, g)
    PROVE  /\ g.id \in Nat /\ reached' \in Fine
           /\ [kind |-> "goal", id |-> g.id, name |-> name, era |-> era] \in Told
  <1> DEFINE t == Resolve(ref, "goal")
             S == Shown("goal")
             exact == IF ref[1] = "name" THEN Titled("goal", S, ref[2]) ELSE {}
  <1>1. g = IF t.kind \notin {"none", "goal"} THEN Lost("conflict")
            ELSE IF t.kind = "goal" THEN Found(t.id, t.era)
            ELSE IF ref[1] = "id" /\ ref[2] \in S THEN Found(ref[2], era)
            ELSE IF Cardinality(exact) = 1 THEN Found(Lowest(exact), era) ELSE Lost("none")
    BY DEF ResolveGoal
  <1>2. \/ t = NoReferent /\ (HoldsPronoun(ref) => typed = <<>>)
        \/ t \in Told /\ t.kind = "goal" /\ ref \in {<<"id", t.id>>, <<"name", t.name>>}
        \/ t \in Told /\ HoldsPronoun(ref) /\ typed # <<>> /\ t = Last(typed)
    BY ResolveIs DEF Kinds
  <1>3. S \in SUBSET Nat
    BY ShownIs DEF Kinds
  <1>4. t.kind \in {"none", "goal"}
    BY <1>1 DEF Lost
  <1>a. ASSUME \/ ref[1] = "id" /\ ref[2] = g.id
               \/ ref[1] = "name" /\ NameFits("goal", S, ref[2], g.id)
               \/ HoldsPronoun(ref) /\ WordFits("goal", S, g.id)
               \/ ref = <<"name", "goal">>
        PROVE  reached' \in Fine
    BY <1>a DEF Judged, Fine
  <1>5. CASE t.kind = "goal"
    <2>1. g.id = t.id /\ g.era = t.era /\ name = t.name /\ t \in Told
      BY <1>1, <1>2, <1>5 DEF Found, NoReferent
    <2>2. /\ t.era = era /\ t.id \in Nat /\ t.name \in Names \cup {"goal"}
          /\ Title("goal", t.id) = t.name \/ t.name = "goal"
      BY <1>5, <2>1 DEF Told, IsTold, Referents
    <2>3. [kind |-> "goal", id |-> g.id, name |-> name, era |-> era] \in Told
      <3>1. era <= era
        OBVIOUS
      <3> QED BY <2>1, <2>2, <3>1 DEF Told, IsTold, Referents, Kinds
    <2>4. reached' \in Fine
      <3>1. CASE ref \in {<<"id", t.id>>, <<"name", t.name>>}
        BY <1>a, <2>1, <2>2, <3>1 DEF NameFits
      <3>2. CASE HoldsPronoun(ref) /\ typed # <<>> /\ t = Last(typed)
        <4>1. WordFits("goal", S, g.id)
          BY <1>5, <2>1, <3>2 DEF WordFits
        <4> QED BY <1>a, <3>2, <4>1
      <3> QED BY <1>2, <1>5, <3>1, <3>2 DEF NoReferent
    <2> QED BY <2>1, <2>2, <2>3, <2>4
  <1>6. CASE t.kind = "none"
    <2>1. name = Title("goal", g.id)
      BY <1>6
    <2>2. \/ ref[1] = "id" /\ ref[2] \in S /\ g.id = ref[2]
          \/ ref[1] = "name" /\ g.id \in Titled("goal", S, ref[2])
      <3>1. CASE ref[1] = "id" /\ ref[2] \in S
        BY <1>1, <1>6, <3>1 DEF Found
      <3>2. CASE ~(ref[1] = "id" /\ ref[2] \in S)
        <4>1. Cardinality(exact) = 1 /\ g.id = Lowest(exact)
          BY <1>1, <1>6, <3>2 DEF Found, Lost
        <4>2. exact \in SUBSET Nat
          BY <1>3 DEF Titled
        <4>3. Lowest(exact) \in exact
          <5> HIDE DEF exact
          <5> QED BY <4>1, <4>2, OneOf, LowestIs
        <4> QED BY <4>1, <4>3
      <3> QED BY <3>1, <3>2
    <2>3. g.id \in Nat
      BY <1>3, <2>2 DEF Titled
    <2>4. reached' \in Fine
      BY <1>a, <2>2 DEF NameFits, Titled
    <2>5. [kind |-> "goal", id |-> g.id, name |-> name, era |-> era] \in Told
      BY <2>1, <2>3, TrueTitle
    <2> QED BY <2>3, <2>4, <2>5
  <1> QED BY <1>4, <1>5, <1>6

LEMMA FindByNameIs ==
    ASSUME WorkerSizes, NEW name, FindByName(name) # 0
    PROVE  FindByName(name) \in Here /\ NameFits("entity", Here, name, FindByName(name))
  <1> DEFINE exact == Titled("entity", Here, name)
             inside == {n \in Here : Title("entity", n) \in Within[name]}
             around == {n \in Here : name \in Within[Title("entity", n)]}
  <1>1. exact \in SUBSET Nat /\ inside \in SUBSET Nat /\ around \in SUBSET Nat
    BY EntitiesAre DEF Titled, Here
  <1>2. FindByName(name) =
           IF exact # {} THEN Lowest(exact) ELSE IF inside # {} THEN Lowest(inside)
           ELSE IF around # {} THEN Lowest(around) ELSE 0
    BY DEF FindByName
  <1>3. /\ exact # {} => Lowest(exact) \in exact
        /\ inside # {} => Lowest(inside) \in inside
        /\ around # {} => Lowest(around) \in around
    <2> HIDE DEF exact, inside, around
    <2> QED BY <1>1, LowestIs
  <1>4. CASE exact # {}
    BY <1>2, <1>3, <1>4 DEF Titled, NameFits
  <1>5. CASE exact = {} /\ inside # {}
    BY <1>2, <1>3, <1>5 DEF NameFits
  <1>6. CASE exact = {} /\ inside = {}
    BY <1>2, <1>3, <1>6 DEF NameFits
  <1> QED BY <1>4, <1>5, <1>6
-----------------------------------------------------------------------------
(* The inductive invariant *)

ActiveType == [space : Spaces \cup {"none"}, entity : 0 .. MaxOf["entity"], era : 0 .. MaxResets]
TurnType == [at : {"idle", "worker", "manager", "legacy"}, calls : 0 .. MAX_TOOL_CALLS, invalid : 0 .. 1]
Questions == {Nobody} \cup [tool : Gated, ref : Refs, space : Spaces \cup {"none"}]
HeardType == {h \in [{"worker", "manager"} -> Seq(Mentions)] : \A who \in {"worker", "manager"} : Len(h[who]) <= MAX_RECENT}

\* all but the rows and the typed referents
Sane ==
    /\ active \in ActiveType
    /\ heard \in HeardType /\ listed \in Seq(Mentions)
    /\ turn \in TurnType
    /\ asked \in Questions
    /\ era \in 0 .. MaxResets /\ said \in 0 .. MaxSaid
    /\ reached \in Fine

Remembered == typed \in Seq(Told) /\ Len(typed) <= MAX_REFERENTS

Inv == Numbered(rows) /\ Unique(rows) /\ Sane /\ Remembered

LEMMA SameRemembered == ASSUME Remembered, Keeps, typed' = typed PROVE Remembered'
  <1>1. \A r \in Told : r \in Told'
    BY ToldKept
  <1>2. typed \in Seq(Told')
    <2> DEFINE U == Told'
               T == Told
    <2>1. typed \in Seq(T) /\ \A r \in T : r \in U
      BY <1>1 DEF Remembered
    <2> HIDE DEF U, T
    <2>2. typed \in Seq(U)
      BY <2>1
    <2> QED BY <2>2 DEF U
  <1> QED BY <1>2 DEF Remembered

\* a referent that says the truth of the rows after the step
LEMMA NoteRemembered ==
    ASSUME WorkerSizes, Remembered, NEW k, NEW n, NEW name,
           \A r \in Told : r.kind # k \/ r.id # n => r \in Told',
           [kind |-> k, id |-> n, name |-> name, era |-> era] \in Told',
           typed' = Note(typed, k, n, name)
    PROVE  Remembered'
  <1> DEFINE U == Told'
  <1>1. typed \in Seq(Told)
    BY DEF Remembered
  <1>2. \A r \in Told : r.kind # k \/ r.id # n => r \in U
    OBVIOUS
  <1>3. [kind |-> k, id |-> n, name |-> name, era |-> era] \in U
    OBVIOUS
  <1> HIDE DEF U
  <1>4. Note(typed, k, n, name) \in Seq(U) /\ Len(Note(typed, k, n, name)) <= MAX_REFERENTS
    BY <1>1, <1>2, <1>3, NoteIs
  <1> QED BY <1>4 DEF Remembered, U

LEMMA NoteKeeps ==
    ASSUME WorkerSizes, Remembered, Keeps, NEW k, NEW n, NEW name,
           [kind |-> k, id |-> n, name |-> name, era |-> era] \in Told,
           typed' = Note(typed, k, n, name)
    PROVE  Remembered'
  <1>1. \A r \in Told : r \in Told'
    BY ToldKept
  <1> QED BY <1>1, NoteRemembered

LEMMA TitleTold ==
    ASSUME Numbered(rows), era \in 0 .. MaxResets, NEW k \in Kinds, NEW n \in Nat, <<k, n>> \in DOMAIN rows
    PROVE  [kind |-> k, id |-> n, name |-> Title(k, n), era |-> era] \in Told
  <1>1. Title(k, n) \in Names
    BY DEF Numbered, Row, Title
  <1>2. CASE k = "task"
    BY <1>1, <1>2, TaskTold
  <1>3. CASE k # "task"
    BY <1>3, TrueTitle DEF Kinds
  <1> QED BY <1>2, <1>3

LEMMA ListTold ==
    ASSUME WorkerSizes, Numbered(rows), era \in 0 .. MaxResets, NEW list \in Seq(Told), Len(list) <= MAX_REFERENTS,
           NEW k \in Kinds, NEW S \in SUBSET Nat, \A n \in S : <<k, n>> \in DOMAIN rows, NEW order \in Seq(S)
    PROVE  NoteAll(list, k, order) \in Seq(Told) /\ Len(NoteAll(list, k, order)) <= MAX_REFERENTS
  <1>1. \A i \in 1 .. Len(order) : order[i] \in S
    OBVIOUS
  <1>2. \A i \in 1 .. Len(order) :
           [kind |-> k, id |-> order[i], name |-> Title(k, order[i]), era |-> era] \in Told
    BY <1>1, TitleTold
  <1> QED BY <1>2, NoteAllIs

LEMMA NotedAll ==
    ASSUME Keeps, typed' \in Seq(Told), Len(typed') <= MAX_REFERENTS
    PROVE  Remembered'
  <1> DEFINE U == Told'
             T == Told
             list == typed'
  <1>1. \A r \in T : r \in U
    BY ToldKept
  <1>2. list \in Seq(T)
    OBVIOUS
  <1>3. list \in Seq(U)
    <2> HIDE DEF U, T, list
    <2> QED BY <1>1, <1>2
  <1> QED BY <1>3 DEF Remembered

LEMMA AscendingIs == ASSUME WorkerSizes, NEW k \in Kinds, NEW S PROVE Ascending(k, S) \in Seq(S)
  <1> DEFINE list == [n \in 1 .. MaxOf[k] |-> n]
             T == 1 .. MaxOf[k]
  <1>1. MaxOf[k] \in Nat
    BY DEF WorkerSizes
  <1>2. list \in Seq(T)
    BY <1>1
  <1>3. Kept(list, S) \in Seq(T \cap S)
    <2> HIDE DEF list, T
    <2> QED BY <1>2, KeptIs
  <1>4. T \cap S \subseteq S
    OBVIOUS
  <1>5. Kept(list, S) \in Seq(S)
    <2> HIDE DEF T, list
    <2> QED BY <1>3, <1>4
  <1> QED BY <1>5 DEF Ascending

LEMMA ReverseIs == ASSUME NEW S, NEW s \in Seq(S) PROVE Reverse(s) \in Seq(S)
BY DEF Reverse

LEMMA OrdersAre == ASSUME NEW S, NEW o \in Orders(S) PROVE o \in Seq(S)
BY DEF Orders, SeqOf

LEMMA TurnIs ==
    ASSUME WorkerSizes, Sane
    PROVE  /\ Calls /\ (Counted(0) \/ Counted(1)) => turn' \in TurnType
           /\ GoesTo("worker") \/ GoesTo("manager") \/ GoesTo("legacy") \/ turn' = Idle => turn' \in TurnType
  <1>1. MAX_TOOL_CALLS \in Nat \ {0}
    BY DEF WorkerSizes
  <1>2. turn \in TurnType
    BY DEF Sane
  <1>3. Calls /\ (Counted(0) \/ Counted(1)) => turn' \in TurnType
    <2> SUFFICES ASSUME turn.calls < MAX_TOOL_CALLS, NEW n \in {0, 1}, Counted(n) PROVE turn' \in TurnType
      BY DEF Calls
    <2>1. turn.calls + 1 \in 0 .. MAX_TOOL_CALLS /\ n \in 0 .. 1
      BY <1>1, <1>2 DEF TurnType
    <2>2. turn' = [at |-> turn.at, calls |-> turn.calls + 1, invalid |-> n]
      BY <1>2 DEF Counted, TurnType
    <2> QED BY <1>2, <2>1, <2>2 DEF TurnType
  <1>4. GoesTo("worker") \/ GoesTo("manager") \/ GoesTo("legacy") \/ turn' = Idle => turn' \in TurnType
    BY <1>1 DEF GoesTo, Idle, TurnType
  <1> QED BY <1>3, <1>4

LEMMA SpaceIs == ASSUME Sane PROVE active.space \in Spaces \cup {"none"} /\ active.entity \in 0 .. MaxOf["entity"]
BY DEF Sane, ActiveType

-----------------------------------------------------------------------------
(* The steps keep it *)

LEMMA LoopStep ==
    ASSUME WorkerSizes, Inv,
           StartMessage \/ Final \/ Unhandled \/ InvalidArgs \/ Elsewhere \/ No \/ Legacy \/ UNCHANGED vars
    PROVE  Sane' /\ Remembered'
  <1>1. /\ UNCHANGED <<rows, era, active, typed, heard, listed>>
        /\ reached' = "meant" \/ reached' = reached
        /\ said' = said \/ (said < MaxSaid /\ said' = said + 1)
        /\ asked' = asked \/ asked' = Nobody
    BY DEF StartMessage, Says, Final, Unhandled, InvalidArgs, Elsewhere, No, Legacy, vars, memory, past, Unjudged
  <1>2. turn' \in TurnType
    <2>1. CASE StartMessage \/ Final \/ Unhandled \/ Legacy
      BY <2>1, TurnIs DEF StartMessage, Final, Unhandled, Legacy, Inv
    <2>2. CASE InvalidArgs \/ Elsewhere
      BY <2>2, TurnIs DEF InvalidArgs, Elsewhere, Succeeds, Inv
    <2>3. CASE No \/ UNCHANGED vars
      BY <2>3 DEF No, vars, Inv, Sane
    <2> QED BY <2>1, <2>2, <2>3
  <1>3. Remembered'
    BY <1>1, SameKeeps, SameRemembered DEF Inv
  <1>4. said' \in 0 .. MaxSaid
    BY <1>1 DEF Inv, Sane, WorkerSizes
  <1>5. Sane'
    BY <1>1, <1>2, <1>4 DEF Inv, Sane, Questions, Fine
  <1> QED BY <1>3, <1>5

\* a tool that ran, and what it leaves alone
LEMMA Rest ==
    ASSUME WorkerSizes, Inv, UNCHANGED <<asked, era>>, said' = said, reached' \in Fine,
           active' \in ActiveType, turn' \in TurnType, heard' \in HeardType, listed' \in Seq(Mentions)
    PROVE  Sane'
BY DEF Inv, Sane, ActiveType, TurnType, HeardType, Mentions, Questions, Nobody, Refs, Gated

LEMMA RowIds ==
    ASSUME Numbered(rows), NEW key \in DOMAIN rows
    PROVE  key[1] \in Kinds /\ key[2] \in Nat /\ <<key[1], key[2]>> = key
BY DEF Numbered, Keys

LEMMA TaskStep ==
    ASSUME WorkerSizes, Inv, NEW o, NEW name, NEW n \in Nat,
           \/ o \in Orders(Shown("task")) /\ FindTask(o)
           \/ name \in Names /\ CreateTask(name)
           \/ <<"task", n>> \in DOMAIN rows /\ (CompleteTask(n) \/ (name \in Names /\ UpdateTask(n, name)))
    PROVE  Sane' /\ Remembered'
  <1> USE DEF Inv
  <1>0. era \in 0 .. MaxResets
    BY DEF Sane
  <1>1. /\ UNCHANGED <<active, heard, listed, asked, era, said>> /\ reached' = "meant"
        /\ Calls /\ Counted(0)
    BY DEF FindTask, CreateTask, CompleteTask, UpdateTask, Succeeds, Lists, NotesTyped, past, Unjudged
  <1>2. Sane'
    BY <1>1, TurnIs, Rest DEF Sane, Fine
  <1>3. CASE o \in Orders(Shown("task")) /\ FindTask(o)
    <2>1. typed' = NoteAll(typed, "task", o) /\ Keeps
      BY <1>1, <1>3, SameKeeps DEF FindTask, Lists
    <2>2. NoteAll(typed, "task", o) \in Seq(Told) /\ Len(NoteAll(typed, "task", o)) <= MAX_REFERENTS
      <3>1. Shown("task") \in SUBSET Nat /\ \A m \in Shown("task") : <<"task", m>> \in DOMAIN rows
        BY ShownIs DEF Kinds
      <3>2. o \in Seq(Shown("task"))
        BY <1>3, OrdersAre
      <3>3. "task" \in Kinds
        BY DEF Kinds
      <3> QED BY <1>0, <3>1, <3>2, <3>3, ListTold DEF Remembered
    <2> QED BY <1>2, <2>1, <2>2, NotedAll
  <1>4. CASE name \in Names /\ CreateTask(name)
    <2>1. typed' = Note(typed, "task", NextId("task"), name) /\ Adds("task", name, "none", FALSE)
      BY <1>4 DEF CreateTask, NotesTyped
    <2>2. Keeps
      BY <1>1, <1>4, <2>1, AddKeeps DEF Kinds
    <2>3. NextId("task") \in Nat
      BY NextIdIs DEF Kinds
    <2>4. [kind |-> "task", id |-> NextId("task"), name |-> name, era |-> era] \in Told
      BY <1>0, <1>4, <2>3, TaskTold
    <2> QED BY <1>2, <2>1, <2>2, <2>4, NoteKeeps
  <1>5. CASE <<"task", n>> \in DOMAIN rows /\ (CompleteTask(n) \/ (name \in Names /\ UpdateTask(n, name)))
    <2>1. typed' = Note(typed, "task", n, Title("task", n)) /\ OneChanges
      BY <1>5 DEF CompleteTask, UpdateTask, NotesTyped, OneChanges
    <2>2. Keeps
      BY <1>1, <2>1, ChangeKeeps
    <2>3. [kind |-> "task", id |-> n, name |-> Title("task", n), era |-> era] \in Told
      BY <1>0, <1>5, TitleTold DEF Kinds
    <2> QED BY <1>2, <2>1, <2>2, <2>3, NoteKeeps
  <1> QED BY <1>2, <1>3, <1>4, <1>5

LEMMA CreateGoalStep == ASSUME WorkerSizes, Inv, NEW name \in Names, CreateGoal(name) PROVE Sane' /\ Remembered'
  <1> USE DEF Inv
  <1>1. /\ UNCHANGED <<active, heard, listed, asked, era, said>> /\ reached' = "meant"
        /\ Calls /\ Counted(0) /\ era \in 0 .. MaxResets
        /\ typed' = Note(typed, "goal", NextId("goal"), name) /\ Adds("goal", name, "none", FALSE)
    BY DEF CreateGoal, Succeeds, NotesTyped, past, Unjudged, Sane
  <1>2. Sane'
    BY <1>1, TurnIs, Rest DEF Sane, Fine
  <1>3. PICK n \in Nat : Grown("goal", n, name, "none", FALSE)
    BY <1>1, AddsIs DEF Kinds
  <1>4. \A r \in Told : r.kind # "goal" \/ r.id # n + 1 => r \in Told'
    <2> SUFFICES ASSUME NEW r \in Referents, IsTold(r), r.kind # "goal" \/ r.id # n + 1 PROVE IsTold(r)'
      BY DEF Told, Referents
    <2>1. <<r.kind, r.id>> \in DOMAIN rows' <=> <<r.kind, r.id>> \in DOMAIN rows
      BY <1>3 DEF Grown
    <2>2. <<r.kind, r.id>> \in DOMAIN rows => rows'[<<r.kind, r.id>>] = rows[<<r.kind, r.id>>]
      BY <1>3 DEF Grown
    <2> QED BY <1>1, <2>1, <2>2 DEF IsTold, Title
  <1>5. [kind |-> "goal", id |-> n + 1, name |-> name, era |-> era] \in Told'
    <2>1. era <= era
      BY <1>1
    <2>2. rows'[<<"goal", n + 1>>].name = name /\ <<"goal", n + 1>> \in DOMAIN rows'
      BY <1>3 DEF NewRow, Grown
    <2> QED BY <1>1, <2>1, <2>2 DEF Told, IsTold, Referents, Kinds, Title
  <1>6. typed' = Note(typed, "goal", n + 1, name)
    BY <1>1, <1>3 DEF Grown
  <1> QED BY <1>2, <1>4, <1>5, <1>6, NoteRemembered

LEMMA GoalStep ==
    ASSUME WorkerSizes, Inv, NEW n \in Nat, NEW state, NEW ref,
           \/ ListGoals
           \/ ref \in Refs /\ UpdateGoalDeadline(ref)
           \/ state \in {"open", "done"} /\ <<"goal", n>> \in DOMAIN rows /\ UpdateGoalProgress(n, state)
    PROVE  Sane' /\ Remembered'
  <1> USE DEF Inv
  <1>0. era \in 0 .. MaxResets /\ "goal" \in Kinds
    BY DEF Sane, Kinds
  <1>1. UNCHANGED <<active, heard, listed, asked, era, said>> /\ Calls /\ Counted(0)
    BY DEF ListGoals, UpdateGoalDeadline, UpdateGoalProgress, Succeeds, Lists, NotesTyped, past
  <1>2. reached' \in Fine => Sane'
    BY <1>1, TurnIs, Rest DEF Sane
  <1>3. CASE ListGoals
    <2> DEFINE S == Shown("goal")
    <2>1. typed' = NoteAll(typed, "goal", Reverse(Ascending("goal", S))) /\ Keeps /\ reached' \in Fine
      BY <1>1, <1>3, SameKeeps DEF ListGoals, Lists, Unjudged, Fine
    <2>2. Reverse(Ascending("goal", S)) \in Seq(S)
      <3> HIDE DEF S
      <3> QED BY <1>0, AscendingIs, ReverseIs
    <2>3. S \in SUBSET Nat /\ \A m \in S : <<"goal", m>> \in DOMAIN rows
      BY <1>0, ShownIs
    <2> HIDE DEF S
    <2>4. /\ NoteAll(typed, "goal", Reverse(Ascending("goal", S))) \in Seq(Told)
          /\ Len(NoteAll(typed, "goal", Reverse(Ascending("goal", S)))) <= MAX_REFERENTS
      BY <1>0, <2>2, <2>3, ListTold DEF Remembered
    <2> QED BY <1>2, <2>1, <2>4, NotedAll
  <1>4. CASE ref \in Refs /\ UpdateGoalDeadline(ref)
    <2> DEFINE g == ResolveGoal(ref)
               name == IF Resolve(ref, "goal").kind = "goal" THEN Resolve(ref, "goal").name ELSE Title("goal", g.id)
    <2>1. /\ g.is = "entity" /\ <<"goal", g.id>> \in DOMAIN rows /\ Judged("goal", Shown("goal"), ref, g)
          /\ typed' = Note(typed, "goal", g.id, name) /\ UNCHANGED rows
      BY <1>4 DEF UpdateGoalDeadline, NotesTyped
    <2>2. name = IF Resolve(ref, "goal").kind = "goal" THEN Resolve(ref, "goal").name ELSE Title("goal", g.id)
      OBVIOUS
    <2>3. g = ResolveGoal(ref)
      OBVIOUS
    <2> HIDE DEF g, name
    <2>4. /\ g.id \in Nat /\ reached' \in Fine
          /\ [kind |-> "goal", id |-> g.id, name |-> name, era |-> era] \in Told
      BY <1>0, <1>4, <2>1, <2>2, <2>3, GoalReached DEF Remembered
    <2> QED BY <1>1, <1>2, <2>1, <2>4, SameKeeps, NoteKeeps
  <1>5. CASE state \in {"open", "done"} /\ <<"goal", n>> \in DOMAIN rows /\ UpdateGoalProgress(n, state)
    <2> DEFINE name == IF n \in Shown("goal") THEN Title("goal", n) ELSE "goal"
    <2>1. typed' = Note(typed, "goal", n, name) /\ OneChanges /\ reached' \in Fine
      BY <1>5 DEF UpdateGoalProgress, NotesTyped, OneChanges, Unjudged, Fine
    <2>2. [kind |-> "goal", id |-> n, name |-> name, era |-> era] \in Told
      <3>1. CASE n \in Shown("goal")
        BY <1>0, <1>5, <3>1, TitleTold
      <3>2. CASE n \notin Shown("goal")
        <4>1. era <= era /\ name = "goal"
          BY <1>0, <3>2
        <4> QED BY <1>0, <1>5, <4>1 DEF Told, IsTold, Referents, Kinds
      <3> QED BY <3>1, <3>2
    <2> HIDE DEF name
    <2> QED BY <1>1, <1>2, <2>1, <2>2, ChangeKeeps, NoteKeeps
  <1> QED BY <1>3, <1>4, <1>5

LEMMA ActivatesIs ==
    ASSUME Sane, NEW n \in 1 .. MaxOf["entity"], NEW s \in Spaces \cup {"none"}, Activates(n, s)
    PROVE  active' \in ActiveType
BY DEF Activates, ActiveType, Sane

LEMMA HearsIs ==
    ASSUME WorkerSizes, Sane, NEW n \in 1 .. MaxOf["entity"], NEW s \in Spaces, NEW who \in {"worker", "manager"},
           heard' = [heard EXCEPT ![who] = Mention(heard[who], n, s)]
    PROVE  heard' \in HeardType
  <1>1. heard[who] \in Seq(Mentions)
    BY DEF Sane, HeardType
  <1>2. Mention(heard[who], n, s) \in Seq(Mentions) /\ Len(Mention(heard[who], n, s)) <= MAX_RECENT
    BY <1>1, MentionIs DEF Sane
  <1> DEFINE M == Mention(heard[who], n, s)
  <1> HIDE DEF M
  <1> QED BY <1>2 DEF Sane, HeardType, M

\* a tool that reaches an entity and mentions it
LEMMA MentionStep ==
    ASSUME WorkerSizes, Inv, NEW n \in 1 .. MaxOf["entity"], NEW s \in Spaces, NEW name,
           NotesMention(n, s, name), Succeeds, UNCHANGED <<asked, past>>, active' \in ActiveType, reached' \in Fine
    PROVE  Sane' /\ typed' = Note(typed, "entity", n, name)
  <1>1. heard' \in HeardType
    BY HearsIs DEF NotesMention, Inv
  <1>2. turn' \in TurnType
    BY TurnIs DEF Succeeds, Inv
  <1>3. listed' \in Seq(Mentions)
    BY DEF NotesMention, Inv, Sane
  <1> QED BY <1>1, <1>2, <1>3, Rest DEF NotesMention, past

LEMMA FoundStep ==
    ASSUME WorkerSizes, Inv, NEW ref \in Refs, NEW s \in Spaces,
           GetEntity(ref, s) \/ UpdateEntity(ref, s) \/ TopicOf(ref, s)
    PROVE  Sane' /\ Remembered'
  <1> DEFINE m == ResolveEntity(ref, s)
  <1>0. era \in 0 .. MaxResets /\ "entity" \in Kinds
    BY DEF Inv, Sane, Kinds
  <1>1. /\ m.is = "entity" /\ Judged("entity", Entities(s), ref, m) /\ Succeeds
        /\ UNCHANGED <<rows, asked, past>>
    BY DEF GetEntity, UpdateEntity, TopicOf
  <1>2. m.id \in Entities(s) /\ reached' \in Fine
    BY <1>1, EntityReached DEF Inv, Remembered
  <1>3. m.id \in 1 .. MaxOf["entity"] /\ m.id \in Nat /\ <<"entity", m.id>> \in DOMAIN rows
    BY <1>2, EntitiesAre
  <1>4. Keeps
    BY <1>1, SameKeeps DEF past
  <1> HIDE DEF m
  <1>5. CASE TopicOf(ref, s)
    <2>1. UNCHANGED <<active, typed, heard, listed>> /\ turn' \in TurnType
      BY <1>5, TurnIs DEF TopicOf, memory, Succeeds, Inv
    <2>2. Sane'
      BY <1>1, <1>2, <2>1, Rest DEF Inv, Sane, past
    <2> QED BY <1>4, <2>1, <2>2, SameRemembered DEF Inv
  <1>6. CASE GetEntity(ref, s) \/ UpdateEntity(ref, s)
    <2>1. /\ NotesMention(m.id, s, Title("entity", m.id))
          /\ active' = active \/ Activates(m.id, s)
      BY <1>6 DEF GetEntity, UpdateEntity, m
    <2>2. active' \in ActiveType
      BY <1>3, <2>1, ActivatesIs DEF Inv, Sane
    <2>3. Sane' /\ typed' = Note(typed, "entity", m.id, Title("entity", m.id))
      BY <1>1, <1>2, <1>3, <2>1, <2>2, MentionStep
    <2>4. [kind |-> "entity", id |-> m.id, name |-> Title("entity", m.id), era |-> era] \in Told
      BY <1>0, <1>3, TitleTold DEF Inv
    <2> QED BY <1>4, <2>3, <2>4, NoteKeeps DEF Inv
  <1> QED BY <1>5, <1>6

LEMMA CreatedStep ==
    ASSUME WorkerSizes, Inv, NEW name \in Names, NEW s \in Spaces,
           CreateEntity(name, s) \/ AdoptEntity(name, s) \/ CreateEntityBroken(name, s)
    PROVE  Sane' /\ Remembered'
  <1>0. era \in 0 .. MaxResets /\ "entity" \in Kinds
    BY DEF Inv, Sane, Kinds
  <1>1. CASE AdoptEntity(name, s)
    <2> DEFINE S == Titled("entity", Entities(s), name)
               n == Lowest(S)
    <2>1. /\ S # {} /\ NotesMention(n, s, name) /\ Succeeds /\ reached' \in Fine
          /\ UNCHANGED <<rows, active, asked, past>>
      BY <1>1 DEF AdoptEntity, Unjudged, Fine
    <2>2. n \in S
      <3>1. S \in SUBSET Nat
        BY EntitiesAre DEF Titled
      <3> HIDE DEF S
      <3> QED BY <2>1, <3>1, LowestIs
    <2>3. n \in 1 .. MaxOf["entity"] /\ n \in Nat /\ <<"entity", n>> \in DOMAIN rows /\ Title("entity", n) = name
      BY <2>2, EntitiesAre DEF Titled
    <2> HIDE DEF n, S
    <2>4. active' \in ActiveType
      BY <2>1 DEF Inv, Sane
    <2>5. Sane' /\ typed' = Note(typed, "entity", n, name)
      BY <2>1, <2>3, <2>4, MentionStep
    <2>6. [kind |-> "entity", id |-> n, name |-> name, era |-> era] \in Told
      BY <1>0, <2>3, TitleTold DEF Inv
    <2>7. Keeps
      BY <2>1, SameKeeps DEF past
    <2> QED BY <2>5, <2>6, <2>7, NoteKeeps DEF Inv
  <1>2. ASSUME Adds("entity", name, s, FALSE), UNCHANGED <<asked, past>>, reached' = "meant"
        PROVE  /\ Keeps /\ NextId("entity") \in 1 .. MaxOf["entity"]
               /\ [kind |-> "entity", id |-> NextId("entity"), name |-> name, era |-> era] \in Told'
    <2>1. PICK n \in Nat : Grown("entity", n, name, s, FALSE)
      BY <1>0, <1>2, AddsIs DEF Inv
    <2>2. era' = era
      BY <1>2 DEF past
    <2>3. Keeps
      BY <2>1, <2>2 DEF Keeps, Grown
    <2>4. NextId("entity") = n + 1 /\ n + 1 \in 1 .. MaxOf["entity"]
      BY <2>1 DEF Grown, WorkerSizes
    <2>5. rows'[<<"entity", n + 1>>].name = name /\ <<"entity", n + 1>> \in DOMAIN rows'
      BY <2>1 DEF NewRow, Grown
    <2>6. era <= era
      BY <1>0
    <2>7. [kind |-> "entity", id |-> n + 1, name |-> name, era |-> era] \in Told'
      BY <1>0, <2>2, <2>5, <2>6 DEF Told, IsTold, Referents, Kinds, Title
    <2> QED BY <2>3, <2>4, <2>7
  <1>3. CASE CreateEntity(name, s)
    <2>1. /\ Adds("entity", name, s, FALSE) /\ Activates(NextId("entity"), s) /\ Succeeds
          /\ NotesMention(NextId("entity"), s, name) /\ UNCHANGED <<asked, past>> /\ reached' = "meant"
      BY <1>3 DEF CreateEntity, Unjudged
    <2>2. /\ Keeps /\ NextId("entity") \in 1 .. MaxOf["entity"]
          /\ [kind |-> "entity", id |-> NextId("entity"), name |-> name, era |-> era] \in Told'
      BY <1>2, <2>1
    <2>3. active' \in ActiveType
      BY <2>1, <2>2, ActivatesIs DEF Inv
    <2>4. Sane' /\ typed' = Note(typed, "entity", NextId("entity"), name)
      BY <2>1, <2>2, <2>3, MentionStep DEF Fine
    <2>5. \A r \in Told : r \in Told'
      BY <2>2, ToldKept
    <2> QED BY <2>2, <2>4, <2>5, NoteRemembered DEF Inv
  <1>4. CASE CreateEntityBroken(name, s)
    <2>1. /\ Adds("entity", name, s, FALSE) /\ GoesTo("manager")
          /\ UNCHANGED <<active, typed, heard, listed, asked, past>> /\ reached' = "meant"
      BY <1>4 DEF CreateEntityBroken, memory, Unjudged
    <2>2. Keeps
      BY <1>2, <2>1
    <2>3. turn' \in TurnType
      BY <2>1, TurnIs DEF Inv
    <2>4. Sane'
      BY <2>1, <2>3, Rest DEF Inv, Sane, past, Fine
    <2> QED BY <2>1, <2>2, <2>4, SameRemembered DEF Inv
  <1> QED BY <1>1, <1>3, <1>4

LEMMA ListStep ==
    ASSUME WorkerSizes, Inv, NEW s \in Spaces, NEW o,
           ListEntities(s) \/ ListAll(s) \/ (o \in Orders(Entities(s)) /\ FindEntity(o))
    PROVE  Sane' /\ Remembered'
  <1> USE DEF Inv
  <1> DEFINE E == Entities(s)
             G == Shown("goal")
             T == Shown("task")
  <1>1. /\ UNCHANGED <<rows, active, heard, listed, asked, era, said>> /\ reached' \in Fine
        /\ Calls /\ Counted(0)
    BY DEF ListEntities, FindEntity, ListAll, Succeeds, Lists, past, Unjudged, Fine
  <1>2. Sane'
    BY <1>1, TurnIs, Rest DEF Sane
  <1>3. Keeps /\ era \in 0 .. MaxResets /\ {"entity", "goal", "task"} = Kinds
    BY <1>1, SameKeeps DEF Sane, Kinds
  <1>4. /\ E \in SUBSET Nat /\ \A n \in E : <<"entity", n>> \in DOMAIN rows
        /\ G \in SUBSET Nat /\ \A n \in G : <<"goal", n>> \in DOMAIN rows
        /\ T \in SUBSET Nat /\ \A n \in T : <<"task", n>> \in DOMAIN rows
    BY <1>3, ShownIs, EntitiesAre
  <1>5. typed \in Seq(Told) /\ Len(typed) <= MAX_REFERENTS
    BY DEF Remembered
  <1>6. CASE o \in Orders(Entities(s)) /\ FindEntity(o)
    <2>1. typed' = NoteAll(typed, "entity", o)
      BY <1>6 DEF FindEntity, Lists
    <2>2. o \in Seq(E)
      BY <1>6, OrdersAre
    <2> HIDE DEF E
    <2>3. NoteAll(typed, "entity", o) \in Seq(Told) /\ Len(NoteAll(typed, "entity", o)) <= MAX_REFERENTS
      BY <1>3, <1>4, <1>5, <2>2, ListTold
    <2> QED BY <1>2, <1>3, <2>1, <2>3, NotedAll
  <1>7. Ascending("entity", E) \in Seq(E)
    BY <1>3, AscendingIs
  <1> DEFINE e == NoteAll(typed, "entity", Ascending("entity", E))
             g == NoteAll(e, "goal", Reverse(Ascending("goal", G)))
             t == NoteAll(g, "task", Ascending("task", T))
  <1>8. e \in Seq(Told) /\ Len(e) <= MAX_REFERENTS
    <2> HIDE DEF E
    <2> QED BY <1>3, <1>4, <1>5, <1>7, ListTold
  <1>9. CASE ListEntities(s)
    <2>1. typed' = e
      BY <1>9 DEF ListEntities, Lists
    <2> HIDE DEF e
    <2> QED BY <1>2, <1>3, <1>8, <2>1, NotedAll
  <1>10. CASE ListAll(s)
    <2>1. typed' = t
      BY <1>10 DEF ListAll
    <2>2. Reverse(Ascending("goal", G)) \in Seq(G)
      BY <1>3, AscendingIs, ReverseIs
    <2>3. Ascending("task", T) \in Seq(T)
      BY <1>3, AscendingIs
    <2> HIDE DEF e, G, T
    <2>4. g \in Seq(Told) /\ Len(g) <= MAX_REFERENTS
      BY <1>3, <1>4, <1>8, <2>2, ListTold
    <2> HIDE DEF g
    <2>5. t \in Seq(Told) /\ Len(t) <= MAX_REFERENTS
      BY <1>3, <1>4, <2>3, <2>4, ListTold
    <2> HIDE DEF t
    <2> QED BY <1>2, <1>3, <2>1, <2>5, NotedAll
  <1> QED BY <1>6, <1>9, <1>10

LEMMA SpaceStep ==
    ASSUME WorkerSizes, Inv, NEW s \in Spaces \cup {"none"}, NEW ref, NEW tool,
           \/ OpenSpace(s)
           \/ /\ tool \in {"delete_task", "delete_entity", "delete_entity_topic"} /\ ref \in Refs
              /\ CallGated(tool, ref, s)
    PROVE  Sane' /\ Remembered'
  <1> USE DEF Inv
  <1>1. /\ UNCHANGED <<rows, typed, heard, listed, era, said>> /\ reached' = "meant"
        /\ OpenSpace(s) \/ active' = active
    BY DEF OpenSpace, CallGated, Gated, memory, past, Unjudged
  <1>2. Remembered'
    BY <1>1, SameKeeps, SameRemembered
  <1>3. active' \in ActiveType
    <2>1. 0 \in 0 .. MaxOf["entity"] /\ 0 \in 0 .. MaxResets
      BY DEF WorkerSizes, Kinds
    <2> QED BY <1>1, <2>1 DEF OpenSpace, Nowhere, ActiveType, Sane
  <1>4. asked' \in Questions /\ turn' \in TurnType
    <2>1. CASE OpenSpace(s)
      BY <2>1, TurnIs DEF OpenSpace, Succeeds, Sane
    <2>2. CASE /\ tool \in {"delete_task", "delete_entity", "delete_entity_topic"} /\ ref \in Refs
               /\ CallGated(tool, ref, s)
      BY <2>2, TurnIs DEF CallGated, Gated, Questions
    <2> QED BY <2>1, <2>2
  <1> QED BY <1>1, <1>2, <1>3, <1>4 DEF Sane, Fine

LEMMA YesStep == ASSUME WorkerSizes, Inv, Yes PROVE Sane' /\ Remembered'
  <1> USE DEF Inv
  <1> DEFINE tool == asked.tool
             ref == asked.ref
             s == SpaceOf(asked.space)
             n == NameMatch(ref, s)
             m == ResolveEntity(ref, s)
             Task == tool = "delete_task" /\ ref[1] = "id" /\ <<"task", ref[2]>> \in DOMAIN rows
             Entity == tool = "delete_entity" /\ n # 0
             Topic == tool = "delete_entity_topic" /\ m.is = "entity"
  <1>1. /\ Runs(tool, ref, asked.space) /\ asked' = Nobody /\ turn.at = "idle"
        /\ UNCHANGED <<typed, heard, listed, turn, era, said>>
    BY DEF Yes, memory, past
  <1>2. ref \in Refs
    BY DEF Yes, Sane, Questions
  <1>3. active' \in ActiveType /\ reached' \in Fine /\ Keeps
    <2>1. CASE Task
      <3>1. Becomes("task", ref[2], "gone") /\ Answered("task") /\ active' = active /\ reached' = "meant"
        BY <1>1, <2>1 DEF Runs, Answered, Unjudged
      <3>2. OneChanges
        BY <3>1 DEF OneChanges
      <3> QED BY <1>1, <3>1, <3>2, ChangeKeeps DEF Sane, Fine
    <2>2. CASE Entity
      <3>1. /\ Becomes("entity", n, "gone") /\ Answered("entity") /\ reached' = "meant"
            /\ active' = [active EXCEPT !.entity = 0, !.era = 0] \/ active' = active
        BY <1>1, <2>2 DEF Runs, Answered, Unjudged
      <3>2. OneChanges
        BY <3>1 DEF OneChanges
      <3>3. 0 \in 0 .. MaxOf["entity"] /\ 0 \in 0 .. MaxResets
        BY DEF WorkerSizes, Kinds
      <3>4. active' \in ActiveType
        BY <3>1, <3>3 DEF Sane, ActiveType
      <3> QED BY <1>1, <3>1, <3>2, <3>4, ChangeKeeps DEF Fine
    <2>3. CASE Topic
      <3>1. Judged("entity", Entities(s), ref, m) /\ UNCHANGED <<rows, active>>
        BY <1>1, <2>3 DEF Runs
      <3>2. reached' \in Fine
        BY <1>2, <2>3, <3>1, EntityReached DEF Remembered
      <3> QED BY <1>1, <3>1, <3>2, SameKeeps DEF Sane
    <2>4. CASE ~Task /\ ~Entity /\ ~Topic
      <3>1. UNCHANGED <<rows, active>> /\ reached' = "meant"
        BY <1>1, <2>4 DEF Runs, Unjudged
      <3> QED BY <1>1, <3>1, SameKeeps DEF Sane, Fine
    <2> QED BY <2>1, <2>2, <2>3, <2>4
  <1>4. Remembered'
    BY <1>1, <1>3, SameRemembered
  <1>5. Sane'
    BY <1>1, <1>3 DEF Sane, Questions
  <1> QED BY <1>4, <1>5

-----------------------------------------------------------------------------
(* The manager's steps *)

\* what any reply of the manager leaves alone
LEMMA ManagerRest ==
    ASSUME WorkerSizes, Inv, Keeps, UNCHANGED <<typed, asked, said>>, reached' \in Fine,
           active' \in ActiveType, turn' \in TurnType, heard' \in HeardType, listed' \in Seq(Mentions)
    PROVE  Sane' /\ Remembered'
  <1>1. Sane'
    BY Rest DEF Keeps
  <1> QED BY <1>1, SameRemembered DEF Inv

LEMMA ClearsIs == ASSUME WorkerSizes, Sane, NEW m, ClearsStale(m) PROVE active' \in ActiveType
  <1>1. 0 \in 0 .. MaxOf["entity"] /\ 0 \in 0 .. MaxResets
    BY DEF WorkerSizes, Kinds
  <1> QED BY <1>1 DEF ClearsStale, Nowhere, ActiveType, Sane

LEMMA ShowsIs ==
    ASSUME WorkerSizes, Sane, active.space # "none", NEW n \in 1 .. MaxOf["entity"], Shows(n)
    PROVE  active' \in ActiveType /\ heard' \in HeardType /\ UNCHANGED <<typed, listed>>
  <1>1. active.space \in Spaces
    BY SpaceIs
  <1>2. active' \in ActiveType
    BY <1>1, ActivatesIs DEF Shows
  <1>3. heard' \in HeardType
    BY <1>1, HearsIs DEF Shows, MentionsOne
  <1> QED BY <1>2, <1>3 DEF Shows

LEMMA HereIs == ASSUME WorkerSizes PROVE Here \subseteq 1 .. MaxOf["entity"]
BY EntitiesAre DEF Here

LEMMA ReferredIs ==
    ASSUME NEW word, NEW signal, Referred(word, signal).is = "entity"
    PROVE  Referred(word, signal).id \in Here
BY ReferenceIs DEF Referred, Lost, Here

LEMMA RepliesStep ==
    ASSUME WorkerSizes, Inv, NEW word, NEW signal, PassesOn(word, signal) \/ Replies(word, signal)
    PROVE  Sane' /\ Remembered'
  <1>1. /\ \E m : ClearsStale(m)
        /\ UNCHANGED <<rows, typed, heard, listed, asked, era, said>> /\ reached' = "meant"
        /\ GoesTo("legacy") \/ turn' = Idle
    BY DEF PassesOn, Replies, memory, past, Unjudged
  <1>2. active' \in ActiveType /\ turn' \in TurnType
    BY <1>1, ClearsIs, TurnIs DEF Inv
  <1> QED BY <1>1, <1>2, SameKeeps, ManagerRest DEF Inv, Sane, Fine

LEMMA ShowStep ==
    ASSUME WorkerSizes, Inv, NEW word, NEW signal, NEW name, NEW byTitle,
           \/ ShowReferred(word, signal) \/ UpdateReferred(word, signal, byTitle)
           \/ UpdateNamed(name, word, signal) \/ RetrieveNamed(name)
    PROVE  Sane' /\ Remembered'
  <1> DEFINE m == Referred(word, signal)
  <1>1. /\ Manages /\ UNCHANGED <<rows, asked, era, said>> /\ turn' = Idle
    BY DEF ShowReferred, UpdateReferred, UpdateNamed, RetrieveNamed, past
  <1>2. \E n \in Here : Shows(n) /\ reached' \in Fine
    <2>1. CASE ShowReferred(word, signal)
      BY <2>1, ReferredIs DEF ShowReferred, Unjudged, Fine
    <2>2. CASE UpdateNamed(name, word, signal) \/ RetrieveNamed(name)
      <3>1. FindByName(name) # 0 /\ Shows(FindByName(name)) /\ JudgedByName(name, FindByName(name))
        BY <2>2 DEF UpdateNamed, UpdateTarget, RetrieveNamed
      <3>2. FindByName(name) \in Here /\ NameFits("entity", Here, name, FindByName(name))
        BY <3>1, FindByNameIs
      <3> QED BY <3>1, <3>2 DEF JudgedByName, Fine
    <2>3. CASE UpdateReferred(word, signal, byTitle)
      <3> DEFINE title == Title("entity", m.id)
                 n == IF byTitle THEN FindByName(title) ELSE m.id
                 S == Titled("entity", Here, title)
      <3>1. /\ m.is = "entity" /\ Shows(n)
            /\ reached' = IF n = m.id THEN "meant" ELSE IF Title("entity", n) = title THEN "twin" ELSE "other"
        BY <2>3 DEF UpdateReferred
      <3>2. m.id \in S
        BY <3>1, ReferredIs DEF Titled
      <3>3. FindByName(title) \in S
        <4>1. S \in SUBSET Nat
          BY EntitiesAre DEF Titled, Here
        <4>2. FindByName(title) = Lowest(S)
          BY <3>2 DEF FindByName
        <4> HIDE DEF S, title
        <4> QED BY <3>2, <4>1, <4>2, LowestIs
      <3>4. n \in S
        BY <3>2, <3>3
      <3>5. n \in Here /\ Title("entity", n) = title
        BY <3>4 DEF Titled
      <3> QED BY <3>1, <3>5 DEF Fine
    <2> QED BY <2>1, <2>2, <2>3
  <1>3. PICK n \in 1 .. MaxOf["entity"] : Shows(n) /\ reached' \in Fine
    BY <1>2, HereIs
  <1>4. active' \in ActiveType /\ heard' \in HeardType /\ UNCHANGED <<typed, listed>>
    BY <1>1, <1>3, ShowsIs DEF Manages, Inv
  <1>5. turn' \in TurnType
    BY <1>1, TurnIs DEF Inv
  <1> QED BY <1>1, <1>3, <1>4, <1>5, SameKeeps, ManagerRest DEF Inv, Sane

LEMMA RetrieveStep ==
    ASSUME WorkerSizes, Inv, NEW word, NEW signal, NEW o \in Orders(Here), RetrieveList(o, word, signal)
    PROVE  Sane' /\ Remembered'
  <1> DEFINE E == 1 .. MaxOf["entity"]
             list == [i \in DOMAIN o |-> [id |-> o[i], space |-> active.space, era |-> era]]
  <1>1. /\ Manages /\ UNCHANGED <<rows, typed, asked, era, said>> /\ turn' = Idle /\ reached' = "meant"
        /\ ClearsStale(Referred(word, signal)) /\ listed' = list
        /\ heard' = [heard EXCEPT !.manager = MentionAll(heard.manager, o, active.space)]
    BY DEF RetrieveList, past, Unjudged
  <1>2. active.space \in Spaces /\ era \in 0 .. MaxResets
    BY <1>1, SpaceIs DEF Inv, Sane, Manages
  <1>3. o \in Seq(E)
    <2>1. o \in Seq(Here)
      BY OrdersAre
    <2>2. Here \subseteq E
      BY HereIs
    <2> HIDE DEF E
    <2> QED BY <2>1, <2>2
  <1>4. listed' \in Seq(Mentions)
    <2>1. \A i \in DOMAIN o : list[i] \in Mentions
      <3>1. \A i \in DOMAIN o : o[i] \in E
        <4> HIDE DEF E
        <4> QED BY <1>3
      <3> QED BY <1>2, <3>1 DEF Mentions
    <2>2. DOMAIN o = 1 .. Len(o) /\ Len(o) \in Nat
      BY <1>3
    <2>3. DOMAIN list = 1 .. Len(o) /\ list = [i \in 1 .. Len(o) |-> list[i]]
      BY <2>2
    <2> HIDE DEF list
    <2> QED BY <1>1, <2>1, <2>2, <2>3
  <1>5. heard' \in HeardType
    <2> DEFINE M == MentionAll(heard.manager, o, active.space)
    <2>1. heard.manager \in Seq(Mentions) /\ Len(heard.manager) <= MAX_RECENT
      BY DEF Inv, Sane, HeardType
    <2>2. M \in Seq(Mentions) /\ Len(M) <= MAX_RECENT
      BY <1>2, <1>3, <2>1, MentionAllIs
    <2>3. heard' = [heard EXCEPT !.manager = M]
      BY <1>1
    <2> HIDE DEF M
    <2> QED BY <2>2, <2>3 DEF Inv, Sane, HeardType
  <1>6. active' \in ActiveType /\ turn' \in TurnType
    BY <1>1, ClearsIs, TurnIs DEF Inv
  <1> QED BY <1>1, <1>4, <1>5, <1>6, SameKeeps, ManagerRest DEF Fine

LEMMA WordsStep == ASSUME WorkerSizes, Inv, NEW name \in Names, CreateInWords(name) PROVE Sane' /\ Remembered'
  <1>1. /\ Manages /\ Adds("entity", name, active.space, FALSE) /\ Shows(NextId("entity"))
        /\ UNCHANGED <<asked, era, said>> /\ turn' = Idle /\ reached' = "meant"
    BY DEF CreateInWords, past, Unjudged
  <1>2. active.space \in Spaces \cup {"none"} /\ "entity" \in Kinds
    BY SpaceIs DEF Inv, Kinds
  <1>3. PICK n \in Nat : Grown("entity", n, name, active.space, FALSE)
    BY <1>1, <1>2, AddsIs DEF Inv
  <1>4. Keeps
    BY <1>1, <1>2, AddKeeps DEF Inv
  <1>5. NextId("entity") \in 1 .. MaxOf["entity"]
    BY <1>3 DEF Grown, WorkerSizes
  <1>6. active' \in ActiveType /\ heard' \in HeardType /\ UNCHANGED <<typed, listed>>
    BY <1>1, <1>5, ShowsIs DEF Manages, Inv
  <1>7. turn' \in TurnType
    BY <1>1, TurnIs DEF Inv
  <1> QED BY <1>1, <1>4, <1>6, <1>7, ManagerRest DEF Inv, Sane, Fine

-----------------------------------------------------------------------------
(* The owner's commands, a reset and a restart *)

LEMMA AddStep == ASSUME WorkerSizes, Inv, NEW name \in Names, AddCommand(name) PROVE Sane' /\ Remembered'
  <1>1. /\ active.space # "none" /\ Adds("entity", name, active.space, TRUE)
        /\ Activates(NextId("entity"), active.space) /\ said < MaxSaid /\ said' = said + 1
        /\ UNCHANGED <<typed, heard, listed, turn, asked, era>> /\ reached' = "meant"
    BY DEF AddCommand, Says, memory, Unjudged
  <1>2. active.space \in Spaces \cup {"none"} /\ "entity" \in Kinds
    BY SpaceIs DEF Inv, Kinds
  <1>3. PICK n \in Nat : Grown("entity", n, name, active.space, TRUE)
    BY <1>1, <1>2, AddsIs DEF Inv
  <1>4. Keeps
    BY <1>1, <1>2, AddKeeps DEF Inv
  <1>5. NextId("entity") \in 1 .. MaxOf["entity"]
    BY <1>3 DEF Grown, WorkerSizes
  <1>6. active' \in ActiveType
    BY <1>1, <1>2, <1>5, ActivatesIs DEF Inv
  <1>7. Remembered'
    BY <1>1, <1>4, SameRemembered DEF Inv
  <1>8. said' \in 0 .. MaxSaid
    BY <1>1 DEF Inv, Sane, WorkerSizes
  <1> QED BY <1>1, <1>6, <1>7, <1>8 DEF Inv, Sane, Fine

LEMMA UseStep ==
    ASSUME WorkerSizes, Inv, NEW s \in Spaces, NEW n \in 0 .. MaxOf["entity"], UseCommand(s, n)
    PROVE  Sane' /\ Remembered'
  <1>1. /\ active' = [space |-> s, entity |-> n, era |-> IF n = 0 THEN 0 ELSE era]
        /\ said < MaxSaid /\ said' = said + 1
        /\ UNCHANGED <<rows, typed, heard, listed, turn, asked, era>> /\ reached' = "meant"
    BY DEF UseCommand, Says, memory, Unjudged
  <1>2. 0 \in 0 .. MaxResets
    BY DEF WorkerSizes
  <1>3. active' \in ActiveType
    BY <1>1, <1>2 DEF Inv, Sane, ActiveType
  <1>4. Remembered'
    BY <1>1, SameKeeps, SameRemembered DEF Inv
  <1>5. said' \in 0 .. MaxSaid
    BY <1>1 DEF Inv, Sane, WorkerSizes
  <1> QED BY <1>1, <1>3, <1>4, <1>5 DEF Inv, Sane, Fine

\* what is remembered from before a reset says nothing of the rows after it
LEMMA ResetStep == ASSUME WorkerSizes, Inv, Reset PROVE Sane' /\ Remembered'
  <1>1. /\ rows' = <<>> /\ era' = era + 1 /\ era < MaxResets
        /\ UNCHANGED <<active, said, typed, heard, listed, turn, asked>> /\ reached' = "meant"
    BY DEF Reset, memory, Unjudged
  <1>2. era \in 0 .. MaxResets /\ MaxResets \in Nat
    BY DEF Inv, Sane, WorkerSizes
  <1>3. \A r \in Told : r \in Told'
    <2> SUFFICES ASSUME NEW r \in Referents, IsTold(r) PROVE IsTold(r)'
      BY DEF Told, Referents
    <2>1. r.era \in 0 .. MaxResets /\ r.era <= era
      BY DEF Referents, IsTold
    <2>2. r.era <= era' /\ r.era # era'
      BY <1>1, <1>2, <2>1
    <2>3. <<"goal", r.id>> \notin DOMAIN rows'
      BY <1>1
    <2> QED BY <2>2, <2>3 DEF IsTold
  <1>4. Remembered'
    <2> DEFINE U == Told'
               T == Told
    <2>1. typed \in Seq(T) /\ \A r \in T : r \in U
      BY <1>3 DEF Inv, Remembered
    <2>2. typed \in Seq(U)
      <3> HIDE DEF U, T
      <3> QED BY <2>1
    <2> QED BY <1>1, <2>2 DEF Inv, Remembered
  <1>5. era' \in 0 .. MaxResets
    BY <1>1, <1>2
  <1> QED BY <1>1, <1>4, <1>5 DEF Inv, Sane, HeardType, Mentions, Fine

LEMMA RestartStep == ASSUME WorkerSizes, Inv, Restart PROVE Sane' /\ Remembered'
  <1>1. /\ typed' = <<>> /\ heard' = [worker |-> <<>>, manager |-> <<>>] /\ listed' = <<>>
        /\ turn' = Idle /\ asked' = Nobody /\ UNCHANGED <<active, era, said>> /\ reached' = "meant"
    BY DEF Restart, past, Unjudged
  <1>2. MAX_REFERENTS \in Nat /\ MAX_RECENT \in Nat
    BY DEF WorkerSizes
  <1>3. Remembered'
    <2> DEFINE U == Told'
    <2>1. <<>> \in Seq(U) /\ Len(<<>>) <= MAX_REFERENTS
      BY <1>2
    <2> QED BY <1>1, <2>1 DEF Remembered
  <1>4. heard' \in HeardType /\ listed' \in Seq(Mentions)
    <2>1. <<>> \in Seq(Mentions) /\ Len(<<>>) <= MAX_RECENT
      BY <1>2
    <2> DEFINE L == Seq(Mentions)
               who == {"worker", "manager"}
    <2>2. heard' = [w \in who |-> <<>>]
      BY <1>1
    <2> HIDE DEF L
    <2>3. heard' \in [who -> L] /\ \A w \in who : Len(heard'[w]) <= MAX_RECENT
      BY <2>1, <2>2 DEF L
    <2> QED BY <1>1, <2>1, <2>3 DEF HeardType, L
  <1>5. turn' \in TurnType
    BY <1>1, TurnIs DEF Inv
  <1> QED BY <1>1, <1>3, <1>4, <1>5 DEF Inv, Sane, Questions, Fine

-----------------------------------------------------------------------------
(* All the steps *)

ToolOf(s, o, name, n, ref, state, tool) ==
    \/ InvalidArgs \/ Elsewhere \/ ListGoals
    \/ o \in Orders(Shown("task")) /\ FindTask(o)
    \/ name \in Names /\ (CreateTask(name) \/ CreateGoal(name))
    \/ <<"task", n>> \in DOMAIN rows /\ (CompleteTask(n) \/ (name \in Names /\ UpdateTask(n, name)))
    \/ state \in {"open", "done"} /\ <<"goal", n>> \in DOMAIN rows /\ UpdateGoalProgress(n, state)
    \/ ref \in Refs /\ UpdateGoalDeadline(ref)
    \/ s \in Spaces \cup {"none"} /\ OpenSpace(s)
    \/ /\ s \in Spaces \cup {"none"} /\ tool \in {"delete_task", "delete_entity", "delete_entity_topic"}
       /\ ref \in Refs /\ CallGated(tool, ref, s)
    \/ s \in Spaces /\ (ListEntities(s) \/ ListAll(s) \/ (o \in Orders(Entities(s)) /\ FindEntity(o)))
    \/ /\ s \in Spaces /\ name \in Names
       /\ CreateEntity(name, s) \/ AdoptEntity(name, s) \/ CreateEntityBroken(name, s)
    \/ s \in Spaces /\ ref \in Refs /\ (GetEntity(ref, s) \/ UpdateEntity(ref, s) \/ TopicOf(ref, s))

LEMMA ToolIs ==
    ASSUME WorkerSizes, Numbered(rows), Tool
    PROVE  \E s, o, name, ref, state, tool : \E n \in Nat : ToolOf(s, o, name, n, ref, state, tool)
  <1>1. \A key \in DOMAIN rows : key[2] \in Nat /\ <<key[1], key[2]>> = key
    BY RowIds
  <1>2. Errands \subseteq Names
    BY DEF WorkerSizes
  <1>3. 0 \in Nat
    OBVIOUS
  <1>4. CASE InvalidArgs \/ Elsewhere \/ ListGoals
    BY <1>3, <1>4 DEF ToolOf
  <1>5. CASE \E o \in Orders(Shown("task")) : FindTask(o)
    BY <1>3, <1>5 DEF ToolOf
  <1>6. CASE \E name \in Errands : CreateTask(name) \/ CreateGoal(name)
    BY <1>2, <1>3, <1>6 DEF ToolOf
  <1>7. CASE \E key \in DOMAIN rows : key[1] = "task" /\
               (CompleteTask(key[2]) \/ \E name \in Errands : UpdateTask(key[2], name))
    BY <1>1, <1>2, <1>7 DEF ToolOf
  <1>8. CASE \E key \in DOMAIN rows, state \in {"open", "done"} :
               key[1] = "goal" /\ UpdateGoalProgress(key[2], state)
    BY <1>1, <1>8 DEF ToolOf
  <1>9. CASE \E ref \in Refs : UpdateGoalDeadline(ref)
    BY <1>3, <1>9 DEF ToolOf
  <1>10. CASE \E s \in Spaces : OpenSpace(s) \/ ListEntities(s) \/ ListAll(s)
    BY <1>3, <1>10 DEF ToolOf
  <1>11. CASE OpenSpace("none")
    BY <1>3, <1>11 DEF ToolOf
  <1>12. CASE \E s \in Spaces : \E o \in Orders(Entities(s)) : FindEntity(o)
    BY <1>3, <1>12 DEF ToolOf
  <1>13. CASE \E name \in Names, s \in Spaces :
                CreateEntity(name, s) \/ AdoptEntity(name, s) \/ CreateEntityBroken(name, s)
    BY <1>3, <1>13 DEF ToolOf
  <1>14. CASE \E ref \in Refs, s \in Spaces : GetEntity(ref, s) \/ UpdateEntity(ref, s) \/ TopicOf(ref, s)
    BY <1>3, <1>14 DEF ToolOf
  <1>15. CASE \E tool \in {"delete_task", "delete_entity", "delete_entity_topic"}, ref \in Refs,
                s \in Spaces \cup {"none"} : CallGated(tool, ref, s)
    BY <1>3, <1>15 DEF ToolOf
  <1> QED BY <1>4, <1>5, <1>6, <1>7, <1>8, <1>9, <1>10, <1>11, <1>12, <1>13, <1>14, <1>15 DEF Tool

LEMMA ToolKeeps ==
    ASSUME WorkerSizes, Inv, Tool
    PROVE  RowsStep /\ Sane' /\ Remembered'
  <1>0. Numbered(rows)
    BY DEF Inv
  <1>1. PICK s, o, name, ref, state, tool : \E n \in Nat : ToolOf(s, o, name, n, ref, state, tool)
    BY <1>0, ToolIs
  <1>2. PICK n \in Nat : ToolOf(s, o, name, n, ref, state, tool)
    BY <1>1
  <1>3. CASE InvalidArgs \/ Elsewhere
    BY <1>3, LoopRows, SameIs, LoopStep
  <1>4. CASE \/ ListGoals
             \/ o \in Orders(Shown("task")) /\ FindTask(o)
             \/ name \in Names /\ (CreateTask(name) \/ CreateGoal(name))
             \/ <<"task", n>> \in DOMAIN rows /\ (CompleteTask(n) \/ (name \in Names /\ UpdateTask(n, name)))
             \/ state \in {"open", "done"} /\ <<"goal", n>> \in DOMAIN rows /\ UpdateGoalProgress(n, state)
             \/ ref \in Refs /\ UpdateGoalDeadline(ref)
    <2>1. RowsStep
      BY <1>4, TaskRows
    <2>2. Sane' /\ Remembered'
      BY <1>4, TaskStep, CreateGoalStep, GoalStep
    <2> QED BY <2>1, <2>2
  <1>5. CASE \/ s \in Spaces \cup {"none"} /\ OpenSpace(s)
             \/ /\ s \in Spaces \cup {"none"} /\ tool \in {"delete_task", "delete_entity", "delete_entity_topic"}
                /\ ref \in Refs /\ CallGated(tool, ref, s)
    <2>1. RowsStep
      BY <1>5, EntityRows, GatedRows, SameIs
    <2>2. Sane' /\ Remembered'
      BY <1>5, SpaceStep
    <2> QED BY <2>1, <2>2
  <1>6. CASE \/ s \in Spaces /\ (ListEntities(s) \/ ListAll(s) \/ (o \in Orders(Entities(s)) /\ FindEntity(o)))
             \/ /\ s \in Spaces /\ name \in Names
                /\ CreateEntity(name, s) \/ AdoptEntity(name, s) \/ CreateEntityBroken(name, s)
             \/ s \in Spaces /\ ref \in Refs /\ (GetEntity(ref, s) \/ UpdateEntity(ref, s) \/ TopicOf(ref, s))
    <2>1. RowsStep
      BY <1>6, EntityRows
    <2>2. Sane' /\ Remembered'
      BY <1>6, ListStep, CreatedStep, FoundStep
    <2> QED BY <2>1, <2>2
  <1> QED BY <1>2, <1>3, <1>4, <1>5, <1>6 DEF ToolOf

LEMMA ManagerKeeps ==
    ASSUME WorkerSizes, Inv, Manager \/ ManagerNamed
    PROVE  RowsStep /\ Sane' /\ Remembered'
  <1>0. active.space \in Spaces \cup {"none"}
    BY SpaceIs DEF Inv
  <1>1. CASE \E word, signal, byTitle, name :
               \/ PassesOn(word, signal) \/ Replies(word, signal) \/ ShowReferred(word, signal)
               \/ UpdateReferred(word, signal, byTitle) \/ UpdateNamed(name, word, signal)
               \/ RetrieveNamed(name)
    BY <1>1, ManagerRows, SameIs, RepliesStep, ShowStep
  <1>2. CASE \E word, signal : \E o \in Orders(Here) : RetrieveList(o, word, signal)
    BY <1>2, ManagerRows, SameIs, RetrieveStep
  <1>3. CASE \E name \in Names : CreateInWords(name)
    BY <1>0, <1>3, OwnerRows, WordsStep
  <1> QED BY <1>1, <1>2, <1>3 DEF Manager, ManagerNamed

LEMMA BetweenKeeps ==
    ASSUME WorkerSizes, Inv, Between
    PROVE  RowsStep /\ Sane' /\ Remembered'
  <1>0. active.space \in Spaces \cup {"none"}
    BY SpaceIs DEF Inv
  <1>1. CASE StartMessage \/ No
    BY <1>1, LoopRows, SameIs, LoopStep
  <1>2. CASE Yes
    BY <1>2, YesRows, YesStep
  <1>3. CASE Reset
    BY <1>0, <1>3, OwnerRows, ResetStep
  <1>4. CASE Restart
    BY <1>4, LoopRows, SameIs, RestartStep
  <1>5. CASE \E name \in Names : AddCommand(name)
    BY <1>0, <1>5, OwnerRows, AddStep
  <1>6. CASE \E s \in Spaces, n \in 0 .. MaxOf["entity"] : UseCommand(s, n)
    BY <1>0, <1>6, OwnerRows, UseStep
  <1> QED BY <1>1, <1>2, <1>3, <1>4, <1>5, <1>6 DEF Between

LEMMA NextStep ==
    ASSUME WorkerSizes, Inv, [Next]_vars
    PROVE  RowsStep /\ Sane' /\ Remembered'
  <1>1. CASE Final \/ Unhandled \/ Legacy
    BY <1>1, LoopRows, SameIs, LoopStep
  <1>2. CASE UNCHANGED vars
    <2>1. RowsStep
      BY <1>2 DEF vars, RowsStep
    <2> QED BY <1>2, <2>1, LoopStep
  <1> QED BY <1>1, <1>2, ToolKeeps, ManagerKeeps, BetweenKeeps DEF Next, InTurn

LEMMA InitInv == ASSUME WorkerSizes, Init PROVE Inv
  <1>1. Numbered(rows) /\ Unique(rows)
    <2>1. rows = <<>>
      BY DEF Init
    <2>2. \A k : {key \in DOMAIN rows : key[1] = k} = {<<k, m>> : m \in 1 .. 0}
      BY <2>1
    <2> QED BY <2>1, <2>2 DEF Numbered, Unique, InSight
  <1>2. /\ MAX_REFERENTS \in Nat /\ MAX_RECENT \in Nat /\ MAX_TOOL_CALLS \in Nat
        /\ MaxResets \in Nat /\ MaxSaid \in Nat /\ MaxOf["entity"] \in Nat
    BY DEF WorkerSizes, Kinds
  <1>3. Remembered
    <2> DEFINE T == Told
    <2>1. <<>> \in Seq(T) /\ Len(<<>>) <= MAX_REFERENTS
      BY <1>2
    <2> QED BY <2>1 DEF Remembered, Init
  <1>4. heard \in HeardType /\ listed \in Seq(Mentions)
    <2> DEFINE L == Seq(Mentions)
               who == {"worker", "manager"}
    <2>1. <<>> \in L /\ Len(<<>>) <= MAX_RECENT
      BY <1>2
    <2>2. heard = [w \in who |-> <<>>] /\ listed = <<>>
      BY DEF Init
    <2> HIDE DEF L
    <2>3. heard \in [who -> L] /\ \A w \in who : Len(heard[w]) <= MAX_RECENT
      BY <2>1, <2>2
    <2> QED BY <2>1, <2>2, <2>3 DEF HeardType, L
  <1>5. active \in ActiveType /\ turn \in TurnType /\ asked \in Questions
    BY <1>2 DEF Init, Nowhere, ActiveType, Idle, TurnType, Questions
  <1>6. era \in 0 .. MaxResets /\ said \in 0 .. MaxSaid /\ reached \in Fine
    BY <1>2 DEF Init, Fine
  <1> QED BY <1>1, <1>3, <1>4, <1>5, <1>6 DEF Inv, Sane

-----------------------------------------------------------------------------
(* The theorems *)

\* The rows stay numbered and unique, and what the referents say of them stays
\* true, for all constants.
THEOREM Invariance == Spec => []Inv
  <1>1. Init => Inv
    BY WorkerSizes, InitInv
  <1>2. Inv /\ [Next]_vars => Inv'
    BY WorkerSizes, NextStep, NumberedStep, UniqueStep DEF Inv
  <1> QED BY <1>1, <1>2, PTL DEF Spec

\* What the tables, the memories of both paths and the message hold is as
\* TypeOK says: after every tool, reply, command, reset and restart the
\* memories keep to their sizes (TypedReferentStore.note,
\* ReferenceContext.note_mention) and the pending call is one the gate stopped.
THEOREM TypeCorrect == Spec => []TypeOK
  <1>1. Inv => TypeOK
    <2> SUFFICES ASSUME Inv PROVE TypeOK
      OBVIOUS
    <2>1. /\ DOMAIN rows \subseteq Keys
          /\ \A key \in DOMAIN rows : rows[key] \in Row
      BY DEF Inv, Numbered
    <2>2. typed \in Seq(Referents) /\ Len(typed) <= MAX_REFERENTS
      <3> DEFINE T == Told
                 R == Referents
      <3>1. typed \in Seq(T) /\ T \subseteq R
        BY DEF Inv, Remembered, Told
      <3>2. typed \in Seq(R)
        <4> HIDE DEF T, R
        <4> QED BY <3>1
      <3> QED BY <3>2 DEF Inv, Remembered
    <2>3. /\ active \in ActiveType /\ listed \in Seq(Mentions) /\ turn \in TurnType
          /\ heard \in [{"worker", "manager"} -> Seq(Mentions)]
          /\ \A who \in {"worker", "manager"} : Len(heard[who]) <= MAX_RECENT
          /\ asked = Nobody \/ asked \in [tool : Gated, ref : Refs, space : Spaces \cup {"none"}]
          /\ era \in 0 .. MaxResets /\ said \in 0 .. MaxSaid
          /\ reached \in {"meant", "pronoun", "untitled", "twin", "other"}
      BY DEF Inv, Sane, HeardType, Questions, Fine
    <2> QED BY <2>1, <2>2, <2>3 DEF TypeOK, Row, ActiveType, TurnType
  <1> QED BY <1>1, Invariance, PTL

\* A tool and the manager reach what the reference means: a row of the tool's kind
\* with that id or title, or for a pronoun what was touched last, for any titles and
\* spellings (TypedReferentStore.resolve, _EntityTool._resolve_entity,
\* _handle_update).  Excused or told apart are a referent noted before a reset, a
\* name spelt with a pronoun in it and the placeholder title of a done goal.
THEOREM ReferencesHold == Spec => []ReferencesMeet
  <1>1. Inv => ReferencesMeet
    BY DEF Inv, Sane, Fine, ReferencesMeet
  <1> QED BY <1>1, Invariance, PTL

\* Of two visible entities of one title in one workspace /add made the later one:
\* the tools (CreateEntityTool) and the manager (_handle_create) look before they add.
THEOREM TitlesStayUnique == Spec => []OneRowPerName
  <1>1. Inv => OneRowPerName
    <2>1. \A s : Entities(s) = InSight(rows, s)
      BY DEF Entities, Shown, InSight
    <2> QED BY <2>1 DEF Inv, Unique, OneRowPerName, Title
  <1> QED BY <1>1, Invariance, PTL

\* Worker._loop destroys nothing: a row goes by the Yes to the question that was
\* asked for that tool, with no message under way.
THEOREM DestroyedByYes == Spec => GateHolds
  <1>1. ASSUME Inv, [Next]_vars
        PROVE  [\A key \in DOMAIN rows \cap DOMAIN rows' :
                   rows'[key].is = "gone" /\ rows[key].is # "gone" =>
                     /\ turn.at = "idle" /\ asked' = Nobody
                     /\ asked.tool = IF key[1] = "task" THEN "delete_task" ELSE "delete_entity"]_vars
    <2> SUFFICES ASSUME NEW key \in DOMAIN rows \cap DOMAIN rows',
                        rows'[key].is = "gone", rows[key].is # "gone"
                 PROVE  Answered(key[1])
      BY DEF Answered
    <2>1. CASE Same
      BY <2>1 DEF Same
    <2>2. CASE OneComes
      <3>1. PICK k \in Kinds : \E name, s, added : Adds(k, name, s, added)
        BY <2>2 DEF OneComes
      <3>2. \A x \in DOMAIN rows : rows'[x] = rows[x]
        BY <1>1, <3>1, AddsIs DEF Inv, Grown
      <3> QED BY <3>2
    <2>3. CASE OneChanges
      <3>1. PICK k, n :
                /\ \A x \in DOMAIN rows : x # <<k, n>> => rows'[x] = rows[x]
                /\ \A x \in DOMAIN rows : rows'[x].is # rows[x].is /\ rows'[x].is = "gone" => Answered(k)
        BY <1>1, <2>3, ChangesIs DEF Inv
      <3>2. key = <<k, n>> /\ Answered(k)
        BY <3>1
      <3> QED BY <3>2
    <2>4. CASE rows' = <<>>
      BY <2>4
    <2>5. RowsStep
      BY <1>1, WorkerSizes, NextStep
    <2> QED BY <2>1, <2>2, <2>3, <2>4, <2>5 DEF RowsStep, Same
  <1> QED BY <1>1, Invariance, PTL DEF Spec, GateHolds

=============================================================================
