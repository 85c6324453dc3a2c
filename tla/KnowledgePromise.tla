-------------------------- MODULE KnowledgePromise --------------------------
(***************************************************************************)
(* What core/workspace/engine.py promises of a user's knowledge, as if     *)
(* each operation were one step: entities, notes and media of a workspace, *)
(* the links from notes and media to entities, the tags and their labels.  *)
(***************************************************************************)

CONSTANTS Items, TagIds, Spaces

VARIABLES
    shelf,    \* item -> its workspace, its kind and its state
    tagged,   \* tag -> its workspace
    links,    \* note or media, entity
    labels    \* item, tag

vars == <<shelf, tagged, links, labels>>

Alive(i) == i \in DOMAIN shelf /\ shelf[i].state # "gone"

Init == shelf = <<>> /\ tagged = <<>> /\ links = {} /\ labels = {}

Create(i, w, k) ==
    /\ i \notin DOMAIN shelf
    /\ shelf' = [j \in DOMAIN shelf \cup {i} |->
                   IF j = i THEN [ws |-> w, kind |-> k, state |-> "open"] ELSE shelf[j]]
    /\ UNCHANGED <<tagged, links, labels>>

\* What is hidden is opened before it is anything else.
Move(i, s) ==
    /\ Alive(i)
    /\ shelf[i].state = "hidden" => s = "open"
    /\ shelf' = [shelf EXCEPT ![i].state = s]
    /\ UNCHANGED <<tagged, links, labels>>

\* The links of an entity go first; those of a note stay with it.
Bury(i) ==
    /\ Alive(i)
    /\ \A l \in links : l[2] # i
    /\ shelf' = [shelf EXCEPT ![i].state = "gone"]
    /\ UNCHANGED <<tagged, links, labels>>

Link(i, e) ==
    /\ Alive(i) /\ Alive(e) /\ shelf[e].kind = "entity" /\ shelf[i].ws = shelf[e].ws
    /\ links' = links \cup {<<i, e>>}
    /\ UNCHANGED <<shelf, tagged, labels>>

Unlink(l) ==
    /\ links' = links \ {l}
    /\ UNCHANGED <<shelf, tagged, labels>>

NewTag(t, w) ==
    /\ t \notin DOMAIN tagged
    /\ tagged' = [u \in DOMAIN tagged \cup {t} |-> IF u = t THEN w ELSE tagged[u]]
    /\ UNCHANGED <<shelf, links, labels>>

Label(i, t) ==
    /\ Alive(i) /\ t \in DOMAIN tagged /\ shelf[i].ws = tagged[t]
    /\ labels' = labels \cup {<<i, t>>}
    /\ UNCHANGED <<shelf, tagged, links>>

Unlabel(l) ==
    /\ labels' = labels \ {l}
    /\ UNCHANGED <<shelf, tagged, links>>

\* with every label, in one step
DropTag(t) ==
    /\ tagged' = [u \in DOMAIN tagged \ {t} |-> tagged[u]]
    /\ labels' = {l \in labels : l[2] # t}
    /\ UNCHANGED <<shelf, links>>

Next ==
    \/ \E i \in Items :
          \/ \E w \in Spaces, k \in {"entity", "note", "media"} : Create(i, w, k)
          \/ \E s \in {"open", "done", "hidden"} : Move(i, s)
          \/ Bury(i)
          \/ \E e \in Items : Link(i, e) \/ Unlink(<<i, e>>)
          \/ \E t \in TagIds : Label(i, t) \/ Unlabel(<<i, t>>)
    \/ \E t \in TagIds : DropTag(t) \/ \E w \in Spaces : NewTag(t, w)

Spec == Init /\ [][Next]_vars
=============================================================================
