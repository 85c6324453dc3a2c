----------------------------- MODULE MCControl -----------------------------
(* A small stored state for the control plane. *)
EXTENDS Control

OneLinked == {1}
TwoNames == {"a", "b"}
Small == [k \in Tables |-> CASE k \in {"ws", "tag"} -> 2 [] k = "ent" -> 3 [] OTHER -> 1]

\* Two workspaces with a tag of the same name each; in the first a character, a
\* weapon, a note about the character and a photo.
TwoSpaces ==
    [rows |-> [key \in {<<"ws", 1>>, <<"ws", 2>>, <<"ent", 1>>, <<"ent", 2>>, <<"note", 1>>,
                        <<"tag", 1>>, <<"tag", 2>>} |->
                 [space |-> IF key[2] = 2 /\ key[1] # "ent" THEN 2 ELSE 1,
                  label |-> CASE key = <<"ent", 1>> -> "character" [] key = <<"ent", 2>> -> "weapon"
                              [] key[1] = "tag" -> "a" [] OTHER -> key[1],
                  is |-> "open"]],
     links |-> {<<<<"note", 1>>, <<"ent", 1>>>>},
     labels |-> {<<<<"note", 1>>, <<"tag", 1>>>>},
     topics |-> [e \in {1, 2} |-> IF e = 1 THEN "open" ELSE "none"],
     worn |-> {},
     active |-> [space |-> 1, entity |-> 1],
     hidden |-> {}]
=============================================================================
