---------------------------- MODULE SyncPromise ----------------------------
(***************************************************************************)
(* What the synchronization engine promises of one timeline event: it is   *)
(* posted to every adapter, it is stamped synced_at only after that, and   *)
(* both happen in the end.  How rows, retries and passes bring this about  *)
(* is the business of SyncOutbox.                                          *)
(***************************************************************************)
CONSTANTS Events, Adapters

VARIABLES
    state,   \* the life of each event
    posted   \* the adapters each event has reached

vars == <<state, posted>>

Init ==
    /\ state = [e \in Events |-> "future"]
    /\ posted = [e \in Events |-> {}]

Record(e) ==
    /\ state[e] = "future"
    /\ state' = [state EXCEPT ![e] = "open"]
    /\ UNCHANGED posted

Post(e, a) ==
    /\ state[e] # "future" /\ a \notin posted[e]
    /\ posted' = [posted EXCEPT ![e] = @ \cup {a}]
    /\ UNCHANGED state

Stamp(e) ==
    /\ state[e] = "open" /\ posted[e] = Adapters
    /\ state' = [state EXCEPT ![e] = "synced"]
    /\ UNCHANGED posted

Next == \E e \in Events : Record(e) \/ Stamp(e) \/ \E a \in Adapters : Post(e, a)

Spec == Init /\ [][Next]_vars

FairSpec ==
    /\ Spec
    /\ \A e \in Events : WF_vars(Stamp(e)) /\ \A a \in Adapters : WF_vars(Post(e, a))
=============================================================================
