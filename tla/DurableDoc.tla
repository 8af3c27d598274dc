----------------------------- MODULE DurableDoc ------------------------------
(***************************************************************************)
(* What a collaborative document promises its users across restarts of the *)
(* server, with no seq, log or snapshot: what has become durable stays so, *)
(* only what users see becomes durable, and a document that is opened      *)
(* again shows exactly what was durable.                                   *)
(***************************************************************************)
CONSTANT Update

VARIABLES
    open,      \* the document is resident in a running server
    live,      \* the updates its users see
    durable    \* the updates a restart brings back

vars == <<open, live, durable>>

Init == open = FALSE /\ live = {} /\ durable = {}

Open ==
    /\ ~open
    /\ open' = TRUE
    /\ live' = durable
    /\ UNCHANGED durable

Edit ==
    /\ open
    /\ live' \in SUBSET Update
    /\ live \subseteq live'
    /\ UNCHANGED <<open, durable>>

Save ==
    /\ open
    /\ durable' \in SUBSET live
    /\ durable \subseteq durable'
    /\ UNCHANGED <<open, live>>

Crash ==
    /\ open
    /\ open' = FALSE
    /\ live' = {}
    /\ UNCHANGED durable

Next == Open \/ Edit \/ Save \/ Crash

Spec == Init /\ [][Next]_vars
=============================================================================
