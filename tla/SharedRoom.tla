----------------------------- MODULE SharedRoom ------------------------------
(***************************************************************************)
(* What the gateway promises the clients of one document, without room,    *)
(* reference count, listener or lookup: everybody works on the same        *)
(* resident document, which is given up only when nobody does; and each    *)
(* is present to the others from when they say so until they leave.        *)
(***************************************************************************)
CONSTANTS
    Client,
    Document,    \* the documents in memory, one at a time
    None

VARIABLES
    document,    \* the document that is resident, or None
    works,       \* the document a client works on, or None
    present      \* the clients shown to the others

vars == <<document, works, present>>

Init == document = None /\ works = [c \in Client |-> None] /\ present = {}

\* Those who waited for the document get in at once.
Open ==
    /\ document = None
    /\ \E d \in Document, cs \in SUBSET Client :
         /\ document' = d
         /\ works' = [c \in Client |-> IF c \in cs THEN d ELSE works[c]]
    /\ UNCHANGED present

Enter(c) ==
    /\ document # None /\ works[c] = None
    /\ works' = [works EXCEPT ![c] = document]
    /\ UNCHANGED <<document, present>>

Announce(c) ==
    /\ works[c] # None
    /\ present' = present \cup {c}
    /\ UNCHANGED <<document, works>>

Leave(c) ==
    /\ works[c] # None
    /\ works' = [works EXCEPT ![c] = None]
    /\ present' = present \ {c}
    /\ UNCHANGED document

Close ==
    /\ document # None /\ \A c \in Client : works[c] = None
    /\ document' = None
    /\ UNCHANGED <<works, present>>

Next ==
    \/ Open \/ Close
    \/ \E c \in Client : Enter(c) \/ Announce(c) \/ Leave(c)

Spec == Init /\ [][Next]_vars
=============================================================================
