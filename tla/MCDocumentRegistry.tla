-------------------------- MODULE MCDocumentRegistry --------------------------
(* DocumentRegistry on small instances; the .cfg files give the bounds.     *)
EXTENDS DocumentRegistry, TLC

CONSTANTS u1, u2, u3, e1, e2, c1, c2, p1, p2

MCUpdate0  == {}
MCUpdate1  == {u1}
MCUpdate3  == {u1, u2, u3}

\* A client makes u1 and then u2, another one makes u3 on its own.
MCNeeds == [u \in Update |-> IF u = u2 THEN {u1} ELSE {}]

MCEntryId2 == {e1, e2}
MCCaller2  == {c1, c2}
MCEvictor1 == {p1}
MCEvictor2 == {p1, p2}

Symmetry == Permutations(EntryId) \cup Permutations(Caller) \cup Permutations(Evictor)
=============================================================================
