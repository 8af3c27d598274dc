---------------------------- MODULE MCUpdateChain ----------------------------
(* UpdateChain on small instances; the .cfg files give the bounds.          *)
EXTENDS UpdateChain

CONSTANTS u1, u2, u3, u4

MCUpdate4 == {u1, u2, u3, u4}

\* A client makes u1, u2, u3 in this order, another one makes u4 on its own.
MCNeeds == [u \in Update |-> CASE u = u2 -> {u1} [] u = u3 -> {u1, u2} [] OTHER -> {}]
=============================================================================
