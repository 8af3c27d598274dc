------------------------------ MODULE MCInvites ------------------------------
(* Invites on small instances; the .cfg files give the bounds.              *)
EXTENDS Invites, TLC

CONSTANTS u1, u2, i1, i2, r1, r2

MCUser1     == {u1}
MCUser2     == {u1, u2}
MCInviteId2 == {i1, i2}
MCRequest2  == {r1, r2}

Symmetry == Permutations(User) \cup Permutations(InviteId) \cup Permutations(Request)
=============================================================================
