-------------------------------- MODULE MCLogin --------------------------------
(* Login on a small instance; Login.cfg gives the bounds.                   *)
EXTENDS Login, TLC

CONSTANTS e1, e2, n1, t1, t2, r1, r2

MCEmail == {e1, e2}
MCUsername == {n1}
MCToken == {t1, t2}
MCRequest == {r1, r2}

Symmetry == Permutations(MCEmail) \cup Permutations(MCToken) \cup Permutations(MCRequest)
=============================================================================
