--------------------------------- MODULE MCChat ---------------------------------
(* An instance of Chat for TLC.                                             *)
EXTENDS Chat, TLC

CONSTANTS c1, m1, m2, m3

MCClient == {c1}
MCMessage == {m1, m2, m3}

Symmetry == Permutations(MCMessage)
=============================================================================
