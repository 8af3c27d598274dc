---------------------------- MODULE MCCollaboration ----------------------------
(* Instances of Collaboration for TLC.                                      *)
EXTENDS Collaboration, TLC

CONSTANTS s1, s2, d1, d2, d3

MCSocket == {s1, s2}
MCDoc == {d1, d2, d3}

Symmetric == Permutations(MCSocket) \cup Permutations(MCDoc)
=============================================================================
