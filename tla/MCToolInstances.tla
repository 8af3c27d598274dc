---------------------------- MODULE MCToolInstances ----------------------------
(* An instance of ToolInstances for TLC.                                    *)
EXTENDS ToolInstances, TLC

CONSTANTS a, b, r1, r2

MCUser == {a, b}
MCVisitor == {b}
MCCall == {r1, r2}

Symmetric == Permutations(MCCall)
=============================================================================
