--------------------------- MODULE MCCoordinator ---------------------------
(* Instance of Coordinator for TLC.                                        *)
EXTENDS Coordinator, TLC

CONSTANTS n1, n2, q

MCNode == {n1, n2}
MCLookup == {q}
MCSymmetry == Permutations(MCNode)
=============================================================================
