--------------------------- MODULE MCNodeNetwork ---------------------------
(* Instance of NodeNetwork for TLC: two addresses; the process at b may    *)
(* start again.  There is room for two connections from a to b and one     *)
(* back.                                                                   *)
EXTENDS NodeNetwork

CONSTANTS a, b

MCNode == {a, b}
MCSlot == {<<a, b, 1>>, <<a, b, 2>>, <<b, a, 1>>}
MCMaxRuns == (a :> 1) @@ (b :> 2)
=============================================================================
