--------------------------- MODULE MCPathfinding ---------------------------
(***************************************************************************)
(* Every map of 4 by 3 tiles and every goal, asked for from each tile of   *)
(* the left column, with a limit that the longest searches exceed. Smaller *)
(* maps have no room for a tile that is found again in fewer steps.        *)
(***************************************************************************)
EXTENDS Pathfinding

LeftColumn == { <<0, y>> : y \in 0..2 }
=============================================================================
