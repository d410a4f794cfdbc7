---------------------------- MODULE MCTileWorld ----------------------------
(***************************************************************************)
(* A cottage for TLC: a yard, a door, a room with stairs behind it and a   *)
(* basement. The door is the only way between the Walker and its goal.     *)
(*                                                                         *)
(*   z=7, y=1:        yard  wall                                           *)
(*   z=7, y=0:  yard  yard  door  room    stairs                           *)
(*   z=6, y=0:                    stairs  landing  cellar                  *)
(*                                                                         *)
(* A tile is left over on each side of a stair: stairs can be walked on,   *)
(* so the player faces one only after a step towards it.                   *)
(***************************************************************************)
EXTENDS SavedWorld

Yard == { <<0, 0, 7>>, <<1, 0, 7>>, <<1, 1, 7>> }
Wall == <<2, 1, 7>>
Doorway == <<2, 0, 7>>
Room == <<3, 0, 7>>
StairsDown == <<4, 0, 7>>
StairsUp == <<3, 0, 6>>
Landing == <<4, 0, 6>>
Cellar == <<5, 0, 6>>

MCGround == Yard \cup {Wall, Doorway, Room, StairsDown, StairsUp, Landing, Cellar}
MCSolid == {Wall}
MCDoorAt == [d \in {"door"} |-> Doorway]
MCDoorOpen == [d \in {"door"} |-> FALSE]
MCStairTo == [t \in {StairsDown, StairsUp} |-> IF t = StairsDown THEN Landing ELSE Room]

MCActors == {"player", "villager"}
MCHome == [a \in MCActors |-> CASE a = "player" -> <<1, 0, 7>>
                                [] a = "villager" -> <<0, 0, 7>>]
MCGoal == Room
MCHomeFacing == [a \in MCActors |-> "east"]
NoRoutes == { <<>> }
InTheDoorway == { Doorway }
=============================================================================
