----------------------------- MODULE SavedWorld -----------------------------
(***************************************************************************)
(* The tile world across save, load, reset and restart: what               *)
(* state/save_data.lua keeps of it, and what create_session of             *)
(* main/game_manager.script rebuilds. Only the player's position and death *)
(* and the doors are saved; every other actor starts again at home, at     *)
(* rest, alive and without a route. Of a step in progress the logical half *)
(* is saved, the tile already reserved.                                    *)
(***************************************************************************)
EXTENDS TileWorld

CONSTANTS
    NoSave,
    SavedOn  \* bound: the tiles the player may stand on when F5 is pressed

\* No creature is placed in a doorway (data/maps/prototype.lua): the door may
\* be saved closed, and creatures.spawn does not look at doors.
ASSUME CastAssumption == \A a \in Actors \ {Player}, d \in Doors : Home[a] # DoorAt[d]

VARIABLE file  \* the snapshot on disk, or NoSave

savedVars == <<world, open, dead, route, talking, file>>

SavedInit == Init /\ file = NoSave

-----------------------------------------------------------------------------
\* save_data.capture.
Capture ==
    [at |-> world.pos[Player], facing |-> world.facing[Player],
     open |-> open, dead |-> Player \in dead]

\* creatures.spawn asserts "creature tile occupied" for each authored actor,
\* after place_actor has put the player where it was saved.
Restorable(data) == \A a \in Actors \ {Player} : data.at # Home[a]

\* create_session with a saved game, and with none.
SessionFrom(data) ==
    /\ Restorable(data)
    /\ world' = Settled([Home EXCEPT ![Player] = data.at],
                        [HomeFacing EXCEPT ![Player] = data.facing])
    /\ open' = data.open
    /\ dead' = IF data.dead THEN {Player} ELSE {}
    /\ route' = Idle
    /\ talking' = FALSE

FreshSession ==
    /\ world' = Settled(Home, HomeFacing)
    /\ open' = { d \in Doors : DoorOpen[d] }
    /\ dead' = {}
    /\ route' = Idle
    /\ talking' = FALSE

\* F5, F9 and F8; a conversation consumes all three keys.
Save ==
    /\ ~talking
    /\ world.pos[Player] \in SavedOn
    /\ file' = Capture
    /\ UNCHANGED vars

Load ==
    /\ ~talking
    /\ file # NoSave
    /\ SessionFrom(file)
    /\ UNCHANGED file

Reset ==
    /\ ~talking
    /\ FreshSession
    /\ file' = NoSave

\* The process ends, at any time, and init runs again.
Restart ==
    /\ IF file = NoSave THEN FreshSession ELSE SessionFrom(file)
    /\ UNCHANGED file

Play == Next /\ UNCHANGED file

SavedNext == Play \/ Save \/ Load \/ Reset \/ Restart

SavedSpec == SavedInit /\ [][SavedNext]_savedVars

\* The engine calls update once per frame for as long as the game runs.
\* Nothing is assumed of the keyboard.
PlayFrame == AFrame /\ UNCHANGED file

SavedFairSpec == SavedSpec /\ WF_savedVars(PlayFrame)

-----------------------------------------------------------------------------
\* No step of the game carries the dead, tears an actor out of a step, makes
\* one jump except over a stair, or exchanges two actors, whatever was saved
\* and loaded before: only a new session puts actors elsewhere.
MovesAreLegal == [][LegalStep \/ Load \/ Reset \/ Restart]_savedVars

\* docs/save-format.md:72: "F9 validates and reconstructs a new session
\* before replacing runtime references". Then a file that F5 wrote can be
\* loaded. The code does not keep the promise: while a creature is away from
\* its authored tile the player can be saved on that tile, and the assertion
\* of creatures.spawn ends create_session half-way.
SavedGameLoads == file # NoSave => Restorable(file)

=============================================================================
