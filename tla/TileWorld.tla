----------------------------- MODULE TileWorld -----------------------------
(***************************************************************************)
(* Actors on the tile map: one reservation per tile (world/world.lua),     *)
(* shared movement and its interpolation (simulation/movement.lua), the    *)
(* route of the one routed actor (simulation/movement_controller.lua, fed  *)
(* by simulation/pathfinding.lua), doors and stairs                        *)
(* (simulation/interaction.lua, actions.lua, transitions.lua), and the     *)
(* frame and input handlers of main/game_manager.script that drive them.   *)
(*                                                                         *)
(* A tile is <<x, y, z>>. Time is counted in frames: a step is             *)
(* interpolated over StepFrames of them, and visual positions are in units *)
(* of 1/StepFrames of a tile. Every handler runs to its end before the     *)
(* next one, so each is one action.                                        *)
(***************************************************************************)
EXTENDS Integers, Sequences, FiniteSets

CONSTANTS
    Actors,      \* every registered actor
    Player,      \* the actor the keyboard moves
    Walker,      \* npc_test_villager: the only actor given routes, and the one with a dialogue
    Mortal,      \* actors with a combat state
    Nobody,      \* a tile without reservation
    NoStep,      \* an actor at rest
    Ground,      \* tiles with a ground object
    Solid,       \* ground tiles holding a wall, a table or a chest
    DoorAt,      \* [doors -> tile]
    DoorOpen,    \* [doors -> BOOLEAN], authored
    StairTo,     \* [stair tiles -> destination tile]
    Home,        \* [Actors -> tile], authored
    HomeFacing,  \* [Actors -> direction], authored
    Goal,        \* where the debug key sends the Walker
    Supplied,    \* routes another caller may hand to set_path
    StepFrames,  \* frames one tile takes
    MaxRoute     \* no shortest route is longer (bounds the search)

Doors == DOMAIN DoorAt
Stairs == DOMAIN StairTo
Tiles == Int \X Int \X Int

ASSUME ActorAssumption ==
    /\ {Player, Walker} \subseteq Actors /\ Player # Walker
    /\ Mortal \subseteq Actors \ {Walker}
    /\ Nobody \notin Actors

\* The authored map: nobody starts inside a wall, a closed door or somebody
\* else, and no tile holds two interactive objects.
ASSUME MapAssumption ==
    /\ Ground \subseteq Tiles /\ Solid \subseteq Ground /\ Goal \in Ground
    /\ DoorAt \in [Doors -> Ground \ Solid] /\ DoorOpen \in [Doors -> BOOLEAN]
    /\ \A d, e \in Doors : DoorAt[d] = DoorAt[e] => d = e
    /\ StairTo \in [Stairs -> Ground]
    /\ \A d \in Doors : DoorAt[d] \notin Stairs
    /\ Home \in [Actors -> Ground \ Solid]
    /\ \A a, b \in Actors : Home[a] = Home[b] => a = b
    /\ \A a \in Actors, d \in Doors : Home[a] = DoorAt[d] => DoorOpen[d]

ASSUME StepAssumption ==
    /\ StepFrames \in Nat \ {0} /\ MaxRoute \in Nat
    /\ NoStep \notin [from : Tiles, to : Tiles, progress : Nat]
    /\ \A steps \in Supplied : steps \in Seq(Tiles)

Offset == [north |-> <<0, 1>>, east |-> <<1, 0>>, south |-> <<0, -1>>, west |-> <<-1, 0>>]
Directions == DOMAIN Offset
Still == "still"  \* no direction key held

ASSUME FacingAssumption == HomeFacing \in [Actors -> Directions]

Ahead(t, d) == <<t[1] + Offset[d][1], t[2] + Offset[d][2], t[3]>>
Adjacent(s, t) == \E d \in Directions : t = Ahead(s, d)

\* direction.from_delta, for s # t: the sign of dx decides before that of dy.
Toward(s, t) ==
    CASE t[1] < s[1] -> "west"
      [] t[1] > s[1] -> "east"
      [] t[1] = s[1] /\ t[2] < s[2] -> "south"
      [] OTHER -> "north"

VARIABLES
    world,    \* [pos, facing, step, visual : per actor; occupant : per tile]
    open,     \* doors standing open (WorldState.objects[id].open)
    dead,     \* actors whose capabilities death took away
    route,    \* the Walker's route: [path, next, status]
    talking   \* a DialogueSession is active

vars == <<world, open, dead, route, talking>>

Idle == [path |-> <<>>, next |-> 1, status |-> "idle"]
Drawn(t) == <<t[1] * StepFrames, t[2] * StepFrames, t[3]>>

\* Every actor at rest on its tile: what create_session builds.
Settled(pos, facing) ==
    [pos      |-> pos,
     facing   |-> facing,
     step     |-> [a \in Actors |-> NoStep],
     visual   |-> [a \in Actors |-> Drawn(pos[a])],
     occupant |-> [t \in Ground |-> IF \E a \in Actors : pos[a] = t
                                    THEN CHOOSE a \in Actors : pos[a] = t
                                    ELSE Nobody]]

Init ==
    /\ world = Settled(Home, HomeFacing)
    /\ open = { d \in Doors : DoorOpen[d] }
    /\ dead = {}
    /\ route = Idle
    /\ talking = FALSE

-----------------------------------------------------------------------------
\* world.is_walkable for actor a.
Walkable(w, t, a) ==
    /\ t \in Ground \ Solid
    /\ w.occupant[t] \in {Nobody, a}
    /\ \A d \in Doors : DoorAt[d] = t => d \in open

\* Mutation: move_actor leaves the old reservation behind.
KeptReservation(w, a, t) == [w.occupant EXCEPT ![t] = a]

\* world.move_actor, which gives up the tile the actor still stands on and
\* reserves the new one.
Reserved(w, a, t) == [w.occupant EXCEPT ![w.pos[a]] = Nobody, ![t] = a]

Moving(w, a) == w.step[a] # NoStep

\* movement.can_move and movement.begin: the actor turns even if it cannot
\* go, unless death took its movement capability.
CanMove(w, a, d) ==
    /\ a \notin dead
    /\ ~Moving(w, a)
    /\ Walkable(w, Ahead(w.pos[a], d), a)

Stepped(w, a, t) ==
    [w EXCEPT !.occupant = Reserved(w, a, t),
              !.pos[a] = t,
              !.step[a] = [from |-> w.pos[a], to |-> t, progress |-> 0]]

Turned(w, a, d) == [w EXCEPT !.facing[a] = d]

Begun(w, a, d) ==
    IF a \in dead THEN w
    ELSE IF CanMove(w, a, d) THEN Stepped(Turned(w, a, d), a, Ahead(w.pos[a], d))
    ELSE Turned(w, a, d)

\* movement.update: one frame of interpolation.
Between(s, n) ==
    <<s.from[1] * StepFrames + (s.to[1] - s.from[1]) * n,
      s.from[2] * StepFrames + (s.to[2] - s.from[2]) * n, s.to[3]>>

Advanced(w, a) ==
    IF ~Moving(w, a) THEN w
    ELSE LET s == w.step[a]
             n == s.progress + 1
         IN  [w EXCEPT !.visual[a] = Between(s, n),
                       !.step[a] = IF n = StepFrames THEN NoStep ELSE [s EXCEPT !.progress = n]]

\* Mutation: teleport forgets the interpolation it interrupts.
LateTeleport(w, a, t) ==
    [w EXCEPT !.occupant = Reserved(w, a, t), !.pos[a] = t]

\* movement.teleport.
Teleported(w, a, t) ==
    [w EXCEPT !.occupant = Reserved(w, a, t), !.pos[a] = t,
              !.visual[a] = Drawn(t), !.step[a] = NoStep]

-----------------------------------------------------------------------------
\* The routes A* may answer with: cardinal chains over the ground that
\* never visit a tile twice.
Chained(path) == \A i \in 2..Len(path) : Adjacent(path[i - 1], path[i])
Chains ==
    UNION { { path \in [1..n -> Ground \ Solid] :
                /\ Chained(path)
                /\ \A i, j \in 1..n : path[i] = path[j] => i = j } : n \in 1..MaxRoute }

FreeRoutes(w) ==
    { path \in Chains :
        /\ Adjacent(w.pos[Walker], path[1])
        /\ path[Len(path)] = Goal
        /\ \A i \in 1..Len(path) : Walkable(w, path[i], Walker) }

\* pathfinding.find_path: the empty route at the goal, else one of the
\* shortest free ones. Which of several equally short ones the heap's
\* order prefers is left open.
FoundRoutes(w) ==
    LET free == FreeRoutes(w)
    IN  IF w.pos[Walker] = Goal THEN { <<>> }
        ELSE { path \in free : \A other \in free : Len(path) <= Len(other) }

\* movement_controller.set_path's validation. direction.from_delta knows
\* a direction for every non-zero offset, however long or diagonal.
From(steps, i) == IF i = 1 THEN world.pos[Walker] ELSE steps[i - 1]
Accepts(steps) ==
    \A i \in 1..Len(steps) : steps[i][3] = From(steps, i)[3] /\ steps[i] # From(steps, i)

Assigned(path) ==
    [path |-> path, next |-> 1, status |-> IF path = <<>> THEN "completed" ELSE "moving"]

\* The Walker's part of movement_controller.update.
Exhausted(r) == r.next > Len(r.path)
Target(r) == r.path[r.next]

\* Mutation: a rejected step is tried again in the next frame.
Retrying(r, status) == [r EXCEPT !.status = IF status = "blocked" THEN @ ELSE status]

With(r, status) == [r EXCEPT !.status = status]

Diverged(w, r) == Target(r)[3] # w.pos[Walker][3] \/ Target(r) = w.pos[Walker]

Walked(w, r) ==
    IF Moving(w, Walker)
    THEN LET v == Advanced(w, Walker)
         IN  [world |-> v,
              route |-> IF ~Moving(v, Walker) /\ r.status = "moving" /\ Exhausted(r)
                        THEN With(r, "completed") ELSE r]
    ELSE IF r.status # "moving" THEN [world |-> w, route |-> r]
    ELSE IF Exhausted(r) THEN [world |-> w, route |-> With(r, "completed")]
    ELSE IF Diverged(w, r) THEN [world |-> w, route |-> With(r, "blocked")]
    ELSE LET d == Toward(w.pos[Walker], Target(r))
         IN  [world |-> Begun(w, Walker, d),
              route |-> IF CanMove(w, Walker, d) THEN [r EXCEPT !.next = @ + 1]
                        ELSE With(r, "blocked")]

\* movement.begin asserts that what it is asked for is one cardinal tile.
FrameAborts ==
    /\ ~Moving(world, Walker) /\ route.status = "moving" /\ ~Exhausted(route)
    /\ ~Diverged(world, route) /\ ~Adjacent(world.pos[Walker], Target(route))

-----------------------------------------------------------------------------
\* update(self, dt): the player's interpolation, then the routes, then the
\* player's next step in the direction held.
Frame(d) ==
    /\ ~FrameAborts
    /\ LET after == Walked(Advanced(world, Player), route)
           w     == after.world
       IN  /\ route' = after.route
           /\ world' = IF d # Still /\ ~talking /\ ~Moving(w, Player)
                       THEN Begun(w, Player, d) ELSE w
    /\ UNCHANGED <<open, dead, talking>>

Facing == Ahead(world.pos[Player], world.facing[Player])

\* Mutation: interaction.use without its capability check.
CanUseDead == ~talking /\ Facing \in Ground

\* interaction.use, then find_target: an actor on the tile ahead is the
\* target before any object is.
CanUse == ~talking /\ Player \notin dead /\ Facing \in Ground

\* Mutation: find_target looks at objects only.
Unnoticed(t) == FALSE

Occupied(t) == world.occupant[t] # Nobody

Talk ==
    /\ CanUse
    /\ world.occupant[Facing] = Walker
    /\ talking' = TRUE
    /\ UNCHANGED <<world, open, dead, route>>

UseDoor(d) ==
    /\ CanUse
    /\ Facing = DoorAt[d] /\ ~Occupied(Facing)
    /\ open' = IF d \in open THEN open \ {d} ELSE open \cup {d}
    /\ UNCHANGED <<world, dead, route, talking>>

UseStairs ==
    /\ CanUse
    /\ Facing \in Stairs /\ ~Occupied(Facing)
    /\ Walkable(world, StairTo[Facing], Player)
    /\ world' = Teleported(world, Player, StairTo[Facing])
    /\ UNCHANGED <<open, dead, route, talking>>

\* dialogue_close and the choices that close the conversation.
EndTalk ==
    /\ talking
    /\ talking' = FALSE
    /\ UNCHANGED <<world, open, dead, route>>

\* The debug_npc_path key.
OrderWalk ==
    /\ ~talking
    /\ \E path \in FoundRoutes(world) : route' = Assigned(path)
    /\ UNCHANGED <<world, open, dead, talking>>

\* movement_controller.set_path and cancel called with something else.
SupplyRoute ==
    /\ \E steps \in Supplied : Accepts(steps) /\ route' = Assigned(steps)
    /\ UNCHANGED <<world, open, dead, talking>>

CancelRoute ==
    /\ route.status = "moving"
    /\ route' = [path |-> <<>>, next |-> 1, status |-> "cancelled"]
    /\ UNCHANGED <<world, open, dead, talking>>

\* combat.registry.apply_damage takes the last health point.
Die(a) ==
    /\ a \in Mortal \ dead
    /\ dead' = dead \cup {a}
    /\ UNCHANGED <<world, open, route, talking>>

AFrame == \E d \in Directions \cup {Still} : Frame(d)

Next ==
    \/ AFrame
    \/ Talk
    \/ \E d \in Doors : UseDoor(d)
    \/ UseStairs
    \/ EndTalk
    \/ OrderWalk
    \/ SupplyRoute
    \/ CancelRoute
    \/ \E a \in Mortal : Die(a)

Spec == Init /\ [][Next]_vars

-----------------------------------------------------------------------------
Steps == [from : Ground, to : Ground, progress : 0..(StepFrames - 1)]
Worlds ==
    [pos      : [Actors -> Ground],
     facing   : [Actors -> Directions],
     step     : [Actors -> Steps \cup {NoStep}],
     visual   : [Actors -> Tiles],
     occupant : [Ground -> Actors \cup {Nobody}]]
Statuses == {"idle", "moving", "completed", "blocked", "cancelled"}
Routes == [path : Seq(Tiles), next : Nat \ {0}, status : Statuses]

\* The shape of the state: actors on ground tiles, one reservation per tile.
TypeOK ==
    /\ world \in Worlds
    /\ open \subseteq Doors
    /\ dead \subseteq Mortal
    /\ route \in Routes
    /\ talking \in BOOLEAN

\* docs/actors.md: "At most one actor occupies a tile". The reservations and
\* the positions say the same, in both directions: no actor stands on a tile
\* reserved for another, no reservation is left behind by world.move_actor,
\* whatever steps, routes and stairs overlap.
OccupancyExact ==
    \A a \in Actors, t \in Ground : world.occupant[t] = a <=> world.pos[a] = t

\* Nobody ever stands in a wall or in a closed door. The door handler never
\* looks at the tile it closes: it is interaction.find_target, which prefers
\* the actor on the tile to the door, that keeps doors off actors.
NobodyShutIn ==
    \A a \in Actors :
        /\ world.pos[a] \notin Solid
        /\ \A d \in Doors : world.pos[a] = DoorAt[d] => d \in open

\* docs/actors.md: rendering reads the interpolation "but never writes
\* logical position". The picture agrees with the logic: an actor at rest is
\* drawn on its tile, one in motion on the line to the tile it has already
\* reserved, even when stairs cut a step short or a route is replaced.
DrawnWhereItGoes ==
    \A a \in Actors :
        IF Moving(world, a)
        THEN /\ world.step[a].to = world.pos[a]
             /\ world.visual[a] = Between(world.step[a], world.step[a].progress)
        ELSE world.visual[a] = Drawn(world.pos[a])

\* A route that ends "completed" ended on its last tile, with the step to it
\* drawn to its end; only an empty route completes where the Walker is.
ArrivedWhenCompleted ==
    route.status = "completed" /\ route.path # <<>> =>
        /\ world.pos[Walker] = route.path[Len(route.path)]
        /\ ~Moving(world, Walker)

Displaced(a) == world'.pos[a] # world.pos[a]

\* What a handler may do to a position: carry the living, from rest or from
\* the last frame of a step, to the next tile or over a stair, and never
\* exchange two actors; a routed actor moves only while its route is active.
LegalStep ==
    /\ \A a \in Actors : Displaced(a) =>
         /\ a \notin dead
         /\ \/ a = Player /\ Facing \in Stairs /\ world'.pos[a] = StairTo[Facing]
            \/ /\ Adjacent(world.pos[a], world'.pos[a])
               /\ Moving(world, a) => world.step[a].progress + 1 = StepFrames
         /\ a = Walker => route.status = "moving"
    /\ \A a, b \in Actors : a # b /\ Displaced(a) =>
         ~(world'.pos[a] = world.pos[b] /\ world'.pos[b] = world.pos[a])

\* A committed step is always drawn to its end, also when the actor dies,
\* its route is replaced or a conversation opens meanwhile: no actor hangs
\* between two tiles.
StepsFinish ==
    \A a \in {Player, Walker} :
        <>[]Moving(world, a) => []<><<world'.step[a] # world.step[a]>>_vars

Reassigned == route'.status = "moving" /\ route'.next = 1 /\ route' # route

\* docs/pathfinding.md: a rejected step "marks the route `blocked`" and never
\* replans. So a route that is not replaced for ever ends, whatever the
\* player does in its way.
RouteSettles ==
    <>[][~Reassigned]_vars => (route.status = "moving" ~> route.status # "moving")

\* Whatever began to move comes to rest where it should: steps are drawn to
\* their end, routes settle, and one that says it completed has arrived.
MotionSettles == []ArrivedWhenCompleted /\ StepsFinish /\ RouteSettles

=============================================================================
