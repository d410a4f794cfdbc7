----------------------------- MODULE RouteQuery -----------------------------
(***************************************************************************)
(* What simulation/pathfinding.lua promises: asked for a way from start to *)
(* goal over the free tiles of one level, it answers once, with a shortest *)
(* route, or with the reason why it has none. Every tile of the map has    *)
(* ground here, and the goal may not be entered when somebody stands on it.*)
(***************************************************************************)
EXTENDS Integers, Sequences, FiniteSets

CONSTANTS
    Width, Height,  \* of the map
    MaxNodes,       \* options.max_nodes
    Starts          \* where the actor may stand when it asks

ASSUME SizeAssumption == Width \in Nat \ {0} /\ Height \in Nat \ {0} /\ MaxNodes \in Nat \ {0}

Tiles == (0..(Width - 1)) \X (0..(Height - 1))
Longest == Width * Height

VARIABLES
    start, goal,  \* the actor's tile and the requested one
    free,         \* tiles world:is_walkable answers for
    answer        \* the structured result, or Pending

query == <<start, goal, free>>

Offsets == << <<0, 1>>, <<1, 0>>, <<0, -1>>, <<-1, 0>> >>  \* north, east, south, west
Beside(t, i) == <<t[1] + Offsets[i][1], t[2] + Offsets[i][2]>>
Adjacent(s, t) == \E i \in DOMAIN Offsets : t = Beside(s, i)

Found(path) == [success |-> TRUE, path |-> path, reason |-> ""]
Failed(reason) == [success |-> FALSE, path |-> <<>>, reason |-> reason]
Pending == Failed("pending")  \* no answer yet

\* The free tiles within n steps of the start.
Within ==
    LET ball[n \in 0..Longest] ==
          IF n = 0 THEN {start}
          ELSE LET inner == ball[n - 1]
               IN  inner \cup { t \in free : \E s \in inner : Adjacent(s, t) }
    IN  ball

Reachable == Within[Longest]
Distance(t) ==
    LET ball == Within
    IN  CHOOSE n \in 0..Longest : t \in ball[n] /\ (n > 0 => t \notin ball[n - 1])

IsRoute(path) ==
    /\ \A i \in 1..Len(path) :
         /\ path[i] \in free
         /\ Adjacent(IF i = 1 THEN start ELSE path[i - 1], path[i])
    /\ path # <<>> => path[Len(path)] = goal

\* The search may give up only where there is more to see than the limit.
Right(a) ==
    \/ /\ start = goal
       /\ a = Found(<<>>)
    \/ /\ start # goal /\ goal \notin free
       /\ a = Failed("blocked_goal")
    \/ /\ start # goal /\ goal \in free /\ goal \in Reachable
       /\ a.success /\ IsRoute(a.path) /\ Len(a.path) = Distance(goal)
    \/ /\ start # goal /\ goal \in free \ Reachable
       /\ a = Failed("no_path")
    \/ /\ start # goal /\ goal \in free /\ Cardinality(Reachable) > MaxNodes
       /\ a = Failed("search_limit")

Init ==
    /\ free \in SUBSET Tiles
    /\ start \in free \cap Starts
    /\ goal \in Tiles
    /\ answer = Pending

Next ==
    /\ answer = Pending
    /\ answer' # Pending /\ Right(answer')
    /\ UNCHANGED query

Spec == Init /\ [][Next]_<<start, goal, free, answer>> /\ <>(answer # Pending)

=============================================================================
