---------------------------- MODULE Pathfinding ----------------------------
(***************************************************************************)
(* The A* search of simulation/pathfinding.lua, one action per turn of its *)
(* loop. The binary heap is the set of its entries: `less` orders them     *)
(* totally, because every entry has a sequence number of its own, so the   *)
(* entry popped is the least of the set. A node that is improved gets a    *)
(* new entry; the old one stays in the heap until it is popped and skipped.*)
(***************************************************************************)
EXTENDS RouteQuery

CONSTANT NoTile  \* the parent of the start

ASSUME NoTileAssumption == NoTile \notin Tiles

VARIABLES
    nodes,     \* discovered tiles: [g, parent, sequence]
    heap,      \* entries [tile, g, sequence]
    closed,    \* tiles already expanded
    sequence,  \* number of entries ever pushed
    visited    \* tiles popped that were not stale

search == <<nodes, heap, closed, sequence, visited>>
vars == <<start, goal, free, answer, nodes, heap, closed, sequence, visited>>

SearchInit ==
    /\ Init
    /\ nodes = [t \in {} |-> NoTile]
    /\ heap = {} /\ closed = {} /\ sequence = 0 /\ visited = 0

-----------------------------------------------------------------------------
Distant(a, b) == IF a > b THEN a - b ELSE b - a

\* manhattan, to the goal.
Estimate(t) == Distant(t[1], goal[1]) + Distant(t[2], goal[2])

\* less.
Less(a, b) ==
    LET fa == a.g + Estimate(a.tile)
        fb == b.g + Estimate(b.tile)
    IN  \/ fa < fb
        \/ fa = fb /\ Estimate(a.tile) < Estimate(b.tile)
        \/ fa = fb /\ Estimate(a.tile) = Estimate(b.tile) /\ a.sequence < b.sequence

\* What pop answers.
Least(e) == e \in heap /\ \A other \in heap \ {e} : Less(e, other)

\* The entry is neither closed nor superseded.
Live(e) == e.tile \notin closed /\ nodes[e.tile].sequence = e.sequence

\* The early returns of find_path.
Refuse ==
    /\ answer = Pending /\ nodes = [t \in {} |-> NoTile]
    /\ \/ start = goal /\ answer' = Found(<<>>)
       \/ start # goal /\ goal \notin free /\ answer' = Failed("blocked_goal")
    /\ UNCHANGED <<query, search>>

Begin ==
    /\ answer = Pending /\ nodes = [t \in {} |-> NoTile]
    /\ start # goal /\ goal \in free
    /\ nodes' = [t \in {start} |-> [g |-> 0, parent |-> NoTile, sequence |-> 1]]
    /\ heap' = { [tile |-> start, g |-> 0, sequence |-> 1] }
    /\ sequence' = 1
    /\ UNCHANGED <<query, answer, closed, visited>>

Searching == answer = Pending /\ start \in DOMAIN nodes

\* Mutation: the tile that reaches the limit is refused, not the next one.
ExceededEarly == visited + 1 >= MaxNodes

\* Counting one more tile would pass max_nodes.
Exceeded == visited >= MaxNodes

Skip ==
    /\ Searching
    /\ \E e \in heap :
         /\ Least(e) /\ ~Live(e)
         /\ heap' = heap \ {e}
    /\ UNCHANGED <<query, answer, nodes, closed, sequence, visited>>

\* Mutation: every walkable neighbour gets an entry.
AnyNeighbour(e, i) == Beside(e.tile, i) \in free \ {e.tile}

\* The neighbour in direction i is worth an entry: not closed, walkable, and
\* new or reached in fewer steps than before.
Improves(e, i) ==
    LET t == Beside(e.tile, i)
    IN  /\ t \in free \ (closed \cup {e.tile})
        /\ t \in DOMAIN nodes => e.g + 1 < nodes[t].g

\* The entries e's expansion pushes, numbered in canonical order.
Ways(e) == { i \in DOMAIN Offsets : Improves(e, i) }
Numbered(e, i) == sequence + Cardinality({ j \in Ways(e) : j <= i })
Fresh(e) == { [tile |-> Beside(e.tile, i), g |-> e.g + 1, sequence |-> Numbered(e, i)] : i \in Ways(e) }
Discovered(e) == { fresh.tile : fresh \in Fresh(e) }

Expand ==
    /\ Searching
    /\ \E e \in heap :
         /\ Least(e) /\ Live(e)
         /\ e.tile # goal /\ ~Exceeded
         /\ nodes' = [t \in DOMAIN nodes \cup Discovered(e) |->
                        IF t \in Discovered(e)
                        THEN LET fresh == CHOOSE f \in Fresh(e) : f.tile = t
                             IN  [g |-> fresh.g, parent |-> e.tile, sequence |-> fresh.sequence]
                        ELSE nodes[t]]
         /\ heap' = (heap \ {e}) \cup Fresh(e)
         /\ closed' = closed \cup {e.tile}
         /\ sequence' = sequence + Cardinality(Ways(e))
         /\ visited' = visited + 1
    /\ UNCHANGED <<query, answer>>

\* reconstruct.
Traced(t) ==
    LET path[s \in DOMAIN nodes] ==
          IF nodes[s].parent = NoTile THEN <<>> ELSE Append(path[nodes[s].parent], s)
    IN  path[t]

Arrive ==
    /\ Searching
    /\ \E e \in heap :
         /\ Least(e) /\ Live(e)
         /\ e.tile = goal /\ ~Exceeded
         /\ heap' = heap \ {e}
         /\ answer' = Found(Traced(goal))
    /\ visited' = visited + 1
    /\ UNCHANGED <<query, nodes, closed, sequence>>

GiveUp ==
    /\ Searching
    /\ \E e \in heap :
         /\ Least(e) /\ Live(e) /\ Exceeded
         /\ heap' = heap \ {e}
    /\ visited' = visited + 1
    /\ answer' = Failed("search_limit")
    /\ UNCHANGED <<query, nodes, closed, sequence>>

Exhaust ==
    /\ Searching
    /\ heap = {}
    /\ answer' = Failed("no_path")
    /\ UNCHANGED <<query, search>>

SearchNext == Refuse \/ Begin \/ Skip \/ Expand \/ Arrive \/ GiveUp \/ Exhaust

\* find_path runs to its end once it is called.
SearchSpec == SearchInit /\ [][SearchNext]_vars /\ WF_vars(SearchNext)

-----------------------------------------------------------------------------
Entries == [tile : Tiles, g : Nat, sequence : Nat]
Nodes == [g : Nat, parent : Tiles \cup {NoTile}, sequence : Nat]

\* The shape of the search.
SearchTypeOK ==
    /\ free \subseteq Tiles /\ start \in free /\ goal \in Tiles
    /\ DOMAIN nodes \subseteq free /\ nodes \in [DOMAIN nodes -> Nodes]
    /\ heap \subseteq Entries
    /\ closed \subseteq DOMAIN nodes
    /\ sequence \in Nat /\ visited \in Nat

\* The parents form a tree rooted in the start: every other discovered tile
\* hangs on a neighbour that is closed, and therefore never changed again,
\* one step further away. reconstruct follows the parents and would not end
\* on anything else.
TreeIsSound ==
    \A t \in DOMAIN nodes :
        IF t = start THEN nodes[t].parent = NoTile /\ nodes[t].g = 0
        ELSE /\ nodes[t].parent \in closed
             /\ Adjacent(nodes[t].parent, t)
             /\ nodes[t].g = nodes[nodes[t].parent].g + 1

\* No tile is expanded twice, however many entries it got: `visited`, which
\* max_nodes bounds, counts tiles.
VisitedOnce == answer = Pending => visited = Cardinality(closed)

\* docs/pathfinding.md: the answer is `success` with a route that "excludes
\* the start and includes the goal", `no_path`, `blocked_goal` or
\* `search_limit` "when exhausted"; the query always answers, with a shortest
\* route wherever there is one within the limit.
ImplementsQuery == Spec

=============================================================================
