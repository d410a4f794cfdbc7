------------------------- MODULE PathfindingProofs -------------------------
(***************************************************************************)
(* The search of Pathfinding on a map of any size: its tree of parents is  *)
(* sound, so that reconstruct ends, no tile is expanded twice, and what is *)
(* answered is right: a shortest route, or the reason why there is none.   *)
(***************************************************************************)
EXTENDS Pathfinding, TLAPS, FiniteSetTheorems, WellFoundedInduction, SequenceTheorems

\* An entry that was not superseded carries the cost of its tile.
EntriesKnown ==
    \A e \in heap :
        /\ e.tile \in DOMAIN nodes
        /\ e.sequence <= sequence
        /\ e.sequence = nodes[e.tile].sequence => e.g = nodes[e.tile].g

Counted ==
    /\ IsFiniteSet(closed)
    /\ answer = Pending => visited = Cardinality(closed)

IInv == SearchTypeOK /\ TreeIsSound /\ EntriesKnown /\ Counted

LEMMA BesideIsAdjacent ==
  ASSUME NEW t, NEW i \in DOMAIN Offsets
  PROVE  Adjacent(t, Beside(t, i))
BY DEF Adjacent

\* The entries an expansion pushes: each is for a free tile that is neither
\* closed nor the expanded one, and is numbered above all earlier entries.
LEMMA FreshEntries ==
  ASSUME SearchTypeOK, NEW e \in heap, NEW f \in Fresh(e)
  PROVE  /\ f.tile \in free \ (closed \cup {e.tile})
         /\ Adjacent(e.tile, f.tile)
         /\ f.tile \in DOMAIN nodes => e.g + 1 < nodes[f.tile].g
         /\ f.g = e.g + 1
         /\ f.sequence \in Nat
         /\ f.sequence > sequence
         /\ f.sequence <= sequence + Cardinality(Ways(e))
         /\ f = [tile |-> f.tile, g |-> f.g, sequence |-> f.sequence]
<1>1. PICK i \in Ways(e) : f = [tile |-> Beside(e.tile, i), g |-> e.g + 1, sequence |-> Numbered(e, i)]
  BY DEF Fresh
<1>2. i \in DOMAIN Offsets /\ Improves(e, i)
  BY DEF Ways
<1> DEFINE upto == { j \in Ways(e) : j <= i }
<1>3. IsFiniteSet(Ways(e))
  <2>1. DOMAIN Offsets = 1..4
    BY DEF Offsets
  <2>2. IsFiniteSet(1..4)
    <3>1. 1 \in Int /\ 4 \in Int
      OBVIOUS
    <3>2. QED
      BY <3>1, FS_Interval, Zenon
  <2>3. Ways(e) \subseteq 1..4
    BY <2>1 DEF Ways
  <2>4. QED
    BY <2>2, <2>3, FS_Subset
<1>4. upto \subseteq Ways(e) /\ i \in upto
  <2>1. DOMAIN Offsets = 1..4
    BY DEF Offsets
  <2>2. QED
    BY <1>2, <2>1
<1>5. IsFiniteSet(upto) /\ Cardinality(upto) <= Cardinality(Ways(e))
  BY <1>3, <1>4, FS_Subset
<1>6. Cardinality(Ways(e)) \in Nat /\ Cardinality(upto) \in Nat /\ Cardinality(upto) # 0
  BY <1>3, <1>4, <1>5, FS_CardinalityType, FS_EmptySet
<1>7. Numbered(e, i) = sequence + Cardinality(upto)
  BY DEF Numbered
<1>8. sequence \in Nat
  BY DEF SearchTypeOK
<1> HIDE DEF upto
<1>9. /\ Numbered(e, i) \in Nat /\ Numbered(e, i) > sequence
      /\ Numbered(e, i) <= sequence + Cardinality(Ways(e))
  BY <1>5, <1>6, <1>7, <1>8
<1>10. Adjacent(e.tile, Beside(e.tile, i))
  BY <1>2, BesideIsAdjacent
<1>11. QED
  BY <1>1, <1>2, <1>9, <1>10 DEF Improves

\* What an expansion leaves at each tile.
LEMMA NodesExpanded ==
  ASSUME NEW e \in heap,
         nodes' = [t \in DOMAIN nodes \cup Discovered(e) |->
                     IF t \in Discovered(e)
                     THEN LET fresh == CHOOSE f \in Fresh(e) : f.tile = t
                          IN  [g |-> fresh.g, parent |-> e.tile, sequence |-> fresh.sequence]
                     ELSE nodes[t]]
  PROVE  /\ DOMAIN nodes' = DOMAIN nodes \cup Discovered(e)
         /\ \A t \in DOMAIN nodes \ Discovered(e) : nodes'[t] = nodes[t]
         /\ \A t \in Discovered(e) : \E f \in Fresh(e) :
              /\ f.tile = t
              /\ nodes'[t] = [g |-> f.g, parent |-> e.tile, sequence |-> f.sequence]
<1>1. ASSUME NEW t \in Discovered(e)
      PROVE  \E f \in Fresh(e) :
               /\ f.tile = t
               /\ nodes'[t] = [g |-> f.g, parent |-> e.tile, sequence |-> f.sequence]
  <2> DEFINE fresh == CHOOSE f \in Fresh(e) : f.tile = t
  <2>1. \E f \in Fresh(e) : f.tile = t
    BY DEF Discovered
  <2>2. fresh \in Fresh(e) /\ fresh.tile = t
    BY <2>1
  <2>3. nodes'[t] = [g |-> fresh.g, parent |-> e.tile, sequence |-> fresh.sequence]
    OBVIOUS
  <2>4. QED
    BY <2>2, <2>3
<1>2. QED
  BY <1>1

-----------------------------------------------------------------------------
\* A turn that leaves nodes and closed alone and takes an entry at most off
\* the heap.
LEMMA QuietTurn ==
  ASSUME IInv, UNCHANGED <<query, nodes, closed, sequence>>, heap' \subseteq heap,
         visited' \in Nat, answer' = Pending => answer = Pending /\ visited' = visited
  PROVE  IInv'
<1>1. SearchTypeOK'
  BY DEF IInv, SearchTypeOK, query
<1>2. TreeIsSound'
  BY DEF IInv, TreeIsSound, query
<1>3. EntriesKnown'
  BY DEF IInv, EntriesKnown
<1>4. Counted'
  BY DEF IInv, Counted
<1>5. QED
  BY <1>1, <1>2, <1>3, <1>4 DEF IInv

LEMMA InitEstablishes == SearchInit => IInv
<1> SUFFICES ASSUME SearchInit PROVE IInv
  OBVIOUS
<1>1. SearchTypeOK
  BY DEF SearchInit, Init, SearchTypeOK
<1>2. TreeIsSound /\ EntriesKnown
  BY DEF SearchInit, TreeIsSound, EntriesKnown
<1>3. Counted
  BY FS_EmptySet DEF SearchInit, Counted
<1>4. QED
  BY <1>1, <1>2, <1>3 DEF IInv

LEMMA BeginPreserves == IInv /\ Begin => IInv'
<1> SUFFICES ASSUME IInv, Begin PROVE IInv'
  OBVIOUS
<1>1. DOMAIN nodes = {} /\ closed = {}
  BY DEF Begin, IInv, SearchTypeOK
<1>2. /\ nodes' = [t \in {start} |-> [g |-> 0, parent |-> NoTile, sequence |-> 1]]
      /\ heap' = { [tile |-> start, g |-> 0, sequence |-> 1] }
      /\ sequence' = 1
      /\ UNCHANGED <<query, answer, closed, visited>>
  BY DEF Begin
<1>3. SearchTypeOK'
  BY <1>1, <1>2 DEF IInv, SearchTypeOK, query, Nodes, Entries
<1>4. TreeIsSound'
  BY <1>2 DEF TreeIsSound, query
<1>5. EntriesKnown'
  BY <1>2 DEF EntriesKnown
<1>6. Counted'
  BY <1>2 DEF IInv, Counted
<1>7. QED
  BY <1>3, <1>4, <1>5, <1>6 DEF IInv

LEMMA ExpandPreserves == IInv /\ Expand => IInv'
<1> SUFFICES ASSUME IInv, Expand PROVE IInv'
  OBVIOUS
<1>1. PICK e \in heap :
        /\ Live(e)
        /\ nodes' = [t \in DOMAIN nodes \cup Discovered(e) |->
                       IF t \in Discovered(e)
                       THEN LET fresh == CHOOSE f \in Fresh(e) : f.tile = t
                            IN  [g |-> fresh.g, parent |-> e.tile, sequence |-> fresh.sequence]
                       ELSE nodes[t]]
        /\ heap' = (heap \ {e}) \cup Fresh(e)
        /\ closed' = closed \cup {e.tile}
        /\ sequence' = sequence + Cardinality(Ways(e))
        /\ visited' = visited + 1
  BY DEF Expand
<1>2. start \in DOMAIN nodes /\ answer = Pending /\ UNCHANGED <<query, answer>>
  BY DEF Expand, Searching
<1>3. /\ SearchTypeOK /\ TreeIsSound /\ EntriesKnown /\ Counted
      /\ e \in Entries /\ e.tile \in DOMAIN nodes /\ e.tile \notin closed
      /\ e.g = nodes[e.tile].g /\ e.g \in Nat
  BY <1>1 DEF IInv, SearchTypeOK, EntriesKnown, Live, Entries
<1>4. /\ DOMAIN nodes' = DOMAIN nodes \cup Discovered(e)
      /\ \A t \in DOMAIN nodes \ Discovered(e) : nodes'[t] = nodes[t]
      /\ \A t \in Discovered(e) : \E f \in Fresh(e) :
           /\ f.tile = t
           /\ nodes'[t] = [g |-> f.g, parent |-> e.tile, sequence |-> f.sequence]
  BY <1>1, NodesExpanded
<1>5. \A f \in Fresh(e) :
        /\ f.tile \in free \ (closed \cup {e.tile})
        /\ Adjacent(e.tile, f.tile)
        /\ f.tile \in DOMAIN nodes => e.g + 1 < nodes[f.tile].g
        /\ f.g = e.g + 1
        /\ f.sequence \in Nat
        /\ f.sequence > sequence
        /\ f.sequence <= sequence + Cardinality(Ways(e))
        /\ f = [tile |-> f.tile, g |-> f.g, sequence |-> f.sequence]
  BY <1>3, FreshEntries
<1>6. /\ Discovered(e) \subseteq free
      /\ Discovered(e) \cap (closed \cup {e.tile}) = {}
      /\ \A f \in Fresh(e) : f.tile \in Discovered(e)
  BY <1>5 DEF Discovered
<1>7. Cardinality(Ways(e)) \in Nat
  <2>1. DOMAIN Offsets = 1..4 /\ 1 \in Int /\ 4 \in Int
    BY DEF Offsets
  <2>2. Ways(e) \subseteq 1..4
    BY <2>1 DEF Ways
  <2>3. IsFiniteSet(1..4)
    BY <2>1, FS_Interval, Zenon
  <2>4. QED
    BY <2>2, <2>3, FS_Subset, FS_CardinalityType
<1>8. SearchTypeOK'
  <2>1. free' = free /\ start' = start /\ goal' = goal
    BY <1>2 DEF query
  <2>2. DOMAIN nodes' \subseteq free
    BY <1>3, <1>4, <1>6 DEF SearchTypeOK
  <2>3. ASSUME NEW t \in DOMAIN nodes' PROVE nodes'[t] \in Nodes
    <3>1. CASE t \in Discovered(e)
      BY <1>3, <1>4, <1>5, <3>1 DEF Nodes, Entries
    <3>2. CASE t \notin Discovered(e)
      BY <1>3, <1>4, <3>2 DEF SearchTypeOK
    <3>3. QED
      BY <3>1, <3>2
  <2>4. nodes' \in [DOMAIN nodes' -> Nodes]
    BY <1>1, <2>3
  <2>5. Fresh(e) \subseteq Entries
    BY <1>3, <1>5 DEF Entries, SearchTypeOK
  <2>6. heap' \subseteq Entries /\ closed' \subseteq DOMAIN nodes'
    BY <1>1, <1>3, <1>4, <2>5 DEF SearchTypeOK
  <2>7. sequence' \in Nat /\ visited' \in Nat
    BY <1>1, <1>3, <1>7 DEF SearchTypeOK
  <2>8. QED
    BY <1>3, <2>1, <2>2, <2>4, <2>6, <2>7 DEF SearchTypeOK
<1>9. TreeIsSound'
  <2>1. start' = start
    BY <1>2 DEF query
  <2>2. start \notin Discovered(e)
    <3>1. nodes[start].g = 0
      BY <1>2, <1>3 DEF TreeIsSound
    <3>2. QED
      BY <1>2, <1>3, <1>5, <3>1 DEF Discovered
  <2>3. nodes'[e.tile].g = e.g
    BY <1>3, <1>4, <1>6
  <2>4. ASSUME NEW t \in Discovered(e)
        PROVE  /\ nodes'[t].parent \in closed'
               /\ Adjacent(nodes'[t].parent, t)
               /\ nodes'[t].g = nodes'[nodes'[t].parent].g + 1
    <3>1. PICK f \in Fresh(e) :
            f.tile = t /\ nodes'[t] = [g |-> f.g, parent |-> e.tile, sequence |-> f.sequence]
      BY <1>4
    <3>2. f.g = e.g + 1 /\ Adjacent(e.tile, t)
      BY <1>5, <3>1
    <3>3. QED
      BY <1>1, <2>3, <3>1, <3>2
  <2>5. ASSUME NEW t \in DOMAIN nodes \ Discovered(e), t # start
        PROVE  /\ nodes'[t].parent \in closed'
               /\ Adjacent(nodes'[t].parent, t)
               /\ nodes'[t].g = nodes'[nodes'[t].parent].g + 1
    <3>1. /\ nodes[t].parent \in closed
          /\ Adjacent(nodes[t].parent, t)
          /\ nodes[t].g = nodes[nodes[t].parent].g + 1
      BY <1>3, <2>5 DEF TreeIsSound
    <3>2. nodes'[t] = nodes[t]
      BY <1>4
    <3>3. nodes'[nodes[t].parent] = nodes[nodes[t].parent]
      BY <1>3, <1>4, <1>6, <3>1 DEF SearchTypeOK
    <3>4. QED
      BY <1>1, <3>1, <3>2, <3>3
  <2>6. nodes'[start].parent = NoTile /\ nodes'[start].g = 0
    BY <1>2, <1>3, <1>4, <2>2 DEF TreeIsSound
  <2>7. QED
    BY <1>4, <2>1, <2>4, <2>5, <2>6 DEF TreeIsSound
<1>10. EntriesKnown'
  <2>1. ASSUME NEW f \in Fresh(e)
        PROVE  /\ f.tile \in DOMAIN nodes'
               /\ f.sequence <= sequence'
               /\ f.g = nodes'[f.tile].g
    BY <1>1, <1>4, <1>5, <1>6
  <2>2. ASSUME NEW d \in heap
        PROVE  /\ d.tile \in DOMAIN nodes'
               /\ d.sequence <= sequence'
               /\ d.sequence = nodes'[d.tile].sequence => d.g = nodes'[d.tile].g
    <3>1. /\ d.tile \in DOMAIN nodes /\ d.sequence \in Nat /\ sequence \in Nat
          /\ d.sequence <= sequence
          /\ d.sequence = nodes[d.tile].sequence => d.g = nodes[d.tile].g
      BY <1>3 DEF EntriesKnown, SearchTypeOK, Entries
    <3>2. CASE d.tile \in Discovered(e)
      <4>1. PICK f \in Fresh(e) : nodes'[d.tile].sequence = f.sequence
        BY <1>4, <3>2
      <4>2. d.sequence # nodes'[d.tile].sequence
        BY <1>5, <3>1, <4>1
      <4>3. QED
        BY <1>1, <1>4, <1>7, <3>1, <4>2
    <3>3. CASE d.tile \notin Discovered(e)
      BY <1>1, <1>4, <1>7, <3>1, <3>3
    <3>4. QED
      BY <3>2, <3>3
  <2>3. QED
    BY <1>1, <2>1, <2>2 DEF EntriesKnown
<1>11. Counted'
  <2>1. IsFiniteSet(closed) /\ visited = Cardinality(closed)
    BY <1>2, <1>3 DEF Counted
  <2>2. /\ IsFiniteSet(closed \cup {e.tile})
        /\ Cardinality(closed \cup {e.tile}) = Cardinality(closed) + 1
    BY <1>3, <2>1, FS_AddElement
  <2>3. QED
    BY <1>1, <2>1, <2>2 DEF Counted
<1>12. QED
  BY <1>8, <1>9, <1>10, <1>11 DEF IInv

LEMMA AnAnswerIsNotPending ==
  /\ \A path : Found(path) # Pending
  /\ Failed("blocked_goal") # Pending
  /\ Failed("search_limit") # Pending
  /\ Failed("no_path") # Pending
<1>1. ASSUME NEW path PROVE Found(path) # Pending
  <2>1. Found(path).success = TRUE /\ Pending.success = FALSE
    BY Zenon DEF Found, Pending, Failed
  <2>2. QED
    BY <2>1, Zenon
<1>2. /\ Failed("blocked_goal") # Pending
      /\ Failed("search_limit") # Pending
      /\ Failed("no_path") # Pending
  BY DEF Pending, Failed
<1>3. QED
  BY <1>1, <1>2

LEMMA StepPreserves == IInv /\ [SearchNext]_vars => IInv'
<1> SUFFICES ASSUME IInv, [SearchNext]_vars PROVE IInv'
  OBVIOUS
<1>1. visited \in Nat /\ visited + 1 \in Nat
  BY DEF IInv, SearchTypeOK
<1>2. CASE Refuse
  <2>1. UNCHANGED <<query, nodes, closed, sequence>> /\ heap' = heap /\ visited' = visited
    BY <1>2 DEF Refuse, search
  <2>2. answer' # Pending
    BY <1>2, AnAnswerIsNotPending, Zenon DEF Refuse
  <2>3. QED
    BY <1>1, <2>1, <2>2, QuietTurn
<1>3. CASE Begin
  BY <1>3, BeginPreserves
<1>4. CASE Skip
  BY <1>1, <1>4, QuietTurn DEF Skip
<1>5. CASE Expand
  BY <1>5, ExpandPreserves
<1>6. CASE Arrive
  <2>1. /\ UNCHANGED <<query, nodes, closed, sequence>> /\ heap' \subseteq heap
        /\ visited' = visited + 1
    BY <1>6 DEF Arrive
  <2>2. answer' # Pending
    BY <1>6, AnAnswerIsNotPending, Zenon DEF Arrive
  <2>3. QED
    BY <1>1, <2>1, <2>2, QuietTurn
<1>7. CASE GiveUp
  <2>1. /\ UNCHANGED <<query, nodes, closed, sequence>> /\ heap' \subseteq heap
        /\ visited' = visited + 1
    BY <1>7 DEF GiveUp
  <2>2. answer' # Pending
    BY <1>7, AnAnswerIsNotPending, Zenon DEF GiveUp
  <2>3. QED
    BY <1>1, <2>1, <2>2, QuietTurn
<1>8. CASE Exhaust
  <2>1. UNCHANGED <<query, nodes, closed, sequence>> /\ heap' = heap /\ visited' = visited
    BY <1>8 DEF Exhaust, search
  <2>2. answer' # Pending
    BY <1>8, AnAnswerIsNotPending, Zenon DEF Exhaust
  <2>3. QED
    BY <1>1, <2>1, <2>2, QuietTurn
<1>9. CASE UNCHANGED vars
  BY <1>1, <1>9, QuietTurn DEF vars, query
<1>10. QED
  BY <1>2, <1>3, <1>4, <1>5, <1>6, <1>7, <1>8, <1>9 DEF SearchNext

LEMMA SearchInvariant == SearchSpec => []IInv
<1>1. QED
  BY InitEstablishes, StepPreserves, PTL DEF SearchSpec

\* The shape of find_path's nodes, closed and heap, on every map.
THEOREM SearchTypeCorrect == SearchSpec => []SearchTypeOK
<1>1. IInv => SearchTypeOK
  BY DEF IInv
<1>2. QED
  BY <1>1, SearchInvariant, PTL

\* On every map the parents find_path records lead back to the start in as
\* many steps as g says, over tiles that are closed: reconstruct ends there.
THEOREM TreeStaysSound == SearchSpec => []TreeIsSound
<1>1. IInv => TreeIsSound
  BY DEF IInv
<1>2. QED
  BY <1>1, SearchInvariant, PTL

\* On every map find_path expands a tile once, whatever stale entries its
\* heap holds, so that max_nodes counts tiles.
THEOREM TilesVisitedOnce == SearchSpec => []VisitedOnce
<1>1. IInv => VisitedOnce
  BY DEF IInv, Counted, VisitedOnce
<1>2. QED
  BY <1>1, SearchInvariant, PTL

-----------------------------------------------------------------------------
(* The answers. What follows proves that the search implements RouteQuery: *)
(* whatever it answers is right, and a route it answers is a shortest one. *)

\* Induction, over a set of numbers.
LEMMA NatSetInduction ==
  ASSUME NEW Q, 0 \in Q, \A k \in Nat : k \in Q => k + 1 \in Q
  PROVE  Nat \subseteq Q
<1>1. SUFFICES ASSUME Nat \ Q # {} PROVE FALSE
  OBVIOUS
<1> DEFINE R == {ss \in Nat \X Nat : ss[1] < ss[2]}
<1>2. IsWellFoundedOn(R, Nat)
  BY NatLessThanWellFounded DEF OpToRel
<1>3. PICK m \in Nat \ Q : \A k \in Nat \ Q : <<k, m>> \notin R
  BY <1>1, <1>2, WFMin
<1>4. m # 0 /\ m - 1 \in Nat
  BY <1>3
<1>5. <<m - 1, m>> \in R
  BY <1>4
<1>6. m - 1 \in Q
  BY <1>3, <1>4, <1>5
<1>7. QED
  BY <1>3, <1>4, <1>6

-----------------------------------------------------------------------------
(* The tiles within n steps: Within is the one function that satisfies its *)
(* equation.                                                               *)
BallStep(ball, n) ==
    IF n = 0 THEN {start}
    ELSE ball[n - 1] \cup { t \in free : \E s \in ball[n - 1] : Adjacent(s, t) }

IsBall(ball) == ball = [n \in 0..Longest |-> BallStep(ball, n)]

LEMMA LongestIsNat == Longest \in Nat
BY SizeAssumption DEF Longest

LEMMA WithinIsBall == IsBall(Within)
<1> DEFINE Solved(k) == \E b : b = [n \in 0..k |-> BallStep(b, n)]
           Good == { k \in Nat : Solved(k) }
<1>1. Solved(0)
  <2> DEFINE b == [n \in 0..0 |-> {start}]
  <2>1. b = [n \in 0..0 |-> BallStep(b, n)]
    BY DEF BallStep
  <2> HIDE DEF b
  <2>2. QED
    BY <2>1
<1>2. ASSUME NEW k \in Nat, Solved(k)
      PROVE  Solved(k + 1)
  <2>1. PICK b : b = [n \in 0..k |-> BallStep(b, n)]
    BY <1>2
  <2> DEFINE c == [n \in 0..(k + 1) |-> BallStep(b, n)]
  <2>2. \A n \in 0..k : c[n] = b[n]
    BY <2>1
  <2>3. \A n \in 0..(k + 1) : n = 0 \/ n - 1 \in 0..k
    OBVIOUS
  <2>4. \A n \in 0..(k + 1) : BallStep(b, n) = BallStep(c, n)
    <3> HIDE DEF c
    <3> QED BY <2>2, <2>3 DEF BallStep
  <2>5. c = [n \in 0..(k + 1) |-> BallStep(c, n)]
    BY <2>4
  <2> HIDE DEF c
  <2>6. QED
    BY <2>5
<1>3. Longest \in Good
  <2>1. 0 \in Good /\ \A k \in Nat : k \in Good => k + 1 \in Good
    <3> HIDE DEF Solved
    <3> QED BY <1>1, <1>2
  <2> HIDE DEF Good
  <2>2. Nat \subseteq Good
    BY <2>1, NatSetInduction
  <2>3. QED
    BY <2>2, LongestIsNat
<1>4. \E b : b = [n \in 0..Longest |-> BallStep(b, n)]
  BY <1>3
<1>5. Within = CHOOSE b : b = [n \in 0..Longest |-> BallStep(b, n)]
  BY DEF Within, BallStep
<1>6. QED
  BY <1>4, <1>5 DEF IsBall

LEMMA OneBall ==
  ASSUME NEW b, NEW c, IsBall(b), IsBall(c)
  PROVE  b = c
<1> DEFINE Good == { n \in Nat : n \in 0..Longest => b[n] = c[n] }
<1>1. 0 \in Good
  BY LongestIsNat DEF IsBall, BallStep
<1>2. ASSUME NEW k \in Nat, k \in Good
      PROVE  k + 1 \in Good
  <2>1. SUFFICES ASSUME k + 1 \in 0..Longest PROVE b[k + 1] = c[k + 1]
    OBVIOUS
  <2>2. b[k] = c[k] /\ (k + 1) - 1 = k /\ k + 1 # 0
    BY <1>2, <2>1, LongestIsNat
  <2>3. BallStep(b, k + 1) = BallStep(c, k + 1)
    BY <2>2 DEF BallStep
  <2>4. b[k + 1] = BallStep(b, k + 1) /\ c[k + 1] = BallStep(c, k + 1)
    BY <2>1 DEF IsBall
  <2>5. QED
    BY <2>3, <2>4
<1>3. Nat \subseteq Good
  <2> HIDE DEF Good
  <2> QED BY <1>1, <1>2, NatSetInduction
<1>4. \A n \in 0..Longest : b[n] = c[n]
  BY <1>3, LongestIsNat
<1>5. QED
  BY <1>4 DEF IsBall

\* The equations of Within.
LEMMA WithinEquations ==
  /\ Within[0] = {start}
  /\ \A n \in 1..Longest :
       Within[n] = Within[n - 1] \cup { t \in free : \E s \in Within[n - 1] : Adjacent(s, t) }
<1>1. \A n \in 0..Longest : Within[n] = BallStep(Within, n)
  BY WithinIsBall DEF IsBall
<1>2. 0 \in 0..Longest /\ \A n \in 1..Longest : n \in 0..Longest /\ n # 0
  BY LongestIsNat
<1>3. QED
  BY <1>1, <1>2 DEF BallStep

LEMMA WithinIsBallThen == (IsBall(Within))'
BY WithinIsBall, PTL

LEMMA WithinStays ==
  ASSUME UNCHANGED query
  PROVE  Within' = Within
<1>1. start' = start /\ free' = free
  BY DEF query
<1>2. Within' = [n \in 0..Longest |->
                   IF n = 0 THEN {start'}
                   ELSE Within'[n - 1] \cup { t \in free' : \E s \in Within'[n - 1] : Adjacent(s, t) }]
  BY WithinIsBallThen DEF IsBall, BallStep
<1> DEFINE later == Within'
<1>3. later = [n \in 0..Longest |-> BallStep(later, n)]
  BY <1>1, <1>2 DEF BallStep
<1>4. IsBall(later)
  BY <1>3 DEF IsBall
<1> HIDE DEF later
<1>5. later = Within
  BY <1>4, WithinIsBall, OneBall
<1>6. QED
  BY <1>5 DEF later

LEMMA WithinIsFree ==
  ASSUME SearchTypeOK
  PROVE  \A n \in 0..Longest : Within[n] \subseteq free
<1> DEFINE Good == { n \in Nat : n \in 0..Longest => Within[n] \subseteq free }
<1>1. 0 \in Good
  BY WithinEquations DEF SearchTypeOK
<1>2. ASSUME NEW k \in Nat, k \in Good
      PROVE  k + 1 \in Good
  <2>1. SUFFICES ASSUME k + 1 \in 0..Longest PROVE Within[k + 1] \subseteq free
    OBVIOUS
  <2>2. k + 1 \in 1..Longest /\ k \in 0..Longest /\ (k + 1) - 1 = k
    BY <2>1, LongestIsNat
  <2>3. Within[k + 1] = Within[k] \cup { t \in free : \E s \in Within[k] : Adjacent(s, t) }
    BY <2>2, WithinEquations
  <2>4. QED
    BY <1>2, <2>2, <2>3
<1>3. Nat \subseteq Good
  <2> HIDE DEF Good
  <2> QED BY <1>1, <1>2, NatSetInduction
<1>4. QED
  BY <1>3, LongestIsNat

LEMMA WithinGrows ==
  ASSUME NEW m \in 0..Longest, NEW n \in 0..Longest, m <= n
  PROVE  Within[m] \subseteq Within[n]
<1> DEFINE Good == { k \in Nat : m + k \in 0..Longest => Within[m] \subseteq Within[m + k] }
<1>1. 0 \in Good
  BY LongestIsNat
<1>2. ASSUME NEW k \in Nat, k \in Good
      PROVE  k + 1 \in Good
  <2>1. SUFFICES ASSUME m + (k + 1) \in 0..Longest PROVE Within[m] \subseteq Within[m + (k + 1)]
    OBVIOUS
  <2>2. /\ m + (k + 1) \in 1..Longest /\ m + k \in 0..Longest
        /\ (m + (k + 1)) - 1 = m + k
    BY <2>1, LongestIsNat
  <2>3. Within[m + k] \subseteq Within[m + (k + 1)]
    BY <2>2, WithinEquations
  <2>4. QED
    BY <1>2, <2>2, <2>3
<1>3. Nat \subseteq Good
  <2> HIDE DEF Good
  <2> QED BY <1>1, <1>2, NatSetInduction
<1>4. n - m \in Nat /\ m + (n - m) = n
  BY LongestIsNat
<1>5. QED
  BY <1>3, <1>4

-----------------------------------------------------------------------------
(* The inductive invariant of the answers. A closed tile has its final     *)
(* cost, and every way on from it is in nodes at that cost and one step;   *)
(* what is known and not closed waits in the heap. Together they say that  *)
(* some entry of the heap lies on a shortest way to whatever is still      *)
(* missing, so that the least entry, the manhattan distance being a lower  *)
(* bound, cannot have been reached by a detour.                            *)

\* find_path returned early, or both ends of the way are free and distinct.
Begun ==
    \/ DOMAIN nodes = {} /\ heap = {} /\ closed = {}
    \/ start \in DOMAIN nodes /\ start # goal /\ goal \in free

\* The costs are those of some way from the start, no longer than the number
\* of tiles expanded.
CostsReached ==
    \A t \in DOMAIN nodes :
        /\ nodes[t].g <= Cardinality(closed)
        /\ t \in Within[nodes[t].g]

\* A closed tile was reached in as few steps as there are.
CostsExact ==
    \A t \in closed : \A m \in 0..Longest : t \in Within[m] => nodes[t].g <= m

\* Every neighbour of a closed tile is known, at one step more at most.
Relaxed ==
    \A s \in closed : \A t \in free :
        Adjacent(s, t) => t \in DOMAIN nodes /\ nodes[t].g <= nodes[s].g + 1

\* A tile that is known and not closed has the entry that counts for it.
Queued ==
    answer = Pending =>
        \A t \in DOMAIN nodes \ closed :
            \E e \in heap : e.tile = t /\ e.sequence = nodes[t].sequence

GoalOpen == answer = Pending => goal \notin closed

AInv == IInv /\ Begun /\ CostsReached /\ CostsExact /\ Relaxed /\ Queued /\ GoalOpen

LEMMA TilesAreFinite == IsFiniteSet(Tiles) /\ Cardinality(Tiles) = Longest
<1>1. Width \in Nat /\ Height \in Nat /\ Width > 0 /\ Height > 0
  BY SizeAssumption
<1>2. /\ IsFiniteSet(0..(Width - 1)) /\ IsFiniteSet(0..(Height - 1))
      /\ Cardinality(0..(Width - 1)) = Width /\ Cardinality(0..(Height - 1)) = Height
  BY <1>1, FS_Interval
<1> DEFINE X == 0..(Width - 1)
           Y == 0..(Height - 1)
<1>3. IsFiniteSet(X) /\ IsFiniteSet(Y) /\ Cardinality(X) = Width /\ Cardinality(Y) = Height
  BY <1>2
<1>4. Tiles = X \X Y /\ Longest = Width * Height
  BY DEF Tiles, Longest
<1> HIDE DEF X, Y
<1>5. IsFiniteSet(X \X Y) /\ Cardinality(X \X Y) = Cardinality(X) * Cardinality(Y)
  BY <1>3, FS_Product
<1>6. QED
  BY <1>3, <1>4, <1>5

LEMMA ClosedFits ==
  ASSUME SearchTypeOK
  PROVE  /\ closed \subseteq free /\ closed \subseteq Tiles
         /\ IsFiniteSet(closed) /\ Cardinality(closed) \in 0..Longest
<1>1. closed \subseteq free /\ closed \in SUBSET Tiles
  BY DEF SearchTypeOK
<1>2. IsFiniteSet(closed) /\ Cardinality(closed) <= Cardinality(Tiles)
  BY <1>1, TilesAreFinite, FS_Subset
<1>3. Cardinality(closed) \in Nat
  BY <1>2, FS_CardinalityType
<1>4. QED
  BY <1>1, <1>2, <1>3, TilesAreFinite, LongestIsNat

\* manhattan never overestimates: it changes by a step at most with a step.
LEMMA EstimateIsLower ==
  ASSUME goal \in Tiles, NEW s \in Tiles, NEW t \in Tiles, Adjacent(s, t)
  PROVE  Estimate(s) \in Nat /\ Estimate(t) \in Nat /\ Estimate(s) <= Estimate(t) + 1
<1>1. PICK i \in DOMAIN Offsets : t = Beside(s, i)
  BY DEF Adjacent
<1>2. /\ s[1] \in Int /\ s[2] \in Int /\ t[1] \in Int /\ t[2] \in Int
      /\ goal[1] \in Int /\ goal[2] \in Int
  BY SizeAssumption DEF Tiles
<1>3. i \in {1, 2, 3, 4}
  BY <1>1 DEF Offsets
<1>4. \/ t[1] = s[1] /\ t[2] = s[2] + 1
      \/ t[1] = s[1] + 1 /\ t[2] = s[2]
      \/ t[1] = s[1] /\ t[2] = s[2] - 1
      \/ t[1] = s[1] - 1 /\ t[2] = s[2]
  BY <1>1, <1>2, <1>3 DEF Beside, Offsets
<1>5. ASSUME NEW a \in Int, NEW b \in Int, NEW c \in Int, a = b \/ a = b + 1 \/ a = b - 1
      PROVE  /\ Distant(a, c) \in Nat /\ Distant(b, c) \in Nat
             /\ Distant(a, c) <= Distant(b, c) + 1
             /\ a = b => Distant(a, c) = Distant(b, c)
  BY <1>5 DEF Distant
<1>6. /\ s[1] = t[1] \/ s[1] = t[1] + 1 \/ s[1] = t[1] - 1
      /\ s[2] = t[2] \/ s[2] = t[2] + 1 \/ s[2] = t[2] - 1
      /\ s[1] = t[1] \/ s[2] = t[2]
  BY <1>2, <1>4
<1>7. /\ Distant(s[1], goal[1]) \in Nat /\ Distant(t[1], goal[1]) \in Nat
      /\ Distant(s[1], goal[1]) <= Distant(t[1], goal[1]) + 1
      /\ s[1] = t[1] => Distant(s[1], goal[1]) = Distant(t[1], goal[1])
  BY <1>2, <1>5, <1>6
<1>8. /\ Distant(s[2], goal[2]) \in Nat /\ Distant(t[2], goal[2]) \in Nat
      /\ Distant(s[2], goal[2]) <= Distant(t[2], goal[2]) + 1
      /\ s[2] = t[2] => Distant(s[2], goal[2]) = Distant(t[2], goal[2])
  BY <1>2, <1>5, <1>6
<1>9. QED
  BY <1>6, <1>7, <1>8 DEF Estimate

LEMMA EstimateIsNat ==
  ASSUME goal \in Tiles, NEW t \in Tiles
  PROVE  Estimate(t) \in Nat
<1>1. t[1] \in Int /\ t[2] \in Int /\ goal[1] \in Int /\ goal[2] \in Int
  BY SizeAssumption DEF Tiles
<1>2. QED
  BY <1>1 DEF Estimate, Distant

\* The cost of a known tile is a number of steps within the map.
LEMMA CostsFit ==
  ASSUME AInv, NEW t \in DOMAIN nodes
  PROVE  /\ t \in Tiles /\ t \in free /\ nodes[t].g \in Nat /\ nodes[t].g \in 0..Longest
         /\ t \in Within[nodes[t].g] /\ t \in Reachable
<1>1. /\ SearchTypeOK /\ t \in Tiles /\ t \in free /\ nodes[t].g \in Nat
      /\ nodes[t].g <= Cardinality(closed) /\ t \in Within[nodes[t].g]
  BY DEF AInv, IInv, SearchTypeOK, Nodes, CostsReached
<1>2. nodes[t].g \in 0..Longest
  BY <1>1, ClosedFits, LongestIsNat
<1>3. Longest \in 0..Longest /\ nodes[t].g <= Longest
  BY <1>2, LongestIsNat
<1>4. Within[nodes[t].g] \subseteq Within[Longest]
  BY <1>2, <1>3, WithinGrows
<1>5. QED
  BY <1>1, <1>2, <1>4 DEF Reachable

\* While it searches: of a tile within n steps that is not closed, the heap
\* holds an entry as good as a way to it.
LEMMA OpenAhead ==
  ASSUME AInv, Searching, NEW n \in 0..Longest, NEW v \in Within[n], v \notin closed
  PROVE  \E e \in heap : Live(e) /\ e.g + Estimate(e.tile) <= n + Estimate(v)
<1> DEFINE Ahead(k, u) == \E e \in heap : Live(e) /\ e.g + Estimate(e.tile) <= k + Estimate(u)
           Good == { k \in Nat : k \in 0..Longest => \A u \in Within[k] \ closed : Ahead(k, u) }
<1>1. /\ SearchTypeOK /\ goal \in Tiles /\ free \subseteq Tiles /\ start \in DOMAIN nodes
      /\ heap \subseteq Entries /\ closed \subseteq DOMAIN nodes
      /\ \A t \in DOMAIN nodes \ closed : \E e \in heap : e.tile = t /\ e.sequence = nodes[t].sequence
  BY DEF AInv, IInv, SearchTypeOK, Searching, Queued
<1>2. ASSUME NEW t \in DOMAIN nodes \ closed
      PROVE  \E e \in heap : Live(e) /\ e.tile = t /\ e.g = nodes[t].g
  BY <1>1, <1>2 DEF AInv, IInv, EntriesKnown, Live
<1>3. 0 \in Good
  <2>1. ASSUME NEW u \in Within[0] \ closed PROVE Ahead(0, u)
    <3>1. u = start /\ nodes[start].g = 0
      BY <1>1, WithinEquations DEF AInv, IInv, TreeIsSound
    <3>2. PICK e \in heap : Live(e) /\ e.tile = start /\ e.g = 0
      BY <1>1, <1>2, <2>1, <3>1
    <3>3. Estimate(start) \in Nat
      BY <1>1, EstimateIsNat DEF SearchTypeOK
    <3>4. QED
      BY <3>1, <3>2, <3>3
  <2>2. QED
    BY <2>1
<1>4. ASSUME NEW k \in Nat, k \in Good
      PROVE  k + 1 \in Good
  <2>1. SUFFICES ASSUME k + 1 \in 0..Longest, NEW u \in Within[k + 1] \ closed
                 PROVE  Ahead(k + 1, u)
    OBVIOUS
  <2>2. k + 1 \in 1..Longest /\ k \in 0..Longest /\ (k + 1) - 1 = k
    BY <2>1, LongestIsNat
  <2>3. /\ \A w \in Within[k] \ closed : Ahead(k, w)
        /\ Within[k] \subseteq free
    BY <1>1, <1>4, <2>2, WithinIsFree
  <2>4. u \in Within[k] \/ (u \in free /\ \E s \in Within[k] : Adjacent(s, u))
    BY <2>1, <2>2, WithinEquations
  <2>5. \A e \in heap : e.g \in Nat /\ e.tile \in Tiles /\ Estimate(e.tile) \in Nat
    BY <1>1, EstimateIsNat DEF Entries
  <2>6. CASE u \in Within[k]
    <3>1. u \in Tiles /\ Estimate(u) \in Nat
      BY <1>1, <2>3, <2>6, EstimateIsNat
    <3>2. PICK e \in heap : Live(e) /\ e.g + Estimate(e.tile) <= k + Estimate(u)
      BY <2>1, <2>3, <2>6
    <3>3. e.g + Estimate(e.tile) <= (k + 1) + Estimate(u)
      BY <2>5, <3>1, <3>2
    <3>4. QED
      BY <3>2, <3>3
  <2>7. ASSUME u \in free, NEW s \in Within[k], Adjacent(s, u)
        PROVE  Ahead(k + 1, u)
    <3>1. s \in Tiles /\ s \in free /\ u \in Tiles
      BY <1>1, <2>3, <2>7
    <3>2. Estimate(s) \in Nat /\ Estimate(u) \in Nat /\ Estimate(s) <= Estimate(u) + 1
      BY <1>1, <2>7, <3>1, EstimateIsLower
    <3>3. CASE s \notin closed
      <4>1. PICK e \in heap : Live(e) /\ e.g + Estimate(e.tile) <= k + Estimate(s)
        BY <2>3, <3>3
      <4>2. e.g + Estimate(e.tile) <= (k + 1) + Estimate(u)
        BY <2>5, <3>2, <4>1
      <4>3. QED
        BY <4>1, <4>2
    <3>4. CASE s \in closed
      <4>1. u \in DOMAIN nodes /\ nodes[u].g <= nodes[s].g + 1 /\ nodes[s].g <= k
        BY <2>2, <2>7, <3>4 DEF AInv, Relaxed, CostsExact
      <4>2. nodes[u].g \in Nat /\ nodes[s].g \in Nat
        BY <1>1, <3>4, <4>1, CostsFit
      <4>3. PICK e \in heap : Live(e) /\ e.tile = u /\ e.g = nodes[u].g
        BY <1>2, <2>1, <4>1
      <4>4. e.g + Estimate(e.tile) <= (k + 1) + Estimate(u)
        BY <3>2, <4>1, <4>2, <4>3
      <4>5. QED
        BY <4>3, <4>4
    <3>5. QED
      BY <3>3, <3>4
  <2>8. QED
    BY <2>4, <2>6, <2>7
<1>5. Nat \subseteq Good
  <2> HIDE DEF Good
  <2> QED BY <1>3, <1>4, NatSetInduction
<1>6. QED
  BY <1>5, LongestIsNat

\* What the heap gives first was reached in as few steps as there are.
LEMMA LeastIsExact ==
  ASSUME AInv, Searching, NEW e \in heap, Least(e), Live(e),
         NEW m \in 0..Longest, e.tile \in Within[m]
  PROVE  e.g <= m
<1>1. e.tile \notin closed
  BY DEF Live
<1>2. PICK d \in heap : Live(d) /\ d.g + Estimate(d.tile) <= m + Estimate(e.tile)
  BY <1>1, OpenAhead
<1>3. /\ goal \in Tiles /\ e.g \in Nat /\ d.g \in Nat
      /\ Estimate(e.tile) \in Nat /\ Estimate(d.tile) \in Nat
  BY EstimateIsNat DEF AInv, IInv, SearchTypeOK, Entries
<1>4. e.g + Estimate(e.tile) <= d.g + Estimate(d.tile)
  BY <1>3 DEF Least, Less
<1>5. QED
  BY <1>2, <1>3, <1>4, LongestIsNat

LEMMA AInvInit == SearchInit => AInv
<1> SUFFICES ASSUME SearchInit PROVE AInv
  OBVIOUS
<1>1. DOMAIN nodes = {} /\ heap = {} /\ closed = {} /\ IInv
  BY InitEstablishes DEF SearchInit
<1>2. Begun /\ CostsReached /\ CostsExact /\ Relaxed /\ Queued /\ GoalOpen
  BY <1>1 DEF Begun, CostsReached, CostsExact, Relaxed, Queued, GoalOpen
<1>3. QED
  BY <1>1, <1>2 DEF AInv

\* A turn that leaves nodes and closed alone and loses no live entry, unless
\* it answers.
LEMMA QuietAnswers ==
  ASSUME AInv, IInv', UNCHANGED <<query, nodes, closed>>, heap' \subseteq heap,
         answer' = Pending => answer = Pending /\ \A e \in heap \ heap' : ~Live(e)
  PROVE  AInv'
<1>1. Within' = Within /\ start' = start /\ goal' = goal /\ free' = free
  BY WithinStays DEF query
<1>2. Begun' /\ CostsReached' /\ CostsExact' /\ Relaxed' /\ GoalOpen'
  <2>1. Begun'
    BY <1>1 DEF AInv, Begun
  <2>2. CostsReached'
    BY <1>1 DEF AInv, CostsReached
  <2>3. CostsExact'
    BY <1>1 DEF AInv, CostsExact
  <2>4. Relaxed' /\ GoalOpen'
    BY <1>1 DEF AInv, Relaxed, GoalOpen
  <2>5. QED
    BY <2>1, <2>2, <2>3, <2>4
<1>3. Queued'
  <2>1. SUFFICES ASSUME answer' = Pending, NEW t \in DOMAIN nodes \ closed
                 PROVE  \E e \in heap' : e.tile = t /\ e.sequence = nodes[t].sequence
    BY DEF Queued
  <2>2. PICK e \in heap : e.tile = t /\ e.sequence = nodes[t].sequence
    BY <2>1 DEF AInv, Queued
  <2>3. Live(e)
    BY <2>1, <2>2 DEF Live
  <2>4. QED
    BY <2>1, <2>2, <2>3
<1>4. QED
  BY <1>2, <1>3 DEF AInv

LEMMA BeginAnswers ==
  ASSUME AInv, IInv', Begin
  PROVE  AInv'
<1>1. DOMAIN nodes = {} /\ closed = {}
  BY DEF Begin, AInv, IInv, SearchTypeOK
<1>2. /\ nodes' = [t \in {start} |-> [g |-> 0, parent |-> NoTile, sequence |-> 1]]
      /\ heap' = { [tile |-> start, g |-> 0, sequence |-> 1] }
      /\ closed' = {} /\ start # goal /\ goal \in free
      /\ UNCHANGED <<query, answer>>
  BY <1>1 DEF Begin
<1>3. start' = start /\ goal' = goal /\ free' = free /\ Within' = Within
  BY <1>2, WithinStays DEF query
<1>4. /\ DOMAIN nodes' = {start} /\ nodes'[start].g = 0 /\ nodes'[start].sequence = 1
      /\ Cardinality(closed') = 0
  BY <1>2, FS_EmptySet
<1>5. Begun' /\ CostsExact' /\ Relaxed' /\ GoalOpen'
  BY <1>2, <1>3, <1>4 DEF Begun, CostsExact, Relaxed, GoalOpen
<1>6. CostsReached'
  BY <1>3, <1>4, WithinEquations DEF CostsReached
<1>7. Queued'
  BY <1>2, <1>4 DEF Queued
<1>8. QED
  BY <1>5, <1>6, <1>7 DEF AInv

LEMMA ExpandAnswers ==
  ASSUME AInv, IInv', Expand
  PROVE  AInv'
<1>1. PICK e \in heap :
        /\ Least(e) /\ Live(e) /\ e.tile # goal
        /\ nodes' = [t \in DOMAIN nodes \cup Discovered(e) |->
                       IF t \in Discovered(e)
                       THEN LET fresh == CHOOSE f \in Fresh(e) : f.tile = t
                            IN  [g |-> fresh.g, parent |-> e.tile, sequence |-> fresh.sequence]
                       ELSE nodes[t]]
        /\ heap' = (heap \ {e}) \cup Fresh(e)
        /\ closed' = closed \cup {e.tile}
  BY DEF Expand
<1>2. Searching /\ start \in DOMAIN nodes /\ answer = Pending /\ UNCHANGED <<query, answer>>
  BY DEF Expand, Searching
<1>3. /\ SearchTypeOK /\ e.tile \in DOMAIN nodes /\ e.tile \notin closed
      /\ e.tile \in free /\ e.tile \in Tiles
      /\ e.g = nodes[e.tile].g /\ e.g \in Nat
      /\ closed \subseteq DOMAIN nodes /\ DOMAIN nodes \subseteq free /\ free \subseteq Tiles
  BY <1>1 DEF AInv, IInv, SearchTypeOK, EntriesKnown, Live, Entries
<1>4. /\ DOMAIN nodes' = DOMAIN nodes \cup Discovered(e)
      /\ \A t \in DOMAIN nodes \ Discovered(e) : nodes'[t] = nodes[t]
      /\ \A t \in Discovered(e) : \E f \in Fresh(e) :
           /\ f.tile = t
           /\ nodes'[t] = [g |-> f.g, parent |-> e.tile, sequence |-> f.sequence]
  BY <1>1, NodesExpanded
<1>5. \A f \in Fresh(e) :
        /\ f.tile \in free \ (closed \cup {e.tile})
        /\ Adjacent(e.tile, f.tile)
        /\ f.tile \in DOMAIN nodes => e.g + 1 < nodes[f.tile].g
        /\ f.g = e.g + 1
  BY <1>3, FreshEntries
<1>6. \A t \in Discovered(e) :
        /\ t \in free /\ t \notin closed /\ t # e.tile /\ Adjacent(e.tile, t)
        /\ nodes'[t].g = e.g + 1
        /\ t \in DOMAIN nodes => e.g + 1 < nodes[t].g
        /\ \E f \in heap' : f.tile = t /\ f.sequence = nodes'[t].sequence
  <2>1. ASSUME NEW t \in Discovered(e)
        PROVE  /\ t \in free /\ t \notin closed /\ t # e.tile /\ Adjacent(e.tile, t)
               /\ nodes'[t].g = e.g + 1
               /\ t \in DOMAIN nodes => e.g + 1 < nodes[t].g
               /\ \E f \in heap' : f.tile = t /\ f.sequence = nodes'[t].sequence
    <3>1. PICK f \in Fresh(e) :
            f.tile = t /\ nodes'[t] = [g |-> f.g, parent |-> e.tile, sequence |-> f.sequence]
      BY <1>4, <2>1
    <3>2. f \in heap'
      BY <1>1
    <3>3. QED
      BY <1>5, <3>1, <3>2
  <2>2. QED
    BY <2>1
<1>7. start' = start /\ goal' = goal /\ free' = free /\ Within' = Within /\ answer' = answer
  BY <1>2, WithinStays DEF query
<1>8. /\ Cardinality(closed) \in 0..Longest /\ Cardinality(closed') = Cardinality(closed) + 1
      /\ Cardinality(closed') \in 0..Longest
  <2>1. IsFiniteSet(closed) /\ Cardinality(closed) \in 0..Longest
    BY <1>3, ClosedFits
  <2>2. Cardinality(closed \cup {e.tile}) = Cardinality(closed) + 1
    BY <1>3, <2>1, FS_AddElement
  <2>3. closed' \in SUBSET Tiles
    BY <1>1, <1>3
  <2>4. Cardinality(closed') <= Longest
    BY <2>3, TilesAreFinite, FS_Subset
  <2>5. QED
    BY <1>1, <2>1, <2>2, <2>4, LongestIsNat
<1>9. /\ e.g <= Cardinality(closed) /\ e.tile \in Within[e.g]
      /\ e.g \in 0..Longest /\ e.g + 1 \in 1..Longest /\ e.g + 1 \in 0..Longest
  <2>1. e.g <= Cardinality(closed) /\ e.tile \in Within[e.g]
    BY <1>3 DEF AInv, CostsReached
  <2>2. QED
    BY <1>3, <1>8, <2>1, LongestIsNat
<1>10. \A t \in free : Adjacent(e.tile, t) => t \in Within[e.g + 1]
  <2>1. Within[e.g + 1] = Within[(e.g + 1) - 1]
          \cup { t \in free : \E s \in Within[(e.g + 1) - 1] : Adjacent(s, t) }
    BY <1>9, WithinEquations
  <2>2. (e.g + 1) - 1 = e.g
    BY <1>3
  <2>3. QED
    BY <1>9, <2>1, <2>2
<1>11. \A s \in closed : nodes'[s] = nodes[s]
  BY <1>3, <1>4, <1>6
<1>12. nodes'[e.tile] = nodes[e.tile]
  BY <1>3, <1>4, <1>6
<1>13. Begun'
  BY <1>2, <1>4, <1>7, <1>3 DEF AInv, Begun
<1>14. CostsReached'
  <2>1. ASSUME NEW t \in DOMAIN nodes'
        PROVE  nodes'[t].g <= Cardinality(closed') /\ t \in Within[nodes'[t].g]
    <3>1. CASE t \in Discovered(e)
      BY <1>3, <1>6, <1>8, <1>9, <1>10, <3>1
    <3>2. CASE t \notin Discovered(e)
      <4>1. t \in DOMAIN nodes /\ nodes'[t] = nodes[t]
        BY <1>4, <3>2
      <4>2. nodes[t].g \in Nat /\ nodes[t].g <= Cardinality(closed) /\ t \in Within[nodes[t].g]
        BY <4>1, CostsFit DEF AInv, CostsReached
      <4>3. QED
        BY <1>8, <4>1, <4>2
    <3>3. QED
      BY <3>1, <3>2
  <2>2. QED
    BY <1>7, <2>1 DEF CostsReached
<1>15. CostsExact'
  <2>1. ASSUME NEW t \in closed', NEW m \in 0..Longest, t \in Within[m]
        PROVE  nodes'[t].g <= m
    <3>1. CASE t \in closed
      BY <1>11, <2>1, <3>1 DEF AInv, CostsExact
    <3>2. CASE t = e.tile
      <4>1. e.g <= m
        BY <1>1, <1>2, <2>1, <3>2, LeastIsExact
      <4>2. QED
        BY <1>3, <1>12, <3>2, <4>1
    <3>3. QED
      BY <1>1, <3>1, <3>2
  <2>2. QED
    BY <1>7, <2>1 DEF CostsExact
<1>16. Relaxed'
  <2>1. ASSUME NEW s \in closed', NEW t \in free, Adjacent(s, t)
        PROVE  t \in DOMAIN nodes' /\ nodes'[t].g <= nodes'[s].g + 1
    <3>1. CASE s \in closed
      <4>1. t \in DOMAIN nodes /\ nodes[t].g <= nodes[s].g + 1
        BY <2>1, <3>1 DEF AInv, Relaxed
      <4>2. nodes[t].g \in Nat /\ nodes[s].g \in Nat
        BY <1>3, <3>1, <4>1, CostsFit
      <4>3. nodes'[t].g <= nodes[t].g
        BY <1>3, <1>4, <1>6, <4>1, <4>2
      <4>4. nodes'[t].g \in Nat
        BY <1>3, <1>4, <1>6, <4>1, <4>2
      <4>5. QED
        BY <1>4, <1>11, <3>1, <4>1, <4>2, <4>3, <4>4
    <3>2. CASE s = e.tile
      <4>1. nodes'[s].g = e.g
        BY <1>3, <1>12, <3>2
      <4>2. CASE t \in Discovered(e)
        BY <1>3, <1>4, <1>6, <4>1, <4>2
      <4>3. CASE t \in closed
        <5>1. nodes[t].g <= e.g + 1
          BY <1>9, <1>10, <2>1, <3>2, <4>3 DEF AInv, CostsExact
        <5>2. QED
          BY <1>3, <1>4, <1>11, <4>1, <4>3, <5>1
      <4>4. CASE t = e.tile
        BY <1>3, <1>4, <1>12, <4>1, <4>4
      <4>5. CASE t \notin Discovered(e) /\ t \notin closed /\ t # e.tile
        <5>1. PICK i \in DOMAIN Offsets : t = Beside(e.tile, i)
          BY <2>1, <3>2 DEF Adjacent
        <5>2. ~Improves(e, i)
          <6>1. SUFFICES ASSUME Improves(e, i) PROVE FALSE
            OBVIOUS
          <6> DEFINE f == [tile |-> Beside(e.tile, i), g |-> e.g + 1, sequence |-> Numbered(e, i)]
          <6>2. f \in Fresh(e) /\ f.tile = t
            BY <5>1, <6>1 DEF Fresh, Ways
          <6> HIDE DEF f
          <6>3. t \in Discovered(e)
            BY <6>2 DEF Discovered
          <6>4. QED
            BY <4>5, <6>3
        <5>3. t \in DOMAIN nodes /\ ~(e.g + 1 < nodes[t].g)
          BY <2>1, <4>5, <5>1, <5>2 DEF Improves
        <5>4. nodes[t].g \in Nat
          BY <5>3, CostsFit
        <5>5. nodes'[t] = nodes[t] /\ t \in DOMAIN nodes'
          BY <1>4, <4>5, <5>3
        <5>6. nodes[t].g <= e.g + 1
          BY <1>3, <5>3, <5>4
        <5>7. QED
          BY <4>1, <5>5, <5>6
      <4>6. QED
        BY <4>2, <4>3, <4>4, <4>5
    <3>3. QED
      BY <1>1, <3>1, <3>2
  <2>2. QED
    BY <1>7, <2>1 DEF Relaxed
<1>17. Queued'
  <2>1. ASSUME NEW t \in DOMAIN nodes' \ closed'
        PROVE  \E f \in heap' : f.tile = t /\ f.sequence = nodes'[t].sequence
    <3>1. CASE t \in Discovered(e)
      BY <1>6, <3>1
    <3>2. CASE t \notin Discovered(e)
      <4>1. t \in DOMAIN nodes /\ nodes'[t] = nodes[t] /\ t \notin closed /\ t # e.tile
        BY <1>1, <1>4, <2>1, <3>2
      <4>2. PICK f \in heap : f.tile = t /\ f.sequence = nodes[t].sequence
        BY <1>2, <4>1 DEF AInv, Queued
      <4>3. f \in heap'
        BY <1>1, <4>1, <4>2
      <4>4. QED
        BY <4>1, <4>2, <4>3
    <3>3. QED
      BY <3>1, <3>2
  <2>2. QED
    BY <2>1 DEF Queued
<1>18. GoalOpen'
  BY <1>1, <1>2, <1>7 DEF AInv, GoalOpen
<1>19. QED
  BY <1>13, <1>14, <1>15, <1>16, <1>17, <1>18 DEF AInv

LEMMA AInvStep == AInv /\ [SearchNext]_vars => AInv'
<1> SUFFICES ASSUME AInv, [SearchNext]_vars PROVE AInv'
  OBVIOUS
<1>1. IInv'
  BY StepPreserves DEF AInv
<1>2. CASE Refuse
  <2>1. UNCHANGED <<query, nodes, closed>> /\ heap' = heap
    BY <1>2 DEF Refuse, search
  <2>2. answer' # Pending
    BY <1>2, AnAnswerIsNotPending, Zenon DEF Refuse
  <2>3. QED
    BY <1>1, <2>1, <2>2, QuietAnswers
<1>3. CASE Begin
  BY <1>1, <1>3, BeginAnswers
<1>4. CASE Skip
  <2>1. PICK e \in heap : ~Live(e) /\ heap' = heap \ {e}
    BY <1>4 DEF Skip
  <2>2. UNCHANGED <<query, nodes, closed>> /\ answer' = answer /\ answer = Pending
    BY <1>4 DEF Skip, Searching
  <2>3. heap' \subseteq heap /\ \A d \in heap \ heap' : ~Live(d)
    BY <2>1
  <2>4. QED
    BY <1>1, <2>2, <2>3, QuietAnswers
<1>5. CASE Expand
  BY <1>1, <1>5, ExpandAnswers
<1>6. CASE Arrive
  <2>1. UNCHANGED <<query, nodes, closed>> /\ heap' \subseteq heap
    BY <1>6 DEF Arrive
  <2>2. answer' # Pending
    BY <1>6, AnAnswerIsNotPending, Zenon DEF Arrive
  <2>3. QED
    BY <1>1, <2>1, <2>2, QuietAnswers
<1>7. CASE GiveUp
  <2>1. UNCHANGED <<query, nodes, closed>> /\ heap' \subseteq heap
    BY <1>7 DEF GiveUp
  <2>2. answer' # Pending
    BY <1>7, AnAnswerIsNotPending, Zenon DEF GiveUp
  <2>3. QED
    BY <1>1, <2>1, <2>2, QuietAnswers
<1>8. CASE Exhaust
  <2>1. UNCHANGED <<query, nodes, closed>> /\ heap' = heap
    BY <1>8 DEF Exhaust, search
  <2>2. answer' # Pending
    BY <1>8, AnAnswerIsNotPending, Zenon DEF Exhaust
  <2>3. QED
    BY <1>1, <2>1, <2>2, QuietAnswers
<1>9. CASE UNCHANGED vars
  <2>1. UNCHANGED <<query, nodes, closed>> /\ heap' = heap /\ answer' = answer
    BY <1>9 DEF vars, query
  <2>2. QED
    BY <1>1, <2>1, QuietAnswers
<1>10. QED
  BY <1>2, <1>3, <1>4, <1>5, <1>6, <1>7, <1>8, <1>9 DEF SearchNext

-----------------------------------------------------------------------------
(* reconstruct, and how far the goal is.                                   *)
TraceStep(path, t) ==
    IF nodes[t].parent = NoTile THEN <<>> ELSE Append(path[nodes[t].parent], t)

\* A route from the start to t, of as many steps as t cost.
LeadsTo(route, t) ==
    /\ route \in Seq(free) /\ Len(route) = nodes[t].g
    /\ \A i \in 1..Len(route) :
         Adjacent(IF i = 1 THEN start ELSE route[i - 1], route[i])
    /\ IF route = <<>> THEN t = start ELSE route[Len(route)] = t

LEMMA ParentsAreNearer ==
  ASSUME AInv, NEW t \in DOMAIN nodes, t # start
  PROVE  /\ nodes[t].parent \in DOMAIN nodes /\ nodes[t].parent # NoTile
         /\ nodes[t].parent \in Tiles /\ Adjacent(nodes[t].parent, t)
         /\ nodes[t].g = nodes[nodes[t].parent].g + 1
         /\ nodes[t].g \in Nat /\ nodes[nodes[t].parent].g \in Nat
<1>1. /\ nodes[t].parent \in closed /\ Adjacent(nodes[t].parent, t)
      /\ nodes[t].g = nodes[nodes[t].parent].g + 1
  BY DEF AInv, IInv, TreeIsSound
<1>2. nodes[t].parent \in DOMAIN nodes
  BY <1>1 DEF AInv, IInv, SearchTypeOK
<1>3. nodes[t].parent \in Tiles /\ nodes[nodes[t].parent].g \in Nat /\ nodes[t].g \in Nat
  BY <1>2, CostsFit
<1>4. QED
  BY <1>1, <1>2, <1>3, NoTileAssumption

\* The recursion of reconstruct ends on the tree of parents.
LEMMA TraceExists ==
  ASSUME AInv
  PROVE  \E path : path = [t \in DOMAIN nodes |-> TraceStep(path, t)]
<1> DEFINE Near(k) == { t \in DOMAIN nodes : nodes[t].g <= k }
           Solved(k) == \E path : path = [t \in Near(k) |-> TraceStep(path, t)]
           Good == { k \in Nat : Solved(k) }
<1>1. \A t \in DOMAIN nodes : nodes[t].g \in 0..Longest
  BY CostsFit
<1>2. Solved(0)
  <2>1. ASSUME NEW t \in Near(0) PROVE nodes[t].parent = NoTile
    <3>1. nodes[t].g = 0
      BY <1>1, <2>1, LongestIsNat
    <3>2. t = start
      BY <2>1, <3>1, ParentsAreNearer
    <3>3. QED
      BY <2>1, <3>2 DEF AInv, IInv, TreeIsSound
  <2> DEFINE path == [t \in Near(0) |-> <<>>]
  <2>2. path = [t \in Near(0) |-> TraceStep(path, t)]
    <3> HIDE DEF Near
    <3> QED BY <2>1 DEF TraceStep
  <2> HIDE DEF path
  <2>3. QED
    BY <2>2
<1>3. ASSUME NEW k \in Nat, Solved(k)
      PROVE  Solved(k + 1)
  <2>1. PICK path : path = [t \in Near(k) |-> TraceStep(path, t)]
    BY <1>3
  <2> DEFINE more == [t \in Near(k + 1) |-> TraceStep(path, t)]
  <2>2. \A t \in Near(k) : t \in Near(k + 1) /\ more[t] = path[t]
    <3>1. \A t \in Near(k) : t \in Near(k + 1)
      BY <1>1, LongestIsNat
    <3> HIDE DEF Near
    <3> QED BY <2>1, <3>1
  <2>3. ASSUME NEW t \in Near(k + 1)
        PROVE  TraceStep(path, t) = TraceStep(more, t)
    <3>1. CASE t = start
      <4>1. nodes[t].parent = NoTile
        BY <2>3, <3>1 DEF AInv, IInv, TreeIsSound
      <4>2. QED
        BY <4>1 DEF TraceStep
    <3>2. CASE t # start
      <4>1. nodes[t].parent \in Near(k)
        BY <2>3, <3>2, ParentsAreNearer
      <4>2. more[nodes[t].parent] = path[nodes[t].parent]
        BY <2>2, <4>1
      <4> HIDE DEF more
      <4>3. QED
        BY <4>2 DEF TraceStep
    <3>3. QED
      BY <3>1, <3>2
  <2>4. more = [t \in Near(k + 1) |-> TraceStep(more, t)]
    BY <2>3
  <2> HIDE DEF more
  <2>5. QED
    BY <2>4
<1>4. Longest \in Good
  <2>1. 0 \in Good /\ \A k \in Nat : k \in Good => k + 1 \in Good
    <3> HIDE DEF Solved
    <3> QED BY <1>2, <1>3
  <2> HIDE DEF Good
  <2>2. Nat \subseteq Good
    BY <2>1, NatSetInduction
  <2>3. QED
    BY <2>2, LongestIsNat
<1>5. Near(Longest) = DOMAIN nodes
  BY <1>1, LongestIsNat
<1>6. QED
  BY <1>4, <1>5

\* A step more.
LEMMA RouteGrows ==
  ASSUME AInv, NEW t \in DOMAIN nodes, t # start, NEW route, LeadsTo(route, nodes[t].parent)
  PROVE  LeadsTo(Append(route, t), t)
<1> DEFINE longer == Append(route, t)
<1>1. t \in free /\ route \in Seq(free) /\ Len(route) \in Nat
  BY CostsFit DEF LeadsTo
<1>2. /\ longer \in Seq(free) /\ Len(longer) = Len(route) + 1
      /\ longer[Len(route) + 1] = t
      /\ \A i \in 1..Len(route) : longer[i] = route[i]
  BY <1>1
<1> HIDE DEF longer
<1>3. Len(longer) = nodes[t].g
  BY <1>2, ParentsAreNearer DEF LeadsTo
<1>4. Adjacent(nodes[t].parent, t)
  BY ParentsAreNearer
<1>5. ASSUME NEW i \in 1..Len(longer)
      PROVE  Adjacent(IF i = 1 THEN start ELSE longer[i - 1], longer[i])
  <2>1. CASE i \in 1..Len(route)
    <3>1. longer[i] = route[i] /\ (i # 1 => i - 1 \in 1..Len(route))
      BY <1>1, <1>2, <2>1
    <3>2. i # 1 => longer[i - 1] = route[i - 1]
      BY <1>2, <3>1
    <3>3. QED
      BY <2>1, <3>1, <3>2 DEF LeadsTo
  <2>2. CASE i = Len(route) + 1
    <3>1. longer[i] = t
      BY <1>2, <2>2
    <3>2. CASE i = 1
      <4>1. route = <<>>
        BY <1>1, <2>2, <3>2
      <4>2. nodes[t].parent = start
        BY <4>1 DEF LeadsTo
      <4>3. QED
        BY <1>4, <3>1, <3>2, <4>2
    <3>3. CASE i # 1
      <4>1. i - 1 = Len(route) /\ i - 1 \in 1..Len(route) /\ route # <<>>
        BY <1>1, <2>2, <3>3
      <4>2. longer[i - 1] = nodes[t].parent
        BY <1>2, <4>1 DEF LeadsTo
      <4>3. QED
        BY <1>4, <3>1, <3>3, <4>2
    <3>4. QED
      BY <3>2, <3>3
  <2>3. QED
    BY <1>1, <1>2, <1>5, <2>1, <2>2
<1>6. longer # <<>> /\ longer[Len(longer)] = t
  BY <1>1, <1>2
<1>7. LeadsTo(longer, t)
  BY <1>2, <1>3, <1>5, <1>6 DEF LeadsTo
<1>8. QED
  BY <1>7 DEF longer

\* reconstruct returns a route to any tile that is known.
LEMMA TracedLeads ==
  ASSUME AInv, NEW t \in DOMAIN nodes
  PROVE  LeadsTo(Traced(t), t)
<1> DEFINE path == CHOOSE p : p = [s \in DOMAIN nodes |-> TraceStep(p, s)]
           Good == { k \in Nat : \A s \in DOMAIN nodes : nodes[s].g = k => LeadsTo(path[s], s) }
<1>1. Traced(t) = path[t]
  BY DEF Traced, TraceStep
<1>2. path = [s \in DOMAIN nodes |-> TraceStep(path, s)]
  BY TraceExists
<1> HIDE DEF path
<1>3. ASSUME NEW s \in DOMAIN nodes, s = start
      PROVE  LeadsTo(path[s], s)
  <2>1. nodes[s].parent = NoTile /\ nodes[s].g = 0
    BY <1>3 DEF AInv, IInv, TreeIsSound
  <2>2. path[s] = <<>>
    BY <1>2, <2>1 DEF TraceStep
  <2>3. QED
    BY <1>3, <2>1, <2>2 DEF LeadsTo
<1>4. 0 \in Good
  <2>1. ASSUME NEW s \in DOMAIN nodes, nodes[s].g = 0
        PROVE  s = start
    BY <2>1, ParentsAreNearer
  <2>2. QED
    BY <1>3, <2>1
<1>5. ASSUME NEW k \in Nat, k \in Good
      PROVE  k + 1 \in Good
  <2>1. SUFFICES ASSUME NEW s \in DOMAIN nodes, nodes[s].g = k + 1
                 PROVE  LeadsTo(path[s], s)
    OBVIOUS
  <2>2. CASE s = start
    BY <1>3, <2>2
  <2>3. CASE s # start
    <3>1. /\ nodes[s].parent \in DOMAIN nodes /\ nodes[s].parent # NoTile
          /\ nodes[nodes[s].parent].g = k
      BY <2>1, <2>3, ParentsAreNearer
    <3>2. LeadsTo(path[nodes[s].parent], nodes[s].parent)
      BY <1>5, <3>1
    <3>3. path[s] = Append(path[nodes[s].parent], s)
      BY <1>2, <3>1 DEF TraceStep
    <3>4. QED
      BY <2>3, <3>2, <3>3, RouteGrows
  <2>4. QED
    BY <2>2, <2>3
<1>6. Nat \subseteq Good
  <2> HIDE DEF Good
  <2> QED BY <1>4, <1>5, NatSetInduction
<1>7. nodes[t].g \in Nat
  BY CostsFit
<1>8. QED
  BY <1>1, <1>6, <1>7

\* A tile is as far as the least number of steps it is within.
LEMMA DistanceIs ==
  ASSUME NEW t, NEW n \in 0..Longest, t \in Within[n],
         \A m \in 0..Longest : t \in Within[m] => n <= m
  PROVE  Distance(t) = n
<1> DEFINE Just(k) == t \in Within[k] /\ (k > 0 => t \notin Within[k - 1])
<1>1. Just(n)
  <2>1. n > 0 => n - 1 \in 0..Longest /\ ~(n <= n - 1)
    BY LongestIsNat
  <2>2. QED
    BY <2>1
<1>2. ASSUME NEW k \in 0..Longest, Just(k)
      PROVE  k = n
  <2>1. n <= k
    BY <1>2
  <2>2. CASE n < k
    <3>1. k - 1 \in 0..Longest /\ n <= k - 1 /\ k > 0
      BY <2>2, LongestIsNat
    <3>2. Within[n] \subseteq Within[k - 1]
      BY <3>1, WithinGrows
    <3>3. QED
      BY <1>2, <3>1, <3>2
  <2>3. QED
    BY <2>1, <2>2, LongestIsNat
<1>3. Distance(t) = CHOOSE k \in 0..Longest : Just(k)
  BY DEF Distance
<1> HIDE DEF Just
<1>4. (CHOOSE k \in 0..Longest : Just(k)) = n
  BY <1>1, <1>2
<1>5. QED
  BY <1>3, <1>4

-----------------------------------------------------------------------------
(* Each answer is right.                                                   *)
LEMMA RefusalIsRight ==
  ASSUME Refuse
  PROVE  Right(answer')
BY DEF Refuse, Right

LEMMA ArrivalIsRight ==
  ASSUME AInv, Arrive
  PROVE  Right(answer')
<1>1. PICK e \in heap : /\ Least(e) /\ Live(e) /\ e.tile = goal
                        /\ answer' = Found(Traced(goal))
  BY DEF Arrive
<1>2. Searching /\ start \in DOMAIN nodes
  BY DEF Arrive, Searching
<1>3. start # goal /\ goal \in free
  BY <1>2 DEF AInv, Begun
<1>4. goal \in DOMAIN nodes /\ e.g = nodes[goal].g
  BY <1>1 DEF AInv, IInv, EntriesKnown, Live
<1>5. /\ e.g \in 0..Longest /\ goal \in Within[e.g] /\ goal \in Reachable
      /\ \A m \in 0..Longest : goal \in Within[m] => e.g <= m
  BY <1>1, <1>2, <1>4, CostsFit, LeastIsExact
<1>6. Distance(goal) = e.g
  BY <1>5, DistanceIs
<1> DEFINE route == Traced(goal)
<1>7. LeadsTo(route, goal)
  BY <1>4, TracedLeads
<1>8. answer'.success /\ answer'.path = route
  BY <1>1 DEF Found
<1> HIDE DEF route
<1>9. IsRoute(route) /\ Len(route) = Distance(goal)
  BY <1>4, <1>6, <1>7 DEF LeadsTo, IsRoute
<1>10. QED
  BY <1>3, <1>5, <1>8, <1>9 DEF Right

LEMMA ExhaustionIsRight ==
  ASSUME AInv, Exhaust
  PROVE  Right(answer')
<1>1. Searching /\ start \in DOMAIN nodes /\ answer = Pending /\ heap = {}
      /\ answer' = Failed("no_path")
  BY DEF Exhaust, Searching
<1>2. start # goal /\ goal \in free /\ goal \notin closed
  BY <1>1 DEF AInv, Begun, GoalOpen
<1>3. goal \notin Reachable
  <2>1. Longest \in 0..Longest
    BY LongestIsNat
  <2>2. SUFFICES ASSUME goal \in Within[Longest] PROVE FALSE
    BY DEF Reachable
  <2>3. \E e \in heap : Live(e) /\ e.g + Estimate(e.tile) <= Longest + Estimate(goal)
    BY <1>1, <1>2, <2>1, <2>2, OpenAhead
  <2>4. QED
    BY <1>1, <2>3
<1>4. QED
  BY <1>1, <1>2, <1>3 DEF Right

LEMMA SurrenderIsRight ==
  ASSUME AInv, GiveUp
  PROVE  Right(answer')
<1>1. PICK e \in heap : Live(e) /\ Exceeded
  BY DEF GiveUp
<1>2. /\ Searching /\ start \in DOMAIN nodes /\ answer = Pending
      /\ answer' = Failed("search_limit")
  BY DEF GiveUp, Searching
<1>3. start # goal /\ goal \in free
  BY <1>2 DEF AInv, Begun
<1>4. SearchTypeOK /\ e.tile \in DOMAIN nodes /\ e.tile \notin closed /\ visited = Cardinality(closed)
  BY <1>1, <1>2 DEF AInv, IInv, EntriesKnown, Live, Counted
<1>5. IsFiniteSet(closed) /\ Cardinality(closed) \in Nat /\ MaxNodes <= Cardinality(closed)
  BY <1>1, <1>4, ClosedFits, LongestIsNat DEF Exceeded
<1>6. closed \cup {e.tile} \subseteq Reachable
  BY <1>4, CostsFit DEF SearchTypeOK
<1>7. Cardinality(closed \cup {e.tile}) = Cardinality(closed) + 1
  BY <1>4, <1>5, FS_AddElement
<1>8. IsFiniteSet(Reachable)
  <2>1. Reachable \in SUBSET Tiles
    BY <1>4, WithinIsFree, LongestIsNat DEF Reachable, SearchTypeOK
  <2>2. QED
    BY <2>1, TilesAreFinite, FS_Subset
<1>9. Cardinality(Reachable) \in Nat /\ Cardinality(closed) + 1 <= Cardinality(Reachable)
  BY <1>6, <1>7, <1>8, FS_Subset, FS_CardinalityType
<1>10. Cardinality(Reachable) > MaxNodes
  BY <1>5, <1>9, SizeAssumption
<1>11. QED
  BY <1>2, <1>3, <1>10 DEF Right

LEMMA SearchAnswers == AInv /\ [SearchNext]_vars => [Next]_<<start, goal, free, answer>>
<1> SUFFICES ASSUME AInv, [SearchNext]_vars
             PROVE  [Next]_<<start, goal, free, answer>>
  OBVIOUS
<1>1. CASE Refuse
  <2>1. answer = Pending /\ answer' # Pending /\ UNCHANGED query
    BY <1>1, AnAnswerIsNotPending, Zenon DEF Refuse
  <2>2. QED
    BY <1>1, <2>1, RefusalIsRight DEF Next
<1>2. CASE Begin \/ Skip \/ Expand
  BY <1>2 DEF Begin, Skip, Expand, query
<1>3. CASE Arrive
  <2>1. answer = Pending /\ answer' # Pending /\ UNCHANGED query
    BY <1>3, AnAnswerIsNotPending, Zenon DEF Arrive, Searching
  <2>2. QED
    BY <1>3, <2>1, ArrivalIsRight DEF Next
<1>4. CASE GiveUp
  <2>1. answer = Pending /\ answer' # Pending /\ UNCHANGED query
    BY <1>4, AnAnswerIsNotPending, Zenon DEF GiveUp, Searching
  <2>2. QED
    BY <1>4, <2>1, SurrenderIsRight DEF Next
<1>5. CASE Exhaust
  <2>1. answer = Pending /\ answer' # Pending /\ UNCHANGED query
    BY <1>5, AnAnswerIsNotPending, Zenon DEF Exhaust, Searching
  <2>2. QED
    BY <1>5, <2>1, ExhaustionIsRight DEF Next
<1>6. CASE UNCHANGED vars
  BY <1>6 DEF vars
<1>7. QED
  BY <1>1, <1>2, <1>3, <1>4, <1>5, <1>6 DEF SearchNext

\* On every map, from every tile to every other and for every limit, what
\* find_path answers is right: a route it returns leads from the start to the
\* goal over walkable tiles in as few steps as there are, it says no_path only
\* when the goal is cut off and search_limit only when there are more tiles to
\* reach than max_nodes. This is ImplementsQuery but for the promise that it
\* answers at all.
THEOREM AnswersAreRight == SearchSpec => Init /\ [][Next]_<<start, goal, free, answer>>
<1>1. SearchInit => Init
  BY DEF SearchInit
<1>2. QED
  BY <1>1, AInvInit, AInvStep, SearchAnswers, PTL DEF SearchSpec

-----------------------------------------------------------------------------
(* The length of a search. It has a turn to take as long as it owes an     *)
(* answer, and every turn brings the answer nearer.                        *)

\* less orders the entries totally only as long as no two have the same
\* number.
EntriesApart ==
    /\ IsFiniteSet(heap)
    /\ \A d, e \in heap : d.sequence = e.sequence => d = e

\* Whether find_path is still before its first push.
Unbegun == DOMAIN nodes = {}

\* An upper bound on the turns before the answer. An expansion pushes four
\* entries at most and closes a tile for good.
TurnsLeft ==
    (IF answer = Pending THEN 1 ELSE 0) + (IF Unbegun THEN 2 ELSE 0)
        + Cardinality(heap) + 4 * (Cardinality(free) - Cardinality(closed))

\* The loop has an entry to pop, or nothing to do but to answer.
MayTurn == Unbegun \/ (Searching /\ (heap = {} \/ \E e \in heap : Least(e)))

TInv == AInv /\ EntriesApart

LEMMA SmallestNat ==
  ASSUME NEW Q \in SUBSET Nat, Q # {}
  PROVE  \E m \in Q : \A k \in Q : m <= k
<1> DEFINE R == {ss \in Nat \X Nat : ss[1] < ss[2]}
<1>1. IsWellFoundedOn(R, Nat)
  BY NatLessThanWellFounded DEF OpToRel
<1>2. PICK m \in Q : \A k \in Q : <<k, m>> \notin R
  BY <1>1, WFMin
<1>3. ASSUME NEW k \in Q PROVE m <= k
  <2>1. m \in Nat /\ k \in Nat /\ <<k, m>> \notin R
    BY <1>2
  <2>2. k < m => <<k, m>> \in R
    BY <2>1
  <2>3. QED
    BY <2>1, <2>2
<1>4. QED
  BY <1>3

\* No two ways out of a tile get the same number.
LEMMA NumbersApart ==
  ASSUME NEW e, NEW i \in Ways(e), NEW k \in Ways(e), sequence \in Nat,
         Numbered(e, i) = Numbered(e, k)
  PROVE  i = k
<1>1. Ways(e) \subseteq 1..4 /\ IsFiniteSet(Ways(e))
  <2>1. DOMAIN Offsets = 1..4
    BY DEF Offsets
  <2>2. IsFiniteSet(1..4)
    <3>1. 1 \in Int /\ 4 \in Int
      OBVIOUS
    <3>2. QED
      BY <3>1, FS_Interval, Zenon
  <2>3. Ways(e) \subseteq 1..4
    BY <2>1 DEF Ways
  <2>4. QED
    BY <2>2, <2>3, FS_Subset
<1>2. ASSUME NEW a \in Ways(e), NEW b \in Ways(e), a < b
      PROVE  Numbered(e, a) # Numbered(e, b)
  <2> DEFINE upto(n) == { j \in Ways(e) : j <= n }
  <2>1. IsFiniteSet(upto(b)) /\ upto(a) \in SUBSET upto(b) /\ b \in upto(b) \ upto(a)
    <3>1. upto(b) \in SUBSET Ways(e)
      OBVIOUS
    <3>2. IsFiniteSet(upto(b))
      BY <1>1, <3>1, FS_Subset
    <3>3. a \in 1..4 /\ b \in 1..4
      BY <1>1
    <3>4. QED
      BY <1>1, <1>2, <3>2, <3>3
  <2> HIDE DEF upto
  <2>2. IsFiniteSet(upto(a)) /\ Cardinality(upto(a)) # Cardinality(upto(b))
    BY <2>1, FS_Subset
  <2>3. Cardinality(upto(a)) \in Nat /\ Cardinality(upto(b)) \in Nat
    BY <2>1, <2>2, FS_CardinalityType
  <2>4. Numbered(e, a) = sequence + Cardinality(upto(a)) /\ Numbered(e, b) = sequence + Cardinality(upto(b))
    BY DEF Numbered, upto
  <2>5. QED
    BY <2>2, <2>3, <2>4
<1>3. i \in Int /\ k \in Int
  BY <1>1
<1>4. QED
  BY <1>2, <1>3

LEMMA FreshIsSmall ==
  ASSUME NEW e
  PROVE  IsFiniteSet(Fresh(e)) /\ Cardinality(Fresh(e)) \in 0..4
<1> DEFINE W == Ways(e)
           pushed == [i \in W |-> [tile |-> Beside(e.tile, i), g |-> e.g + 1, sequence |-> Numbered(e, i)]]
<1>1. W \in SUBSET (1..4)
  BY DEF Ways, Offsets
<1>2. IsFiniteSet(W) /\ Cardinality(W) <= 4
  <2>1. 1 \in Int /\ 4 \in Int
    OBVIOUS
  <2>2. IsFiniteSet(1..4) /\ Cardinality(1..4) = (IF 1 > 4 THEN 0 ELSE 4 - 1 + 1)
    BY <2>1, FS_Interval, Zenon
  <2>3. QED
    BY <1>1, <2>2, FS_Subset
<1>3. Fresh(e) = { pushed[i] : i \in W }
  BY DEF Fresh
<1> HIDE DEF W
<1>4. DOMAIN pushed = W
  OBVIOUS
<1> HIDE DEF pushed
<1>5. pushed \in Surjection(W, Fresh(e))
  BY <1>3, <1>4 DEF Surjection, pushed
<1>6. IsFiniteSet(Fresh(e)) /\ Cardinality(Fresh(e)) <= Cardinality(W)
  BY <1>2, <1>5, FS_Surjection
<1>7. Cardinality(Fresh(e)) \in Nat /\ Cardinality(W) \in Nat
  BY <1>2, <1>6, FS_CardinalityType
<1>8. QED
  BY <1>2, <1>6, <1>7

\* Of any entries on the heap, one is less than all others.
LEMMA LeastExists ==
  ASSUME AInv, EntriesApart, heap # {}
  PROVE  \E e \in heap : Least(e)
<1>1. \A e \in heap : e.g \in Nat /\ e.sequence \in Nat /\ Estimate(e.tile) \in Nat
  BY EstimateIsNat DEF AInv, IInv, SearchTypeOK, Entries
<1> DEFINE Total(e) == e.g + Estimate(e.tile)
           totals == { Total(e) : e \in heap }
<1>2. PICK f \in totals : \A k \in totals : f <= k
  <2>1. \A e \in heap : Total(e) \in Nat
    BY <1>1
  <2>2. totals \in SUBSET Nat /\ totals # {}
    BY <2>1
  <2>3. QED
    BY <2>2, SmallestNat
<1>3. f \in Nat /\ \A e \in heap : Total(e) \in Nat /\ f <= Total(e)
  BY <1>1, <1>2
<1> DEFINE First == { e \in heap : Total(e) = f }
           rests == { Estimate(e.tile) : e \in First }
<1>4. PICK h \in rests : \A k \in rests : h <= k
  <2>1. First # {}
    BY <1>2
  <2>2. rests \in SUBSET Nat /\ rests # {}
    BY <1>1, <2>1
  <2>3. QED
    BY <2>2, SmallestNat
<1> DEFINE Second == { e \in First : Estimate(e.tile) = h }
           numbers == { e.sequence : e \in Second }
<1>5. PICK n \in numbers : \A k \in numbers : n <= k
  <2>1. Second # {}
    BY <1>4
  <2>2. numbers \in SUBSET Nat /\ numbers # {}
    BY <1>1, <2>1
  <2>3. QED
    BY <2>2, SmallestNat
<1>6. PICK e \in Second : e.sequence = n
  BY <1>5
<1>7. ASSUME NEW d \in heap \ {e}
      PROVE  Less(e, d)
  <2>1. e \in heap /\ Total(e) = f /\ Estimate(e.tile) = h
    BY <1>6
  <2>2. f <= Total(d) /\ Total(d) \in Nat
    BY <1>3
  <2>3. CASE Total(d) # f
    <3>1. Total(e) < Total(d)
      BY <1>3, <2>1, <2>2, <2>3
    <3>2. QED
      BY <3>1 DEF Less
  <2>4. CASE Total(d) = f /\ Estimate(d.tile) # h
    <3>1. d \in First
      BY <2>4
    <3>2. h <= Estimate(d.tile)
      BY <1>4, <3>1
    <3>3. h \in Nat /\ Estimate(d.tile) \in Nat
      BY <1>1, <2>1
    <3>4. Total(e) = Total(d) /\ Estimate(e.tile) < Estimate(d.tile)
      BY <2>1, <2>4, <3>2, <3>3
    <3>5. QED
      BY <3>4 DEF Less
  <2>5. CASE Total(d) = f /\ Estimate(d.tile) = h
    <3>1. d.sequence \in numbers
      BY <2>5
    <3>2. n <= d.sequence /\ n \in Nat /\ d.sequence \in Nat
      BY <1>1, <1>5, <1>6, <2>1, <3>1
    <3>3. d.sequence # n
      BY <1>6, <1>7, <2>1 DEF EntriesApart
    <3>4. Total(e) = Total(d) /\ Estimate(e.tile) = Estimate(d.tile) /\ e.sequence < d.sequence
      BY <1>6, <2>1, <2>5, <3>2, <3>3
    <3>5. QED
      BY <3>4 DEF Less
  <2>6. QED
    BY <2>3, <2>4, <2>5
<1>8. e \in heap /\ Least(e)
  BY <1>6, <1>7 DEF Least
<1>9. QED
  BY <1>8

\* Entries taken off the heap leave the others apart.
LEMMA FewerApart ==
  ASSUME EntriesApart, heap' \subseteq heap
  PROVE  EntriesApart'
<1>1. IsFiniteSet(heap')
  BY FS_Subset DEF EntriesApart
<1>2. QED
  BY <1>1 DEF EntriesApart

LEMMA ExpandApart ==
  ASSUME IInv, EntriesApart, NEW e \in heap, heap' = (heap \ {e}) \cup Fresh(e)
  PROVE  EntriesApart'
<1>1. SearchTypeOK /\ sequence \in Nat /\ \A d \in heap : d.sequence \in Nat /\ d.sequence <= sequence
  BY DEF IInv, SearchTypeOK, EntriesKnown, Entries
<1>2. \A f \in Fresh(e) : f.sequence \in Nat /\ f.sequence > sequence
  BY <1>1, FreshEntries
<1>3. ASSUME NEW d \in Fresh(e), NEW f \in Fresh(e), d.sequence = f.sequence
      PROVE  d = f
  <2>1. PICK i \in Ways(e) : d = [tile |-> Beside(e.tile, i), g |-> e.g + 1, sequence |-> Numbered(e, i)]
    BY DEF Fresh
  <2>2. PICK k \in Ways(e) : f = [tile |-> Beside(e.tile, k), g |-> e.g + 1, sequence |-> Numbered(e, k)]
    BY DEF Fresh
  <2>3. Numbered(e, i) = Numbered(e, k)
    BY <1>3, <2>1, <2>2
  <2>4. i = k
    BY <1>1, <2>3, NumbersApart
  <2>5. QED
    BY <2>1, <2>2, <2>4
<1>4. IsFiniteSet(heap')
  <2>1. IsFiniteSet(heap \ {e})
    BY FS_RemoveElement DEF EntriesApart
  <2>2. QED
    BY <2>1, FreshIsSmall, FS_Union
<1>5. \A d, f \in heap' : d.sequence = f.sequence => d = f
  BY <1>1, <1>2, <1>3 DEF EntriesApart
<1>6. QED
  BY <1>4, <1>5 DEF EntriesApart

LEMMA TInvInit == SearchInit => TInv
<1> SUFFICES ASSUME SearchInit PROVE TInv
  OBVIOUS
<1>1. EntriesApart
  BY FS_EmptySet DEF SearchInit, EntriesApart
<1>2. QED
  BY <1>1, AInvInit DEF TInv

LEMMA TInvStep == TInv /\ [SearchNext]_vars => TInv'
<1> SUFFICES ASSUME TInv, [SearchNext]_vars PROVE TInv'
  OBVIOUS
<1>1. AInv' /\ IInv /\ EntriesApart
  BY AInvStep DEF TInv, AInv
<1>2. CASE Refuse \/ Skip \/ Arrive \/ GiveUp \/ Exhaust \/ UNCHANGED vars
  <2>1. heap' \subseteq heap
    BY <1>2 DEF Refuse, Skip, Arrive, GiveUp, Exhaust, search, vars
  <2>2. QED
    BY <1>1, <2>1, FewerApart DEF TInv
<1>3. CASE Begin
  <2>1. heap' = { [tile |-> start, g |-> 0, sequence |-> 1] }
    BY <1>3 DEF Begin
  <2>2. IsFiniteSet(heap')
    BY <2>1, FS_Singleton
  <2>3. QED
    BY <1>1, <2>1, <2>2 DEF TInv, EntriesApart
<1>4. CASE Expand
  <2>1. PICK e \in heap : heap' = (heap \ {e}) \cup Fresh(e)
    BY <1>4 DEF Expand
  <2>2. QED
    BY <1>1, <2>1, ExpandApart DEF TInv
<1>5. QED
  BY <1>2, <1>3, <1>4 DEF SearchNext

LEMMA SizesAreNat ==
  ASSUME TInv
  PROVE  /\ IsFiniteSet(heap) /\ IsFiniteSet(closed) /\ IsFiniteSet(free)
         /\ Cardinality(heap) \in Nat /\ Cardinality(closed) \in Nat /\ Cardinality(free) \in Nat
         /\ Cardinality(closed) <= Cardinality(free) /\ Cardinality(free) <= Longest
<1>1. IsFiniteSet(heap) /\ SearchTypeOK /\ free \in SUBSET Tiles
  BY DEF TInv, AInv, IInv, EntriesApart, SearchTypeOK
<1>2. IsFiniteSet(free) /\ Cardinality(free) <= Longest
  BY <1>1, TilesAreFinite, FS_Subset
<1>3. closed \in SUBSET free
  BY <1>1, ClosedFits
<1>4. IsFiniteSet(closed) /\ Cardinality(closed) <= Cardinality(free)
  BY <1>2, <1>3, FS_Subset
<1>5. QED
  BY <1>1, <1>2, <1>4, FS_CardinalityType

LEMMA TurnsAreNat == TInv => TurnsLeft \in Nat
BY SizesAreNat DEF TurnsLeft

LEMMA TurnsAreNatThen == (TInv => TurnsLeft \in Nat)'
BY TurnsAreNat, PTL

\* Each turn has an answer or one turn less ahead of it.
LEMMA TurnCounts ==
  ASSUME TInv, SearchNext
  PROVE  TurnsLeft' < TurnsLeft
<1> DEFINE h == Cardinality(heap)
           c == Cardinality(closed)
           n == Cardinality(free)
           p == IF answer = Pending THEN 1 ELSE 0
           u == IF Unbegun THEN 2 ELSE 0
<1>1. h \in Nat /\ c \in Nat /\ n \in Nat /\ IsFiniteSet(heap) /\ IsFiniteSet(closed)
  BY SizesAreNat
<1>2. TurnsLeft = p + u + h + 4 * (n - c)
  BY DEF TurnsLeft
<1>3. free' = free /\ n' = n
  <2>1. UNCHANGED query
    BY DEF SearchNext, Refuse, Begin, Skip, Expand, Arrive, GiveUp, Exhaust
  <2>2. QED
    BY <2>1 DEF query
<1>4. TurnsLeft' = p' + u' + h' + 4 * (n' - c')
  BY DEF TurnsLeft
<1>5. p \in 0..1 /\ u \in {0, 2}
  OBVIOUS
<1>6. ASSUME NEW e \in heap, heap' = heap \ {e}
      PROVE  h' = h - 1
  BY <1>1, <1>6, FS_RemoveElement
<1> HIDE DEF h, c, n, p, u
<1>7. CASE Refuse \/ Exhaust
  <2>1. h' = h /\ c' = c /\ u' = u
    BY <1>7 DEF Refuse, Exhaust, search, h, c, u, Unbegun
  <2>2. p' = 0 /\ p = 1
    BY <1>7, AnAnswerIsNotPending, Zenon DEF Refuse, Exhaust, Searching, p
  <2>3. QED
    BY <1>1, <1>2, <1>3, <1>4, <1>5, <2>1, <2>2
<1>8. CASE Begin
  <2>1. u = 2 /\ u' = 0
    BY <1>8 DEF Begin, u, Unbegun
  <2>2. c' = c /\ p' = p
    BY <1>8 DEF Begin, c, p
  <2>3. h' = 1
    BY <1>8, FS_Singleton DEF Begin, h
  <2>4. QED
    BY <1>1, <1>2, <1>3, <1>4, <1>5, <2>1, <2>2, <2>3
<1>9. CASE Skip
  <2>1. h' = h - 1
    BY <1>6, <1>9 DEF Skip
  <2>2. c' = c /\ p' = p /\ u' = u
    BY <1>9 DEF Skip, c, p, u, Unbegun
  <2>3. QED
    BY <1>1, <1>2, <1>3, <1>4, <1>5, <2>1, <2>2
<1>10. CASE Expand
  <2>1. PICK e \in heap :
          /\ Live(e) /\ heap' = (heap \ {e}) \cup Fresh(e) /\ closed' = closed \cup {e.tile}
          /\ DOMAIN nodes' = DOMAIN nodes \cup Discovered(e)
    BY <1>10 DEF Expand
  <2>2. c' = c + 1
    BY <1>1, <2>1, FS_AddElement DEF Live, c
  <2>3. h' <= h + 3 /\ h' \in Nat
    <3> DEFINE rest == heap \ {e}
               fresh == Fresh(e)
    <3>1. IsFiniteSet(rest) /\ Cardinality(rest) = h - 1
      BY <1>1, FS_RemoveElement DEF h
    <3>2. IsFiniteSet(fresh) /\ Cardinality(fresh) \in 0..4
      BY FreshIsSmall
    <3> HIDE DEF rest, fresh
    <3>3. /\ IsFiniteSet(rest \cup fresh)
          /\ Cardinality(rest \cup fresh)
               = Cardinality(rest) + Cardinality(fresh) - Cardinality(rest \cap fresh)
      BY <3>1, <3>2, FS_Union
    <3>4. Cardinality(rest \cap fresh) \in Nat /\ Cardinality(rest \cup fresh) \in Nat
      BY <3>1, <3>3, FS_Intersection, FS_CardinalityType
    <3>5. h' = Cardinality(rest \cup fresh)
      BY <2>1 DEF rest, fresh, h
    <3>6. QED
      BY <1>1, <3>1, <3>2, <3>3, <3>4, <3>5
  <2>4. u = 0 /\ u' = 0
    BY <1>10, <2>1 DEF Expand, Searching, u, Unbegun
  <2>5. p' = p
    BY <1>10 DEF Expand, p
  <2>6. 4 * (n - (c + 1)) = 4 * (n - c) - 4 /\ 4 * (n - c) \in Int
    BY <1>1
  <2>7. PICK k \in Nat : h' = k /\ k <= h + 3
    BY <2>3
  <2>8. PICK x \in Int : TurnsLeft' = p + k + (x - 4) /\ TurnsLeft = p + h + x
    BY <1>1, <1>2, <1>3, <1>4, <1>5, <2>2, <2>4, <2>5, <2>6, <2>7
  <2>9. p + k + (x - 4) < p + h + x
    BY <1>1, <1>5, <2>7
  <2>10. QED
    BY <2>8, <2>9
<1>11. CASE Arrive \/ GiveUp
  <2>1. h' = h - 1
    BY <1>6, <1>11 DEF Arrive, GiveUp
  <2>2. c' = c /\ u' = u
    BY <1>11 DEF Arrive, GiveUp, c, u, Unbegun
  <2>3. p' = 0 /\ p = 1
    BY <1>11, AnAnswerIsNotPending, Zenon DEF Arrive, GiveUp, Searching, p
  <2>4. QED
    BY <1>1, <1>2, <1>3, <1>4, <1>5, <2>1, <2>2, <2>3
<1>12. QED
  BY <1>7, <1>8, <1>9, <1>10, <1>11 DEF SearchNext

\* On every map find_path answers after four turns for every tile it can see
\* and three more: until it has answered it can take a turn, the pop of a heap
\* that is not empty always has a least entry, and each turn leaves fewer. That
\* is the part of "the query always answers" that needs no fairness.
THEOREM SearchEnds ==
  SearchSpec => /\ [](answer = Pending => MayTurn)
                /\ [](TurnsLeft \in 0..(4 * Longest + 3))
                /\ [][TurnsLeft' < TurnsLeft]_vars
<1>1. TInv => (answer = Pending => MayTurn)
  <2> SUFFICES ASSUME TInv, answer = Pending PROVE MayTurn
    OBVIOUS
  <2>1. Unbegun \/ Searching
    BY DEF TInv, AInv, Begun, Unbegun, Searching
  <2>2. heap = {} \/ \E e \in heap : Least(e)
    BY LeastExists DEF TInv
  <2>3. QED
    BY <2>1, <2>2 DEF MayTurn
<1> DEFINE Few == TurnsLeft \in 0..(4 * Longest + 3)
<1>2. SearchInit => Few
  <2> SUFFICES ASSUME SearchInit PROVE Few
    OBVIOUS
  <2>1. /\ answer = Pending /\ Unbegun /\ Cardinality(heap) = 0 /\ Cardinality(closed) = 0
    BY FS_EmptySet DEF SearchInit, Init, Unbegun
  <2>2. Cardinality(free) \in Nat /\ Cardinality(free) <= Longest
    BY TInvInit, SizesAreNat
  <2>3. QED
    BY <2>1, <2>2, LongestIsNat DEF TurnsLeft
<1>3. TInv /\ [SearchNext]_vars => [TurnsLeft' < TurnsLeft]_vars
  BY TurnCounts
<1>4. TInv /\ TInv' /\ Few /\ [SearchNext]_vars => Few'
  <2> SUFFICES ASSUME TInv, TInv', Few, [SearchNext]_vars PROVE Few'
    OBVIOUS
  <2>1. TurnsLeft' \in Nat
    BY TurnsAreNatThen
  <2>2. CASE SearchNext
    BY <2>1, <2>2, TurnCounts, LongestIsNat
  <2>3. CASE UNCHANGED vars
    BY <2>3 DEF vars, TurnsLeft, Unbegun
  <2>4. QED
    BY <2>2, <2>3
<1>5. QED
  BY <1>1, <1>2, <1>3, <1>4, TInvInit, TInvStep, PTL DEF SearchSpec

=============================================================================
