------------------------- MODULE MCDispatcherLanes --------------------------
(* A plain task and a timer of one producer, a cycle of another, and a     *)
(* task behind a barrier.  Two of the first three fill their lane, which   *)
(* has two slots.  No lane of the server is both fair to producers and cut *)
(* short; here one is both, to see the two together on a small instance.   *)
EXTENDS DispatcherLanes

CONSTANTS x, s, c, p

MCTask == {x, s, c, p}
MCLaneOf == [t \in MCTask |-> IF t = p THEN "barrier" ELSE "serial"]
MCProducerOf == [t \in MCTask |-> CASE t = c -> 1 [] t \in {x, s} -> 2 [] OTHER -> 0]
=============================================================================
