----------------------------- MODULE ItemLedger -----------------------------
(***************************************************************************)
(* What the item subsystem promises about quantities, with no slots, ids,  *)
(* stacks or tiles: every kind of item is spread over three places, and    *)
(* the only thing that ever happens is that some units of one kind go      *)
(* from one place to another. Nothing is created and nothing is lost.      *)
(***************************************************************************)
EXTENDS Integers

CONSTANTS
    Kinds,
    MaxStack,  \* at most one stack moves at a time
    Opening    \* [Kinds -> [Places -> Nat]], the authored quantities

Places == {"carried", "worn", "world"}

VARIABLE held  \* [Kinds -> [Places -> Nat]]

Init == held = Opening

\* The game knows no transfer between the world and an equipment slot.
Routes == { <<"world", "carried">>, <<"carried", "world">>,
            <<"carried", "worn">>, <<"worn", "carried">> }

Transfer(before, after, k, route, n) ==
    /\ n <= before[k][route[1]]
    /\ after = [before EXCEPT ![k][route[1]] = @ - n, ![k][route[2]] = @ + n]

Next ==
    LET before == held
        after  == held'
    IN  \E k \in Kinds, route \in Routes : \E n \in 1..MaxStack[k] :
            Transfer(before, after, k, route, n)

Spec == Init /\ [][Next]_held

=============================================================================
