----------------------------- MODULE Container -----------------------------
(***************************************************************************)
(* The fixed-slot item container of items/container.lua and the item       *)
(* values it holds (items/item_instance.lua, items/item_registry.lua).     *)
(* Everything here is a pure operator on a sequence of items; the modules  *)
(* that own containers turn the operators into actions.                    *)
(*                                                                         *)
(* An item's definition type and its mutable `state` table only ever       *)
(* matter together, when add_item asks whether two stacks are compatible   *)
(* (same type and equal state), so one value, the item's kind, stands for  *)
(* the pair.                                                               *)
(***************************************************************************)
EXTENDS Integers, Sequences

CONSTANTS
    ItemIds,    \* stable item-instance ids
    Kinds,      \* (definition type, item state) pairs
    MaxStack    \* [Kinds -> positive quantity], the registry's max_stack

ASSUME MaxStackAssumption == MaxStack \in [Kinds -> Nat \ {0}]

\* item_instance.new: an instance always has a legal quantity for its type.
Items == { i \in [id : ItemIds, kind : Kinds, qty : Nat \ {0}] :
               i.qty <= MaxStack[i.kind] }

\* item_registry.normalize: stackable exactly when max_stack exceeds one.
Stackable(kind) == MaxStack[kind] > 1

Lesser(a, b) == IF a <= b THEN a ELSE b

\* Mutation: stacks never merge.
Unmerged(item, incoming, remaining) == 0

\* What the merge loop of add_item moves into slot `item` when `remaining`
\* units of the incoming item are still to be placed.
Moved(item, incoming, remaining) ==
    IF Stackable(incoming.kind) /\ item.kind = incoming.kind
    THEN Lesser(MaxStack[item.kind] - item.qty, remaining)
    ELSE 0

\* The merge loop: left[n] is `remaining` after the first n slots. There is
\* exactly one such function; the loop is written as the relation between
\* its successive values so that it can be reasoned about without recursion.
MergeTraces(items, incoming) ==
    { left \in [0..Len(items) -> 0..incoming.qty] :
        /\ left[0] = incoming.qty
        /\ \A n \in 1..Len(items) :
             left[n] = left[n - 1] - Moved(items[n], incoming, left[n - 1]) }

\* The slots after the merge loop, before a new slot is considered.
Merged(items, incoming, left) ==
    [ n \in 1..Len(items) |->
        [items[n] EXCEPT !.qty = @ + Moved(items[n], incoming, left[n - 1])] ]

\* Mutation: what does not fit is discarded.
Discarding(items, incoming, capacity, left) ==
    LET rest == left[Len(items)]
        slot == [incoming EXCEPT !.qty = rest]
    IN  IF rest > 0 /\ Len(items) < capacity
        THEN [items |-> Append(Merged(items, incoming, left), slot), remainder |-> 0]
        ELSE [items |-> Merged(items, incoming, left), remainder |-> 0]

\* container.add_item for one run of its loop: the contents afterwards and
\* the quantity that did not fit. The overflow takes one new slot, which
\* keeps the incoming id, when a slot is free.
AddResult(items, incoming, capacity, left) ==
    LET rest == left[Len(items)]
        slot == [incoming EXCEPT !.qty = rest]
    IN  IF rest > 0 /\ Len(items) < capacity
        THEN [items |-> Append(Merged(items, incoming, left), slot), remainder |-> 0]
        ELSE [items |-> Merged(items, incoming, left), remainder |-> rest]

\* container.add_item (a set of one result).
AddItem(items, incoming, capacity) ==
    { AddResult(items, incoming, capacity, left) : left \in MergeTraces(items, incoming) }

\* The assertion at the head of add_item.
HoldsId(items, id) == \E n \in 1..Len(items) : items[n].id = id

IdsOf(items) == { items[n].id : n \in 1..Len(items) }

DistinctIds(items) == \A m, n \in 1..Len(items) : items[m].id = items[n].id => m = n

\* Only the last stack of a kind may be partial: the merge loop fills stacks
\* front to back, and removal keeps the order.
Canonical(items) ==
    \A m, n \in 1..Len(items) :
        m < n /\ items[m].kind = items[n].kind => items[m].qty = MaxStack[items[m].kind]

\* container.remove_item of the item in slot n: later slots close up.
WithoutSlot(items, n) ==
    [ m \in 1..(Len(items) - 1) |-> IF m < n THEN items[m] ELSE items[m + 1] ]

=============================================================================
