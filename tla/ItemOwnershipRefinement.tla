---------------------- MODULE ItemOwnershipRefinement ----------------------
(***************************************************************************)
(* The ownership model with its save file implements the ledger: counting  *)
(* the units of each kind with each owner turns every transfer into one    *)
(* movement of the ledger, every save into a copy of it, and every load    *)
(* into a return to that copy.                                             *)
(***************************************************************************)
EXTENDS SavedItems

\* The units of kind k in the slots, equipment slots or placements of an
\* owner: unit u of a stack is there when the stack has at least u.
Units(owner, k) ==
    { x \in (DOMAIN owner) \X (1..MaxStack[k]) :
        LET item == owner[x[1]]
        IN  item # NoItem /\ item.kind = k /\ x[2] <= item.qty }

UnitCount(owner, k) == Cardinality(Units(owner, k))

ItemsLying(placed) == [w \in DOMAIN placed |-> placed[w].item]

QuantitiesOf(carried, worn, placed, k) ==
    [carried |-> UnitCount(carried, k),
     worn    |-> UnitCount(worn, k),
     world   |-> UnitCount(ItemsLying(placed), k)]

Quantities(k) == QuantitiesOf(inv, equipped, ground, k)

\* The authored content, with every equipment slot empty.
AuthoredQuantities(k) == QuantitiesOf(Starter, [s \in Slots |-> NoItem], Placements, k)

\* What a snapshot says each owner has.
FileQuantities(data) ==
    [k \in Kinds |-> QuantitiesOf(data.inventory, RestoredEquipment(data), RestoredGround(data), k)]

Ledger == INSTANCE SavedLedger WITH
    held     <- [k \in Kinds |-> Quantities(k)],
    kept     <- file,
    Opening  <- [k \in Kinds |-> AuthoredQuantities(k)],
    Contents <- FileQuantities,
    Nothing  <- NoSave

\* Quantities are conserved (docs/items.md: "overflow is never discarded"):
\* every pickup, partial pickup, drop, equip and unequip moves units of one
\* kind between two owners and changes nothing else, and a load brings back
\* what there was at the save, however much of it was taken, merged or moved
\* since: the units in the file and those in play are never both had.
ImplementsLedger == Ledger!KeepingSpec

=============================================================================
