--------------------------- MODULE ItemOwnership ---------------------------
(***************************************************************************)
(* Who owns which item while the game is played: the player's inventory    *)
(* (items/inventory.lua over items/container.lua), the equipment slots     *)
(* (items/equipment.lua), the items lying in the world                     *)
(* (world/world_items.lua) and the four transfers between them             *)
(* (simulation/item_transfers.lua, equipment.equip, equipment.unequip).    *)
(*                                                                         *)
(* Every operation either returns a failure and leaves the state alone (a  *)
(* stuttering step, not modelled) or runs to its end; a failed Lua assert  *)
(* would abort it half-way, and the invariants below say that the asserts  *)
(* of drop and of add_item never fail.                                     *)
(***************************************************************************)
EXTENDS Container, FiniteSets

CONSTANTS
    Slots,       \* equipment slot ids
    SlotsOf,     \* [Kinds -> SUBSET Slots], the definition's equipment.slots
    Pickupable,  \* kinds whose definition is pickupable
    Capacity,    \* slots of the player's inventory
    Positions,   \* tiles with ground, where an item can lie
    WorldIds,    \* ids of world placements
    DefaultId,   \* [ItemIds -> WorldIds], world_items.default_id
    Placements,  \* authored item_placements: id -> [item, pos]
    Starter,     \* the authored player_inventory.items
    NoItem       \* an empty equipment slot (`false` in the code)

\* equipment_slots and item_registry.normalize: "stackable item cannot be
\* equipped".
ASSUME EquipAssumption ==
    /\ SlotsOf \in [Kinds -> SUBSET Slots]
    /\ \A k \in Kinds : SlotsOf[k] # {} => ~Stackable(k)
    /\ NoItem \notin Items

\* "world." .. item id: distinct items have distinct default ids.
ASSUME DefaultIdAssumption ==
    /\ DefaultId \in [ItemIds -> WorldIds]
    /\ \A i, j \in ItemIds : DefaultId[i] = DefaultId[j] => i = j

\* Authored content: world.new places the items one by one and refuses a
\* repeated id, the inventory constructor refuses what does not fit. An
\* authored placement id is the default id of its own item, as in the
\* shipped map, or is no item's default id.
ASSUME PlacementAssumption ==
    /\ DOMAIN Placements \subseteq WorldIds
    /\ Placements \in [DOMAIN Placements -> [item : Items, pos : Positions]]
    /\ \A p \in DOMAIN Placements :
         /\ \A i \in ItemIds : p = DefaultId[i] => i = Placements[p].item.id
         /\ \A q \in DOMAIN Placements :
              Placements[p].item.id = Placements[q].item.id => p = q

ASSUME StarterAssumption ==
    /\ Capacity \in Nat
    /\ Starter \in Seq(Items)
    /\ Len(Starter) <= Capacity
    /\ \A m, n \in 1..Len(Starter) : Starter[m].id = Starter[n].id => m = n
    /\ Canonical(Starter)
    /\ \A n \in 1..Len(Starter), p \in DOMAIN Placements :
         Starter[n].id # Placements[p].item.id

VARIABLES
    inv,       \* the inventory's slots in order
    equipped,  \* [Slots -> Items or NoItem]
    ground     \* world.world_items: placement id -> [item, pos]

vars == <<inv, equipped, ground>>

Init ==
    /\ inv = Starter
    /\ equipped = [s \in Slots |-> NoItem]
    /\ ground = Placements

-----------------------------------------------------------------------------
\* world_items.remove, world_items.place under id w, and set_quantity.
Taken(w) == [v \in DOMAIN ground \ {w} |-> ground[v]]

Placed(w, item, pos) ==
    [v \in DOMAIN ground \cup {w} |->
        IF v = w THEN [item |-> item, pos |-> pos] ELSE ground[v]]

Requantified(w, qty) == Placed(w, [ground[w].item EXCEPT !.qty = qty], ground[w].pos)

\* item_transfers.pickup: what the inventory accepts leaves the world, the
\* rest stays on the tile under the same ids.
Pickup(w) ==
    /\ w \in DOMAIN ground
    /\ ground[w].item.kind \in Pickupable
    /\ ~HoldsId(inv, ground[w].item.id)
    /\ \E r \in AddItem(inv, ground[w].item, Capacity) :
         /\ r.remainder < ground[w].item.qty
         /\ inv' = r.items
         /\ ground' = IF r.remainder > 0
                      THEN Requantified(w, r.remainder)
                      ELSE Taken(w)
    /\ UNCHANGED equipped

\* world_items.can_place: neither the placement id nor the item id is in use.
CanPlace(w, item) ==
    /\ w \notin DOMAIN ground
    /\ \A v \in DOMAIN ground : ground[v].item.id # item.id

\* item_transfers.drop of the item in slot n on tile pos.
Drop(n, pos) ==
    /\ n \in 1..Len(inv)
    /\ LET w == DefaultId[inv[n].id] IN
         /\ CanPlace(w, inv[n])
         /\ ground' = Placed(w, inv[n], pos)
    /\ inv' = WithoutSlot(inv, n)
    /\ UNCHANGED equipped

\* Mutation: any item fits any slot.
AnySlot(item, s) == equipped[s] = NoItem

\* equipment.can_equip and equipment.equip of the item in slot n.
CanEquip(item, s) == equipped[s] = NoItem /\ s \in SlotsOf[item.kind]

Equip(n, s) ==
    /\ n \in 1..Len(inv)
    /\ CanEquip(inv[n], s)
    /\ equipped' = [equipped EXCEPT ![s] = inv[n]]
    /\ inv' = WithoutSlot(inv, n)
    /\ UNCHANGED ground

\* Mutation: the slot is emptied even when the inventory refuses the item.
UnequipAnyway(s) ==
    /\ equipped[s] # NoItem
    /\ ~HoldsId(inv, equipped[s].id)
    /\ \E r \in AddItem(inv, equipped[s], Capacity) : inv' = r.items
    /\ equipped' = [equipped EXCEPT ![s] = NoItem]
    /\ UNCHANGED ground

\* equipment.unequip: the inventory is asked to take the item first, and
\* keeps what it took even when that was not everything.
Unequip(s) ==
    /\ equipped[s] # NoItem
    /\ ~HoldsId(inv, equipped[s].id)
    /\ \E r \in AddItem(inv, equipped[s], Capacity) :
         /\ inv' = r.items
         /\ equipped' = IF r.remainder = 0 THEN [equipped EXCEPT ![s] = NoItem] ELSE equipped
    /\ UNCHANGED ground

Next ==
    \/ \E w \in WorldIds : Pickup(w)
    \/ \E n \in 1..Capacity, pos \in Positions : Drop(n, pos)
    \/ \E n \in 1..Capacity, s \in Slots : Equip(n, s)
    \/ \E s \in Slots : Unequip(s)

Spec == Init /\ [][Next]_vars

-----------------------------------------------------------------------------
WorldItems == [item : Items, pos : Positions]

\* The shape of the three owners: a bounded inventory of legal stacks, one
\* item or none per slot, world items on tiles with ground.
TypeOK ==
    /\ inv \in Seq(Items) /\ Len(inv) <= Capacity
    /\ equipped \in [Slots -> Items \cup {NoItem}]
    /\ DOMAIN ground \subseteq WorldIds
    /\ ground \in [DOMAIN ground -> WorldItems]

InUse == { s \in Slots : equipped[s] # NoItem }

OnceInInventory == DistinctIds(inv)
OnceInEquipment ==
    \A s, t \in InUse : equipped[s].id = equipped[t].id => s = t
OnceInWorld ==
    \A v, w \in DOMAIN ground : ground[v].item.id = ground[w].item.id => v = w
OwnersDisjoint ==
    /\ \A s \in InUse : ~HoldsId(inv, equipped[s].id)
    /\ \A w \in DOMAIN ground : ~HoldsId(inv, ground[w].item.id)
    /\ \A s \in InUse, w \in DOMAIN ground : equipped[s].id # ground[w].item.id

\* docs/save-format.md: "An item ID must resolve to exactly one" owner. No
\* order of pickups, partial merges, drops and equipment changes puts one
\* item-instance id in two slots, two placements or with two owners.
UniqueOwnership ==
    /\ OnceInInventory
    /\ OnceInEquipment
    /\ OnceInWorld
    /\ OwnersDisjoint

\* Only the last stack of a kind is ever partial. container.add_item fills
\* stacks front to back, and inventory.restore depends on it: it re-adds a
\* saved inventory item by item and asserts that no stack was merged away.
CanonicalStacks == Canonical(inv)

\* A world placement bears its item's default id, or is an authored
\* placement still holding its authored item.
PlacementsNamed ==
    \A w \in DOMAIN ground :
        \/ w = DefaultId[ground[w].item.id]
        \/ w \in DOMAIN Placements /\ ground[w].item.id = Placements[w].item.id

\* The asserts on the transfer paths cannot fail in play: the world accepts
\* whatever the player carries (world_items.can_place, called by drop before
\* it removes the item), and the inventory never meets an id it already
\* holds (container.add_item, called by pickup and unequip).
TransfersNeverAbort ==
    /\ \A n \in 1..Len(inv) : CanPlace(DefaultId[inv[n].id], inv[n])
    /\ \A w \in DOMAIN ground : ~HoldsId(inv, ground[w].item.id)
    /\ \A s \in InUse : ~HoldsId(inv, equipped[s].id)

AuthoredItems ==
    { Placements[p].item : p \in DOMAIN Placements } \cup { Starter[n] : n \in 1..Len(Starter) }

Owned(i) ==
    \/ \E n \in 1..Len(inv) : inv[n] = i
    \/ \E s \in Slots : equipped[s] = i
    \/ \E w \in DOMAIN ground : ground[w].item = i

\* docs/items.md: "The item ID therefore survives a world -> inventory ->
\* world round trip". An item that cannot be stacked (key, sword, armor) is
\* never lost, whatever the transfers and however full the inventory.
UnstackablesSurvive ==
    \A i \in AuthoredItems : ~Stackable(i.kind) => Owned(i)

=============================================================================
