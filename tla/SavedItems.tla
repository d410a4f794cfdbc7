----------------------------- MODULE SavedItems -----------------------------
(***************************************************************************)
(* Item ownership across save, load, reset and restart: the item part of   *)
(* state/save_data.lua (capture, validate, restore), state/save_manager.lua*)
(* and the handlers of main/game_manager.script that call them.            *)
(*                                                                         *)
(* The save file outlives the process; everything else is rebuilt by       *)
(* create_session, which restores static placements, inventory, equipment  *)
(* and dropped items in that order and trusts their asserts to hold.       *)
(***************************************************************************)
EXTENDS ItemOwnership

CONSTANT NoSave

\* The tables of the authored content are finite.
ASSUME ContentAssumption == IsFiniteSet(Slots) /\ IsFiniteSet(DOMAIN Placements)

Removed == [removed |-> TRUE]
Override(item) == [removed |-> FALSE, qty |-> item.qty, kind |-> item.kind]

\* What save_data.capture builds out of items, slots and placements.
Overrides == {Removed} \cup [removed : {FALSE}, qty : Nat, kind : Kinds]

Snapshots ==
    [inventory : Seq(Items),
     equipment : UNION { [S -> Items] : S \in SUBSET Slots },
     overrides : UNION { [P -> Overrides] : P \in SUBSET DOMAIN Placements },
     dynamic   : UNION { [W -> WorldItems] : W \in SUBSET WorldIds }]

ASSUME NoSaveAssumption == NoSave \notin Snapshots

VARIABLE file  \* the snapshot on disk, or NoSave

savedVars == <<inv, equipped, ground, file>>

SavedInit == Init /\ file = NoSave

-----------------------------------------------------------------------------
\* Mutation: a placement counts as unchanged while anything is left of it.
QuantityIgnored(p) == p \in DOMAIN ground

\* A placement needs no override while its quantity and state are authored.
\* Where it lies is not compared: an authored item is taken to be in place.
Unchanged(p) ==
    /\ p \in DOMAIN ground
    /\ ground[p].item.qty = Placements[p].item.qty
    /\ ground[p].item.kind = Placements[p].item.kind

\* save_data.capture: whatever bears a placement's id is that placement,
\* every other world item is dynamic.
Capture ==
    [inventory |-> inv,
     equipment |-> [s \in InUse |-> equipped[s]],
     overrides |-> [p \in { q \in DOMAIN Placements : ~Unchanged(q) } |->
                      IF p \in DOMAIN ground THEN Override(ground[p].item) ELSE Removed],
     dynamic   |-> [w \in DOMAIN ground \ DOMAIN Placements |-> ground[w]]]

Retained(data) == { p \in DOMAIN Placements :
                      p \in DOMAIN data.overrides => ~data.overrides[p].removed }

\* Every item id the snapshot reserves, and how often it reserves one.
ReservedIds(data) ==
    IdsOf(data.inventory)
      \cup { data.equipment[s].id : s \in DOMAIN data.equipment }
      \cup { data.dynamic[w].item.id : w \in DOMAIN data.dynamic }
      \cup { Placements[p].item.id : p \in Retained(data) }

Reservations(data) ==
    Len(data.inventory) + Cardinality(DOMAIN data.equipment)
      + Cardinality(DOMAIN data.dynamic) + Cardinality(Retained(data))

\* save_data.validate: no item id is reserved twice over inventory,
\* equipment, dynamic items and the placements that are not removed.
Valid(data) ==
    /\ Len(data.inventory) <= Capacity
    /\ DOMAIN data.equipment \subseteq Slots
    /\ DOMAIN data.overrides \subseteq DOMAIN Placements
    /\ DOMAIN data.dynamic \cap DOMAIN Placements = {}
    /\ Cardinality(ReservedIds(data)) = Reservations(data)

-----------------------------------------------------------------------------
\* inventory.restore: every saved item goes through add_item again, must be
\* inserted whole and must still be there under its id.
ReAdd(restored, item) ==
    LET r == CHOOSE x \in AddItem(restored.items, item, Capacity) : TRUE
    IN  [items |-> r.items,
         ok    |-> restored.ok /\ ~HoldsId(restored.items, item.id)
                     /\ r.remainder = 0 /\ HoldsId(r.items, item.id)]

RestoredInventory(data) ==
    LET restored[n \in 0..Len(data.inventory)] ==
          IF n = 0 THEN [items |-> <<>>, ok |-> TRUE]
          ELSE ReAdd(restored[n - 1], data.inventory[n])
    IN  restored[Len(data.inventory)]

\* world_items.restore_static under the override of placement p.
RestoredPlacement(data, p) ==
    IF p \in DOMAIN data.overrides
    THEN [Placements[p] EXCEPT !.item.qty = data.overrides[p].qty,
                               !.item.kind = data.overrides[p].kind]
    ELSE Placements[p]

\* Mutation: authored items respawn although they were taken.
RespawnedGround(data) ==
    [w \in DOMAIN Placements \cup DOMAIN data.dynamic |->
        IF w \in DOMAIN data.dynamic THEN data.dynamic[w]
        ELSE IF w \in Retained(data) THEN RestoredPlacement(data, w) ELSE Placements[w]]

RestoredGround(data) ==
    [w \in Retained(data) \cup DOMAIN data.dynamic |->
        IF w \in DOMAIN data.dynamic THEN data.dynamic[w] ELSE RestoredPlacement(data, w)]

RestoredEquipment(data) ==
    [s \in Slots |-> IF s \in DOMAIN data.equipment THEN data.equipment[s] ELSE NoItem]

\* create_session reaches its end: inventory.restore, equipment.restore and
\* the can_place asserts of restore_dynamic all hold.
Restorable(data) ==
    /\ RestoredInventory(data).ok
    /\ \A s \in DOMAIN data.equipment : s \in SlotsOf[data.equipment[s].kind]
    /\ DOMAIN data.dynamic \cap Retained(data) = {}
    /\ \A v, w \in DOMAIN RestoredGround(data) :
         RestoredGround(data)[v].item.id = RestoredGround(data)[w].item.id => v = w

\* create_session with a saved game, and with none.
SessionFrom(data) ==
    /\ Restorable(data)
    /\ inv' = RestoredInventory(data).items
    /\ equipped' = RestoredEquipment(data)
    /\ ground' = RestoredGround(data)

FreshSession ==
    /\ inv' = Starter
    /\ equipped' = [s \in Slots |-> NoItem]
    /\ ground' = Placements

-----------------------------------------------------------------------------
\* F5: save_manager.save writes only what validates.
Save ==
    /\ Valid(Capture)
    /\ file' = Capture
    /\ UNCHANGED vars

\* F9: save_manager.load answers "not_found" without a file.
Load ==
    /\ file # NoSave
    /\ Valid(file)
    /\ SessionFrom(file)
    /\ UNCHANGED file

\* F8 deletes the file and starts the authored game.
Reset ==
    /\ FreshSession
    /\ file' = NoSave

\* The process ends and is started again: init loads the file if it can.
Restart ==
    /\ IF file # NoSave /\ Valid(file) THEN SessionFrom(file) ELSE FreshSession
    /\ UNCHANGED file

Play == Next /\ UNCHANGED file

SavedNext == Play \/ Save \/ Load \/ Reset \/ Restart

SavedSpec == SavedInit /\ [][SavedNext]_savedVars

-----------------------------------------------------------------------------
\* A file that was accepted can be loaded: no assert of inventory.restore,
\* equipment.restore or world_items.can_place aborts create_session, however
\* long ago it was written and whatever was played since.
FileLoads == file # NoSave => Valid(file) /\ Restorable(file)

\* F5 never answers "Save failed", and what it writes names every owner's
\* items: a load would give inventory and equipment back the same items in
\* the same slots, and leave in the world the same items under the same
\* placement ids, a dropped item on the tile where it lies.
OwnersComeBack ==
    /\ Valid(Capture)
    /\ RestoredInventory(Capture).items = inv
    /\ RestoredEquipment(Capture) = equipped
    /\ DOMAIN RestoredGround(Capture) = DOMAIN ground
    /\ \A w \in DOMAIN ground :
         /\ RestoredGround(Capture)[w].item = ground[w].item
         /\ w \notin DOMAIN Placements => RestoredGround(Capture)[w].pos = ground[w].pos

\* Loading what has just been saved changes nothing. docs/save-format.md:49
\* says it of the tiles too: "a runtime placement, such as a dropped inventory
\* item, [...] stores its world-placement ID, item instance, and logical
\* coordinates". The code does not keep the promise: an authored item that was
\* picked up and dropped elsewhere lies under its authored id again, and an
\* override stores no coordinates.
RoundTrip == [][file = Capture /\ Load => UNCHANGED vars]_savedVars

=============================================================================
