---------------------------- MODULE MCSavedItems ----------------------------
(***************************************************************************)
(* The herbs and the sword of the shipped map and a two-slot inventory for *)
(* TLC, with the herb stack scaled from 20 to 4: the starter stack (15 of  *)
(* 20) and the herbs on the ground (10) become 3 and 2, so picking the     *)
(* herbs up still overflows into a second stack.                           *)
(***************************************************************************)
EXTENDS ItemOwnershipRefinement, FiniteSetsExt, SequencesExt

HerbStack == 4

MCKinds == {"herb", "sword"}
MCMaxStack == [k \in MCKinds |-> IF k = "herb" THEN HerbStack ELSE 1]
MCSlots == {"main_hand", "off_hand"}
MCSlotsOf ==
    [k \in MCKinds |-> IF k = "sword" THEN {"main_hand", "off_hand"} ELSE {}]

AnItem(id, kind, qty) == [id |-> id, kind |-> kind, qty |-> qty]

MCItemIds == {"starter", "herbs", "sword"}
MCStarter == << AnItem("starter", "herb", 3) >>

MCDefaultId ==
    [i \in MCItemIds |-> CASE i = "starter" -> "world.starter"
                           [] i = "herbs" -> "world.herbs"
                           [] i = "sword" -> "world.sword"]
MCDefaultIds == { MCDefaultId[i] : i \in MCItemIds }

\* Two of the shipped map's placements, the sword under a placement id that
\* is no item's default id: the herbs, dropped again, lie under their authored
\* id, the sword under a new one.
MCPlacements ==
    [p \in {"world.herbs", "map.sword"} |->
        IF p = "world.herbs" THEN [item |-> AnItem("herbs", "herb", 2), pos |-> "p1"]
                             ELSE [item |-> AnItem("sword", "sword", 1), pos |-> "p2"]]

MCWorldIds == MCDefaultIds \cup DOMAIN MCPlacements
=============================================================================
