----------------------------- MODULE SavedLedger -----------------------------
(***************************************************************************)
(* What the save file promises about quantities: a file says how much of   *)
(* each kind every place holds, a save writes what is so, a load makes it  *)
(* so again, and a game that starts without a file starts with the         *)
(* authored quantities. In between units move as in ItemLedger and nothing *)
(* else happens: saving, moving and loading in any order create nothing.   *)
(***************************************************************************)
EXTENDS ItemLedger

CONSTANTS
    Nothing,     \* no file
    Contents(_)  \* what a file says, [Kinds -> [Places -> Nat]]

VARIABLE kept    \* the file, or Nothing

KeepingInit == Init /\ kept = Nothing

Move   == UNCHANGED kept /\ Next
Keep   == UNCHANGED held /\ kept' # Nothing /\ Contents(kept') = held
Return == UNCHANGED kept /\ kept # Nothing /\ held' = Contents(kept)
Reopen == kept' = Nothing /\ held' = Opening

KeepingSpec == KeepingInit /\ [][Move \/ Keep \/ Return \/ Reopen]_<<held, kept>>

=============================================================================
