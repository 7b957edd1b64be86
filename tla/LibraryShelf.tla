----------------------------- MODULE LibraryShelf -----------------------------
(***************************************************************************)
(* What the library index promises, and nothing of files: there is one     *)
(* shelf; a rebuild replaces it in one step by what reconciling it with    *)
(* the card gives, and nothing else touches it; a mark that it is out of   *)
(* date is withdrawn only when it lists the card, or lost with the power   *)
(* if it could not be written.                                             *)
(***************************************************************************)
EXTENDS Arrivals

CONSTANTS Firmwares, NoShelf

VARIABLES card,      \* the books on the card
          shelf,     \* the shelf a reader of the card has, or NoShelf
          due,       \* where the mark that the shelf is out of date stands
          firmware   \* the firmware that reads it

vars == <<card, shelf, due, firmware>>

Known == IF shelf = NoShelf THEN EmptyShelf ELSE shelf

Init == shelf = NoShelf /\ due = "none" /\ card \in Cards /\ firmware \in Firmwares

Change == card' \in Cards /\ UNCHANGED <<shelf, due, firmware>>

Mark == due' \in {"memory", "card"} /\ (due = "card" => due' = "card")
        /\ UNCHANGED <<card, shelf, firmware>>

Rebuild == shelf' \in Rebuilds(Known, card) /\ UNCHANGED <<card, due, firmware>>

\* The mark is withdrawn; one on the card may prove impossible to remove.
Settle == /\ shelf # NoShelf /\ Lists(shelf, card)
          /\ due' = "none" \/ (due = "card" /\ due' = "card")
          /\ UNCHANGED <<card, shelf, firmware>>

Restarted == due' = IF due = "card" THEN "card" ELSE "none"

PowerLoss == Restarted /\ UNCHANGED <<card, shelf, firmware>>

\* Another firmware may not know the format the shelf was written in.
Reflash == firmware' # firmware /\ Restarted /\ UNCHANGED card

Next == Change \/ Mark \/ Rebuild \/ Settle \/ PowerLoss \/ Reflash

Spec == Init /\ [][Next]_vars
=============================================================================
