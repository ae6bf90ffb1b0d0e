------------------------------ MODULE FoodTray ------------------------------
(***************************************************************************)
(* What one food tray of the restaurant promises, whoever works on it: it  *)
(* holds between 0 and TRAY_SIZE dishes, a chef adds one dish at a time    *)
(* and only while there is room, a customer takes one at a time and only   *)
(* while there is a dish.  Kitchen.tla implements it twice, once for the   *)
(* non-vegetarian and once for the vegetarian tray.                        *)
(***************************************************************************)
EXTENDS Naturals

CONSTANT TRAY_SIZE          \* number of places on the tray

VARIABLE dishes             \* dishes on the tray

Init == dishes = 0

Put ==
  /\ dishes < TRAY_SIZE
  /\ dishes' = dishes + 1

Take ==
  /\ dishes > 0
  /\ dishes' = dishes - 1

Next == Put \/ Take

Spec == Init /\ [][Next]_dishes
=============================================================================
