---------------------------- MODULE MCRestaurant ----------------------------
(* One place on each tray is enough for every point of a worker's round,   *)
(* and so for every place where a signal can meet it.                      *)
EXTENDS Restaurant

(* Two chefs and the customer of both trays: no tray is without a worker,  *)
(* and customer 3 goes through every step of a customer.                   *)
MCShift == <<"donatello", "portecelli", "customer3">>
=============================================================================
