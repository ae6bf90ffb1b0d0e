--------------------------- MODULE LatestValueBox ---------------------------
(***************************************************************************)
(* What a producer and a consumer that share one variable and one flag     *)
(* promise: a box for one value.  Putting the next value in replaces what  *)
(* is there; a value is taken once, and only the latest.                   *)
(***************************************************************************)
EXTENDS Naturals

VARIABLES
  puts,     \* values put so far; they are numbered 1, 2, ...
  box       \* the value in the box, 0 if it is empty

Init == puts = 0 /\ box = 0

Put ==
  /\ puts' = puts + 1
  /\ box' = puts'

Take ==
  /\ box # 0
  /\ box' = 0
  /\ puts' = puts

Spec == Init /\ [][Put \/ Take]_<<puts, box>>
=============================================================================
