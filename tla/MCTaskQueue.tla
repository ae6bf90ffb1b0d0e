---------------------------- MODULE MCTaskQueue -----------------------------
(* Two tasks of different urgency, or one with the priority atoi makes of  *)
(* a negative number beside one that is too long.  The first worker is     *)
(* started twice, the second once.                                         *)
EXTENDS TaskQueue, TLC

CONSTANTS w1, w2, d1, d2

Task(p, f) == [priority |-> p, fits |-> f]

MCRequests ==
  { d1 :> Task(10, TRUE) @@ d2 :> Task(30, TRUE),
    d1 :> Task(-1, TRUE) @@ d2 :> Task(10, FALSE) }

MCRuns == w1 :> 2 @@ w2 :> 1
=============================================================================
