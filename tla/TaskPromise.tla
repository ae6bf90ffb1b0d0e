----------------------------- MODULE TaskPromise ----------------------------
(***************************************************************************)
(* What the task queue promises for each task, however many workers come   *)
(* and go: it is refused or accepted; of an accepted task there is one     *)
(* copy, which waits, then is in one worker's hands, then has been printed *)
(* once; it may be lost on the way, and then it is lost for good.          *)
(* TaskQueue.tla implements it.                                            *)
(***************************************************************************)
EXTENDS Naturals

CONSTANT Task

VARIABLES
  verdict,   \* "none", "refused" or "accepted"
  waiting,   \* how many copies of each task wait in queues,
  taken,     \* how many are in workers' hands,
  printed    \* and how often it has been printed

status == <<verdict, waiting, taken, printed>>

Nowhere == [t \in Task |-> 0]

Init ==
  /\ verdict = [t \in Task |-> "none"]
  /\ waiting = Nowhere /\ taken = Nowhere /\ printed = Nowhere

Refuse(t) ==
  /\ verdict[t] = "none"
  /\ verdict' = [verdict EXCEPT ![t] = "refused"]
  /\ UNCHANGED <<waiting, taken, printed>>

Submit(t) ==
  /\ verdict[t] = "none"
  /\ verdict' = [verdict EXCEPT ![t] = "accepted"]
  /\ waiting' = [waiting EXCEPT ![t] = 1]
  /\ UNCHANGED <<taken, printed>>

Take(t) ==
  /\ waiting[t] = 1 /\ taken[t] = 0
  /\ waiting' = [waiting EXCEPT ![t] = 0]
  /\ taken' = [taken EXCEPT ![t] = 1]
  /\ UNCHANGED <<verdict, printed>>

Finish(t) ==
  /\ taken[t] = 1 /\ printed[t] = 0
  /\ taken' = [taken EXCEPT ![t] = 0]
  /\ printed' = [printed EXCEPT ![t] = 1]
  /\ UNCHANGED <<verdict, waiting>>

(* A queue goes away with the tasks in it, a worker with the one in hand.  *)
Lose(S) ==
  /\ waiting' = [t \in Task |-> IF t \in S THEN 0 ELSE waiting[t]]
  /\ taken' = [t \in Task |-> IF t \in S THEN 0 ELSE taken[t]]
  /\ UNCHANGED <<verdict, printed>>

Next ==
  \/ \E t \in Task : Refuse(t) \/ Submit(t) \/ Take(t) \/ Finish(t)
  \/ \E S \in SUBSET Task : Lose(S)

Spec == Init /\ [][Next]_status
=============================================================================
