---------------------------- MODULE SignalChild -----------------------------
(***************************************************************************)
(* signal_process_communicate.c: a parent sends SIGUSR1 to its child       *)
(* SIGNALS times, with naps between; the child counts the signals in a     *)
(* handler and ends when it has counted them all.                          *)
(*                                                                         *)
(* A pending SIGUSR1 is one bit, the handler runs between any two steps    *)
(* of the child, and before signal() there is none.  Only the parent's     *)
(* naps order the two processes, and a nap may end at any time: early      *)
(* counts those that have not been long enough so far.                     *)
(***************************************************************************)
EXTENDS Integers

CONSTANT SIGNALS    \* the 5 of the source

ASSUME SignalsAssumption == SIGNALS \in Nat \ {0}

VARIABLES
  ppc,              \* where the parent is
  i,                \* its loop index: signals sent
  cpc,              \* where the child is
  signal_count,
  pending,          \* 1 if a SIGUSR1 is pending for the child, however many were sent
  handling,         \* 1 while its handler runs; SIGUSR1 is blocked then
  early             \* history: how many naps have ended too early

vars == <<ppc, i, cpc, signal_count, pending, handling, early>>

ParentStep == {"fork", "first_nap", "kill", "nap", "wait", "end"}

(* "test" reads signal_count, "call" is the way from there into pause().   *)
ChildStep == {"off", "register", "test", "call", "pause", "zombie", "killed", "reaped"}

Alive == cpc \in {"register", "test", "call", "pause"}

Init ==
  /\ ppc = "fork"
  /\ i = 0
  /\ cpc = "off"
  /\ signal_count = 0
  /\ pending = 0
  /\ handling = 0
  /\ early = 0

-----------------------------------------------------------------------------
(***************************************************************************)
(* The parent                                                              *)
(***************************************************************************)
ParentGoto(from, to) == ppc = from /\ ppc' = to

Fork ==
  /\ ParentGoto("fork", "first_nap")
  /\ cpc' = "register"
  /\ UNCHANGED <<i, signal_count, pending, handling, early>>

ForkFails ==
  /\ ParentGoto("fork", "end")
  /\ UNCHANGED <<i, cpc, signal_count, pending, handling, early>>

(* Mutant: the parent sends at once. *)
NoFirstNap ==
  /\ ParentGoto("first_nap", "kill")
  /\ UNCHANGED <<i, cpc, signal_count, pending, handling, early>>

(* sleep(1), long enough if the child has its handler by then *)
FirstNapEnds ==
  /\ ParentGoto("first_nap", "kill")
  /\ early' = IF cpc = "register" THEN early + 1 ELSE early
  /\ UNCHANGED <<i, cpc, signal_count, pending, handling>>

(* kill(pid, SIGUSR1): the default action kills a child that has no        *)
(* handler yet; a child that has ended does not notice.                    *)
Kill ==
  /\ ParentGoto("kill", "nap")
  /\ i' = i + 1
  /\ IF cpc = "register"
       THEN cpc' = "killed" /\ pending' = pending
       ELSE cpc' = cpc /\ pending' = IF Alive THEN 1 ELSE pending
  /\ UNCHANGED <<signal_count, handling, early>>

(* The child has dealt with all that was sent and waits for more. *)
Settled == ~Alive \/ (cpc = "pause" /\ pending = 0 /\ handling = 0)

(* sleep(2) and the end of the loop's pass *)
NapEnds ==
  /\ ParentGoto("nap", IF i < SIGNALS THEN "kill" ELSE "wait")
  /\ early' = IF Settled THEN early ELSE early + 1
  /\ UNCHANGED <<i, cpc, signal_count, pending, handling>>

(* wait(NULL) *)
Wait ==
  /\ ParentGoto("wait", "end")
  /\ cpc \in {"zombie", "killed"}
  /\ cpc' = "reaped"
  /\ UNCHANGED <<i, signal_count, pending, handling, early>>

Parent == Fork \/ FirstNapEnds \/ Kill \/ NapEnds \/ Wait

-----------------------------------------------------------------------------
(***************************************************************************)
(* The child                                                               *)
(***************************************************************************)
ChildGoto(from, to) == cpc = from /\ cpc' = to /\ handling = 0

(* signal(SIGUSR1, signal_handler) *)
Register ==
  /\ ChildGoto("register", "test")
  /\ UNCHANGED <<ppc, i, signal_count, pending, handling, early>>

(* Mutant: the child waits for one signal more. *)
TestMore ==
  /\ ChildGoto("test", IF signal_count <= SIGNALS THEN "call" ELSE "zombie")
  /\ pending' = IF cpc' = "zombie" THEN 0 ELSE pending
  /\ UNCHANGED <<ppc, i, signal_count, handling, early>>

(* while(signal_count < 5); a child that ends takes its pending signal     *)
(* along                                                                   *)
Test ==
  /\ ChildGoto("test", IF signal_count < SIGNALS THEN "call" ELSE "zombie")
  /\ pending' = IF cpc' = "zombie" THEN 0 ELSE pending
  /\ UNCHANGED <<ppc, i, signal_count, handling, early>>

Pause ==
  /\ ChildGoto("call", "pause")
  /\ UNCHANGED <<ppc, i, signal_count, pending, handling, early>>

(* The kernel interrupts the child wherever it is. *)
EnterHandler ==
  /\ Alive /\ cpc # "register"
  /\ pending = 1 /\ handling = 0
  /\ pending' = 0
  /\ handling' = 1
  /\ UNCHANGED <<ppc, i, cpc, signal_count, early>>

(* signal_count++ and the return of the handler, which ends a pause() but  *)
(* not the way into one                                                    *)
Count ==
  /\ handling = 1
  /\ handling' = 0
  /\ signal_count' = signal_count + 1
  /\ cpc' = IF cpc = "pause" THEN "test" ELSE cpc
  /\ UNCHANGED <<ppc, i, pending, early>>

TheChild == Register \/ Test \/ Pause \/ EnterHandler \/ Count

Next == Parent \/ ForkFails \/ TheChild

Spec == Init /\ [][Next]_vars

(* Both processes run, and a pending signal is delivered. *)
FairSpec == Spec /\ WF_vars(Parent) /\ WF_vars(TheChild)

-----------------------------------------------------------------------------
TypeOK ==
  /\ ppc \in ParentStep
  /\ i \in 0..SIGNALS
  /\ cpc \in ChildStep
  /\ signal_count \in 0..SIGNALS
  /\ pending \in 0..1
  /\ handling \in 0..1
  /\ early \in Nat

(* The signals the child has counted, counts now or has pending *)
Received == signal_count + handling + pending

(* Signals merge, but each that is lost is owed to one nap that was too    *)
(* short for what it waits for, and none is counted twice: what has been   *)
(* received was sent, what a living child has not received of it is no     *)
(* more than the naps that ended too early, a child is killed by its first *)
(* signal (line 59 before line 40) after such a nap only, and one that     *)
(* ends has counted all (line 43), which are then sent.                    *)
SignalsAccounted ==
  /\ Received <= i
  /\ Alive => i <= Received + early
  /\ cpc = "killed" => early > 0
  /\ cpc = "zombie" => signal_count = SIGNALS /\ i = SIGNALS

(* If no nap is too short, both processes come to an end ("Wait for child  *)
(* process to finish before parent finishes", line 63).                    *)
BothEnd == <>(early > 0 \/ (ppc = "end" /\ cpc \in {"off", "reaped"}))
=============================================================================
