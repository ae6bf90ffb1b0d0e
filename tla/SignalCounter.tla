--------------------------- MODULE SignalCounter ----------------------------
(***************************************************************************)
(* basic_signal.c and sigalrm_create_timer.c: a program that does nothing  *)
(* but count a signal in its handler, and ends there when it has counted   *)
(* LIMIT.  In the one it is SIGINT, sent by the user; in the other it is   *)
(* SIGALRM, of an alarm that each handler sets again.                      *)
(*                                                                         *)
(* A pending signal is one bit, and the signal is blocked while its        *)
(* handler runs; alarm(1) may be over before that handler returns.         *)
(***************************************************************************)
EXTENDS Integers

CONSTANTS
  LIMIT,          \* 3 in basic_signal.c, 10 in sigalrm_create_timer.c
  MaxPressed      \* how often the user presses Ctrl+C

VARIABLES
  program,        \* "sigint" or "sigalrm", which of the two is run
  pc,             \* where main is
  handler,        \* where the handler is, "none" when it does not run
  count,          \* sigint_count, seconds_elapsed
  armed,          \* 1 if the alarm is set
  pending,        \* 1 if the signal is pending
  sent,           \* history: how often it was sent
  merged          \* history: how often it was sent while it was pending

vars == <<program, pc, handler, count, armed, pending, sent, merged>>

Init ==
  /\ program \in {"sigint", "sigalrm"}
  /\ pc = "register" /\ handler = "none"
  /\ count = 0 /\ armed = 0 /\ pending = 0
  /\ sent = 0 /\ merged = 0

Alive == pc \notin {"exit", "killed"}

(* The signal is sent once more; without a handler it is fatal.            *)
Signalled ==
  /\ sent' = sent + 1
  /\ IF pc = "register"
       THEN pc' = "killed" /\ UNCHANGED <<pending, merged>>
       ELSE pc' = pc /\ pending' = 1 /\ merged' = merged + pending
  /\ UNCHANGED <<program, handler, count>>

(* The user presses Ctrl+C. *)
Press ==
  /\ program = "sigint" /\ Alive /\ sent < MaxPressed
  /\ Signalled
  /\ armed' = armed

(* A second is over. *)
Expire ==
  /\ Alive /\ armed = 1
  /\ armed' = 0
  /\ Signalled

-----------------------------------------------------------------------------
(* main, between its signals *)
Main(from, to) ==
  /\ handler = "none" /\ pc = from
  /\ pc' = to
  /\ UNCHANGED <<program, handler, count, pending, sent, merged>>

(* signal(SIGINT, ...), signal(SIGALRM, ...) *)
Register ==
  /\ Main("register", IF program = "sigalrm" THEN "arm" ELSE "call")
  /\ armed' = armed

(* the first alarm(1) *)
Arm == Main("arm", "call") /\ armed' = 1

(* while(1) pause() *)
Pause == Main("call", "pause") /\ armed' = armed

-----------------------------------------------------------------------------
(* The handler *)
Handler(from, to) ==
  /\ Alive /\ handler = from
  /\ handler' = to
  /\ UNCHANGED <<program, sent, merged>>

(* The kernel interrupts main wherever it is. *)
Enter ==
  /\ Handler("none", "count")
  /\ pending = 1 /\ pending' = 0
  /\ UNCHANGED <<pc, count, armed>>

Count ==
  /\ Handler("count", "test")
  /\ count' = count + 1
  /\ UNCHANGED <<pc, armed, pending>>

(* Mutant: > for >=. *)
TestMore ==
  /\ Handler("test", IF count > LIMIT THEN "none" ELSE IF program = "sigalrm" THEN "alarm" ELSE "return")
  /\ pc' = IF count > LIMIT THEN "exit" ELSE pc
  /\ UNCHANGED <<count, armed, pending>>

(* if(count >= LIMIT) exit(EXIT_SUCCESS) *)
Test ==
  /\ Handler("test", IF count >= LIMIT THEN "none" ELSE IF program = "sigalrm" THEN "alarm" ELSE "return")
  /\ pc' = IF count >= LIMIT THEN "exit" ELSE pc
  /\ UNCHANGED <<count, armed, pending>>

(* Mutant: the alarm is not set again. *)
RenewNothing ==
  /\ Handler("alarm", "return")
  /\ UNCHANGED <<pc, armed, count, pending>>

(* alarm(1): "This is the key step" *)
Renew ==
  /\ Handler("alarm", "return")
  /\ armed' = 1
  /\ UNCHANGED <<pc, count, pending>>

(* A return ends pause(), not the way into it. *)
Return ==
  /\ Handler("return", "none")
  /\ pc' = IF pc = "pause" THEN "call" ELSE pc
  /\ UNCHANGED <<count, armed, pending>>

Program ==
  Register \/ Arm \/ Pause \/ Enter \/ Count \/ Test \/ Renew \/ Return

Next == Program \/ Expire \/ Press

Spec == Init /\ [][Next]_vars

(* The program and the clock run; nobody has to press a key. *)
FairSpec == Spec /\ WF_vars(Program) /\ WF_vars(Expire)

-----------------------------------------------------------------------------
(* A signal that has been taken and is not counted yet *)
Counting == IF handler = "count" THEN 1 ELSE 0

(* Each signal sent is counted, pending or in the handler, or came while   *)
(* another one was pending and is lost.  The timer loses none: at any time *)
(* one second is under way, or its signal is on the way to being counted,  *)
(* or the handler is about to start the next.  So it ends after LIMIT      *)
(* seconds, no more and no less.                                           *)
TimerKeepsTime ==
  /\ pc # "killed" => count + Counting + pending = sent - merged
  /\ program = "sigalrm" => merged = 0 /\ pc # "killed"
  /\ program = "sigalrm" /\ pc \in {"call", "pause"} =>
       armed + pending + (IF handler \in {"count", "test", "alarm"} THEN 1 ELSE 0) = 1
  /\ program = "sigalrm" /\ pc = "exit" => sent = LIMIT /\ armed = 0 /\ pending = 0

(* The timer comes to its end, and "The program will exit after the 3rd    *)
(* Ctrl + C" (basic_signal.c line 34) if each is pressed when the one      *)
(* before has been taken.                                                  *)
LimitEnds ==
  program = "sigalrm" \/ (sent >= LIMIT /\ merged = 0) ~> ~Alive \/ merged > 0
=============================================================================
