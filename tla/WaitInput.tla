----------------------------- MODULE WaitInput ------------------------------
(***************************************************************************)
(* wait_signal_user_input.c: a loop of select() and read() on the standard *)
(* input that echoes what is typed, with handlers for SIGINT and SIGTERM.  *)
(*                                                                         *)
(* A signal is taken between any two steps; one taken while select() waits *)
(* makes select() fail with EINTR, handler or not.                         *)
(***************************************************************************)
EXTENDS Integers, Sequences

CONSTANTS MaxTyped,     \* how many pieces of input the user types, Ctrl+D included
          MaxSignals    \* how many signals are sent

VARIABLES
  pc,           \* where the program is
  registered,   \* the signals that have a handler
  pending,      \* the signals sent and not taken yet
  sent,         \* how many signals have been sent, of each kind
  typed,        \* how many pieces have been typed so far
  input,        \* those typed and not read yet, each "text" or "end" (Ctrl+D)
  buffer,       \* what read() has returned, "end" for nothing
  eof           \* has the input been closed for good?

vars == <<pc, registered, pending, sent, typed, input, buffer, eof>>

Signal == {"SIGINT", "SIGTERM"}
Step   == {"register", "select", "read", "print", "error", "exit0", "exit1", "killed"}
Ended  == pc \in {"exit0", "exit1", "killed"}

Init ==
  /\ pc = "register"
  /\ registered = {} /\ pending = {}
  /\ sent = [s \in Signal |-> 0]
  /\ typed = 0 /\ input = << >> /\ buffer = "end"
  /\ eof = FALSE

Goto(from, to) == pc = from /\ pc' = to

(* select() sees the end of the input as something to read, too. *)
Readable == input # << >> \/ eof

-----------------------------------------------------------------------------
(* The user; a Ctrl+D ends the input of a terminal for one read() only. *)
Type ==
  /\ typed < MaxTyped /\ ~eof /\ ~Ended
  /\ typed' = typed + 1
  /\ \E piece \in {"text", "end"} : input' = Append(input, piece)
  /\ UNCHANGED <<pc, registered, pending, sent, buffer, eof>>

(* A pipe is closed, or a terminal goes away: every read() finds the end.  *)
CloseInput ==
  /\ ~eof /\ ~Ended
  /\ eof' = TRUE
  /\ UNCHANGED <<pc, registered, pending, sent, typed, input, buffer>>

SendSignal(s) ==
  /\ ~Ended
  /\ sent["SIGINT"] + sent["SIGTERM"] < MaxSignals
  /\ sent' = [sent EXCEPT ![s] = @ + 1]
  /\ pending' = pending \union {s}
  /\ UNCHANGED <<pc, registered, typed, input, buffer, eof>>

-----------------------------------------------------------------------------
(* signal(SIGINT, ...), then signal(SIGTERM, ...) *)
Register ==
  /\ pc = "register"
  /\ IF registered = {}
       THEN registered' = {"SIGINT"} /\ pc' = pc
       ELSE registered' = Signal /\ pc' = "select"
  /\ UNCHANGED <<pending, sent, typed, input, buffer, eof>>

Select ==
  /\ Goto("select", "read") /\ Readable
  /\ UNCHANGED <<registered, pending, sent, typed, input, buffer, eof>>

(* read() takes a piece, or finds the input closed. *)
Read ==
  /\ Goto("read", "print")
  /\ IF input # << >>
       THEN buffer' = Head(input) /\ input' = Tail(input)
       ELSE buffer' = "end" /\ input' = input
  /\ UNCHANGED <<registered, pending, sent, typed, eof>>

(* if(bytes_read > 0) printf, and the next pass, which reads anew *)
Echo ==
  /\ Goto("print", "select")
  /\ buffer' = "end"
  /\ UNCHANGED <<registered, pending, sent, typed, input, eof>>

(* if(retval == -1) perror and exit(1) *)
Fail ==
  /\ Goto("error", "exit1")
  /\ UNCHANGED <<registered, pending, sent, typed, input, buffer, eof>>

(* Mutant: the SIGTERM handler returns. *)
AfterAny(s) == IF pc = "select" THEN "error" ELSE pc

(* What a handled signal leads to: SIGTERM exits, SIGINT fails the select  *)
(* it finds waiting and otherwise leaves the program where it is.          *)
After(s) ==
  IF s = "SIGTERM" THEN "exit0"
  ELSE IF pc = "select" THEN "error" ELSE pc

(* A select() that finds input returns before the signal is taken. *)
TakeSignal(s) ==
  /\ s \in pending /\ ~Ended
  /\ pc = "select" => ~Readable
  /\ pending' = pending \ {s}
  /\ pc' = IF s \in registered THEN After(s) ELSE "killed"
  /\ UNCHANGED <<registered, sent, typed, input, buffer, eof>>

Program ==
  Register \/ Select \/ Read \/ Echo \/ Fail \/ \E s \in Signal : TakeSignal(s)

Next == Program \/ Type \/ CloseInput \/ \E s \in Signal : SendSignal(s)

Spec == Init /\ [][Next]_vars

(* The program runs, and takes a signal in the end, also while it never    *)
(* waits: at the end of the input select() returns at once, for ever.      *)
FairSpec == Spec /\ WF_vars(Program) /\ \A s \in Signal : SF_vars(TakeSignal(s))

-----------------------------------------------------------------------------
(* SIGTERM ends the program, wherever it finds it. *)
TermEnds == sent["SIGTERM"] > 0 ~> Ended
=============================================================================
