------------------------------ MODULE Signals ------------------------------
(***************************************************************************)
(* The programs of Exercise_Lesson_5 know nothing of each other.  One run  *)
(* looks at all of them: run says which of the three specifications a      *)
(* behaviour follows, and the variables of the two others stay as they     *)
(* are.                                                                    *)
(***************************************************************************)
EXTENDS SignalChild

CONSTANTS MaxTyped, MaxSignals, LIMIT, MaxPressed

ASSUME LimitAssumption == LIMIT \in Nat \ {0}

VARIABLES
  run,
  pc, registered, i_pending, sent, typed, input, buffer, eof,
  program, main, handler, count, armed, c_pending, presses, merged

inputVars   == <<pc, registered, i_pending, sent, typed, input, buffer, eof>>
counterVars == <<program, main, handler, count, armed, c_pending, presses, merged>>
allVars     == <<run, vars, inputVars, counterVars>>

Input   == INSTANCE WaitInput WITH pending <- i_pending
Counter == INSTANCE SignalCounter
             WITH pc <- main, pending <- c_pending, sent <- presses

AllInit ==
  run \in {"child", "input", "counter"} /\ Init /\ Input!Init /\ Counter!Init

ChildRuns   == run = "child"   /\ Next         /\ UNCHANGED <<run, inputVars, counterVars>>
InputRuns   == run = "input"   /\ Input!Next   /\ UNCHANGED <<run, vars, counterVars>>
CounterRuns == run = "counter" /\ Counter!Next /\ UNCHANGED <<run, vars, inputVars>>

AllNext == ChildRuns \/ InputRuns \/ CounterRuns

AllSafe == AllInit /\ [][AllNext]_allVars

(* The fairness of whichever is run *)
AllSpec ==
  /\ AllSafe
  /\ WF_allVars(ChildRuns /\ Parent) /\ WF_allVars(ChildRuns /\ TheChild)
  /\ WF_allVars(InputRuns /\ Input!Program)
  /\ \A s \in Input!Signal : SF_allVars(InputRuns /\ Input!TakeSignal(s))
  /\ WF_allVars(CounterRuns /\ Counter!Program)
  /\ WF_allVars(CounterRuns /\ Counter!Expire)

(* The programs that count to a limit come to an end: parent and child if  *)
(* the naps suffice, the timer always, basic_signal.c if no signal has     *)
(* been merged.                                                            *)
CountersEnd ==
  /\ run = "child" => BothEnd
  /\ run = "counter" => Counter!LimitEnds

(* wait_signal_user_input.c: SIGTERM ends the program.                     *)
TermEnds == run = "input" => Input!TermEnds

(* sigalrm_create_timer.c loses no second, basic_signal.c no signal but    *)
(* those that were merged.                                                 *)
TimerKeepsTime == Counter!TimerKeepsTime
=============================================================================
