--------------------------- MODULE SignalsProofs ----------------------------
(***************************************************************************)
(* Two of the programs with signals.                                       *)
(*                                                                         *)
(* Parent and child: however long or short the naps are and however many   *)
(* signals are sent, no signal is counted twice, the child does not end    *)
(* early, and no more signals are lost than naps were too short.           *)
(*                                                                         *)
(* The timer: for every LIMIT it keeps time, at whatever points of main    *)
(* and of the handler the alarm goes off.                                  *)
(***************************************************************************)
EXTENDS Signals, TLAPS

-----------------------------------------------------------------------------
(***************************************************************************)
(* Parent and child                                                        *)
(***************************************************************************)
(* A signal is on its way to the child only while the child has a handler  *)
(* and has not ended; the parent sends while signals are left.             *)
ChildShape ==
  /\ handling = 1 => cpc \in {"test", "call", "pause"}
  /\ pending = 1 => cpc \in {"test", "call", "pause"}
  /\ ppc \in {"fork", "first_nap", "kill"} => i < SIGNALS
  /\ ppc \in {"fork", "first_nap"} => i = 0
  /\ cpc \in {"off", "register"} => signal_count = 0
  /\ ppc = "fork" => cpc = "off"

(* A signal that the child cannot receive any more separately, because one *)
(* is pending or because it has no handler, comes after an early nap that  *)
(* owes none yet.                                                          *)
NapIsSpare ==
  ppc = "kill" /\ (cpc = "register" \/ (Alive /\ pending = 1)) => i < Received + early

ChildInv == TypeOK /\ ChildShape /\ NapIsSpare /\ SignalsAccounted

LEMMA ChildStepPreserves == ChildInv /\ [Next]_vars => ChildInv'
  <1> SUFFICES ASSUME ChildInv, [Next]_vars PROVE ChildInv'
    OBVIOUS
  <1> USE SignalsAssumption DEF ChildInv, TypeOK, ParentStep, ChildStep, ChildShape,
          NapIsSpare, SignalsAccounted, Received, Alive
  <1>1. CASE Parent \/ ForkFails
    <2>1. CASE Fork \/ ForkFails
      BY <2>1 DEF Fork, ForkFails, ParentGoto
    <2>2. CASE FirstNapEnds
      BY <2>2 DEF FirstNapEnds, ParentGoto
    <2>3. CASE Kill
      BY <2>3 DEF Kill, ParentGoto
    <2>4. CASE NapEnds
      BY <2>4 DEF NapEnds, ParentGoto, Settled
    <2>5. CASE Wait
      BY <2>5 DEF Wait, ParentGoto
    <2>6. QED
      BY <1>1, <2>1, <2>2, <2>3, <2>4, <2>5 DEF Parent
  <1>2. CASE TheChild
    <2>1. CASE Register
      BY <2>1 DEF Register, ChildGoto
    <2>2. CASE Test
      BY <2>2 DEF Test, ChildGoto
    <2>3. CASE Pause
      BY <2>3 DEF Pause, ChildGoto
    <2>4. CASE EnterHandler
      BY <2>4 DEF EnterHandler
    <2>5. CASE Count
      BY <2>5 DEF Count
    <2>6. QED
      BY <1>2, <2>1, <2>2, <2>3, <2>4, <2>5 DEF TheChild
  <1>3. CASE UNCHANGED vars
    BY <1>3 DEF vars
  <1>4. QED
    BY <1>1, <1>2, <1>3 DEF Next

THEOREM SignalInvariance == Spec => []ChildInv
  <1>1. Init => ChildInv
    BY SignalsAssumption DEF Init, ChildInv, TypeOK, ParentStep, ChildStep, ChildShape,
       NapIsSpare, SignalsAccounted, Received, Alive
  <1>2. QED
    BY <1>1, ChildStepPreserves, PTL DEF Spec

(* For every number of signals and every length of the naps: as many       *)
(* signals are lost at most as naps were too short, none is counted twice, *)
(* and the child ends after the last one only.                             *)
THEOREM NapsAccountForSignals == Spec => []SignalsAccounted
  BY SignalInvariance, PTL DEF ChildInv

-----------------------------------------------------------------------------
(***************************************************************************)
(* The timer                                                               *)
(***************************************************************************)
TimerTypeOK ==
  /\ program \in {"sigint", "sigalrm"}
  /\ main \in {"register", "arm", "call", "pause", "exit", "killed"}
  /\ handler \in {"none", "count", "test", "alarm", "return"}
  /\ count \in 0..LIMIT
  /\ armed \in 0..1 /\ c_pending \in 0..1
  /\ presses \in Nat /\ merged \in Nat

(* Nothing is sent before the handler is there; the alarm belongs to the   *)
(* timer; the handler goes on to "alarm" and "return" while signals are    *)
(* left to count, and a program that goes on has not counted them all.     *)
TimerShape ==
  /\ main \in {"register", "arm"} => armed = 0 /\ handler = "none"
  /\ main = "register" => presses = 0 /\ c_pending = 0
  /\ main \in {"register", "arm"} /\ program = "sigalrm" => c_pending = 0
  /\ program = "sigint" => armed = 0 /\ handler # "alarm" /\ main # "arm"
  /\ main \in {"exit", "killed"} => handler = "none"
  /\ main = "exit" => count = LIMIT
  /\ main # "exit" /\ handler # "test" => count < LIMIT

TimerInv == TimerTypeOK /\ TimerShape /\ Counter!TimerKeepsTime

LEMMA TimerStepPreserves ==
  ASSUME TimerInv, [Counter!Next]_counterVars PROVE TimerInv'
  <1> USE LimitAssumption DEF TimerInv, TimerTypeOK, TimerShape, Counter!TimerKeepsTime, Counter!Counting
  <1>1. CASE Counter!Press
    BY <1>1 DEF Counter!Press, Counter!Signalled, Counter!Alive
  <1>2. CASE Counter!Expire
    BY <1>2 DEF Counter!Expire, Counter!Signalled, Counter!Alive
  <1>3. CASE Counter!Program
    <2>1. CASE Counter!Register
      BY <2>1 DEF Counter!Register, Counter!Main
    <2>2. CASE Counter!Arm
      BY <2>2 DEF Counter!Arm, Counter!Main
    <2>3. CASE Counter!Pause
      BY <2>3 DEF Counter!Pause, Counter!Main
    <2>4. CASE Counter!Enter
      BY <2>4 DEF Counter!Enter, Counter!Handler, Counter!Alive
    <2>5. CASE Counter!Count
      BY <2>5 DEF Counter!Count, Counter!Handler, Counter!Alive
    <2>6. CASE Counter!Test
      BY <2>6 DEF Counter!Test, Counter!Handler, Counter!Alive
    <2>7. CASE Counter!Renew
      BY <2>7 DEF Counter!Renew, Counter!Handler, Counter!Alive
    <2>8. CASE Counter!Return
      BY <2>8 DEF Counter!Return, Counter!Handler, Counter!Alive
    <2>9. QED
      BY <1>3, <2>1, <2>2, <2>3, <2>4, <2>5, <2>6, <2>7, <2>8 DEF Counter!Program
  <1>4. CASE UNCHANGED counterVars
    BY <1>4 DEF counterVars
  <1>5. QED
    BY <1>1, <1>2, <1>3, <1>4 DEF Counter!Next

LEMMA CounterTakesSteps ==
  AllSafe => Counter!Init /\ [][Counter!Next]_counterVars
  <1>1. AllInit => Counter!Init
    BY DEF AllInit
  <1>2. [AllNext]_allVars => [Counter!Next]_counterVars
    BY DEF AllNext, ChildRuns, InputRuns, CounterRuns, allVars
  <1>3. QED
    BY <1>1, <1>2, PTL DEF AllSafe

(* The timer loses no second and ends after LIMIT of them; no signal goes  *)
(* uncounted but those that were merged.                                   *)
THEOREM TheTimerKeepsTime == AllSpec => []TimerKeepsTime
  <1>1. Counter!Init => TimerInv
    BY LimitAssumption DEF Counter!Init, TimerInv, TimerTypeOK, TimerShape,
       Counter!TimerKeepsTime, Counter!Counting
  <1>2. TimerInv /\ [Counter!Next]_counterVars => TimerInv'
    BY TimerStepPreserves
  <1>3. TimerInv => TimerKeepsTime
    BY DEF TimerInv, TimerKeepsTime
  <1>4. QED
    BY <1>1, <1>2, <1>3, CounterTakesSteps, PTL DEF AllSpec
=============================================================================
