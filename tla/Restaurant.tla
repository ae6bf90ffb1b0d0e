----------------------------- MODULE Restaurant -----------------------------
(***************************************************************************)
(* The life of restaurant_manager_final.c from main() to the last Ctrl+C:  *)
(* hiring the five workers with fork(), opening, and the SIGINT handler    *)
(* cleanup(), around the kitchen of Kitchen.tla.                           *)
(*                                                                         *)
(* Signals make this part hard: the workers are forked before the handler  *)
(* is registered and so die of a Ctrl+C by themselves, anywhere in their   *)
(* round; the handler interrupts the report loop anywhere and returns into *)
(* it; a pid in child_pids is never forgotten.                             *)
(***************************************************************************)
EXTENDS Kitchen, Sequences, FiniteSets

CONSTANTS
  Crew,             \* the workers in the order of the hiring loop and of child_pids;
                    \* the program's is ProgramCrew below
  MaxInterrupts,    \* how many SIGINTs the environment sends
  MaxReused         \* how many of the workers' pids it gives to other programs

ASSUME CrewAssumption ==
  /\ Crew \in Seq(Worker) /\ Len(Crew) > 0
  /\ \A i, j \in DOMAIN Crew : Crew[i] = Crew[j] => i = j

ASSUME BoundsAssumption == MaxInterrupts \in Nat /\ MaxReused \in Nat

VARIABLES
  boss,       \* what the manager is doing
  turn,       \* the loop index i of the hiring loop and of the two loops of cleanup
  life,       \* what the pid of each worker stands for
  sigint,     \* is a SIGINT pending for the manager?
  interrupts, \* SIGINTs sent so far
  closings,   \* runs of cleanup begun so far
  mapped      \* the addresses where the manager has memory mapped

kitchen   == vars
lifecycle == <<boss, turn, life, sigint, interrupts, closings, mapped>>
all       == <<vars, lifecycle>>

(* i == 0 to i == 4 of the hiring loop *)
ProgramCrew == <<"donatello", "portecelli", "customer1", "customer2", "customer3">>

(* NUM_CHEFS + NUM_CUSTOMERS *)
CrewSize == Len(Crew)

BossPhase == {"hire", "open", "report", "kill", "wait", "release", "dead"}

(* "none": not forked yet.  "doomed": a deadly signal is on its way.       *)
(* "zombie": dead, not waited for.  "gone": the pid is free again.         *)
(* "stranger": the pid belongs to another program's process now, which is  *)
(* "struck" when the manager kills it.                                     *)
LifeStage == {"none", "alive", "doomed", "zombie", "gone", "stranger", "struck"}

Running(w) == life[w] \in {"alive", "doomed"}
Child(w)   == life[w] \in {"alive", "doomed", "zombie"}

RestaurantInit ==
  /\ Init
  /\ boss = "hire"
  /\ turn = 1
  /\ life = [w \in Worker |-> "none"]
  /\ sigint = FALSE
  /\ interrupts = 0
  /\ closings = 0
  /\ mapped = {"shared_space"}

-----------------------------------------------------------------------------
(***************************************************************************)
(* main(): hiring and opening                                              *)
(***************************************************************************)
Hire ==
  /\ boss = "hire"
  /\ life' = [life EXCEPT ![Crew[turn]] = "alive"]
  /\ IF turn < CrewSize
       THEN turn' = turn + 1 /\ boss' = boss
       ELSE turn' = 1 /\ boss' = "open"
  /\ UNCHANGED <<kitchen, sigint, interrupts, closings, mapped>>

(* The manager's death: workers still alive stay at work without it, its   *)
(* zombies are reaped by init.                                             *)
ManagerGone ==
  /\ boss' = "dead"
  /\ mapped' = {}

(* fork() < 0: exit(1), with the workers hired so far at work *)
ForkFails ==
  /\ boss = "hire"
  /\ ManagerGone
  /\ UNCHANGED <<kitchen, turn, life, sigint, interrupts, closings>>

(* signal(SIGINT, cleanup); the report loop begins *)
RegisterCleanup ==
  /\ boss = "open"
  /\ boss' = "report"
  /\ UNCHANGED <<kitchen, turn, life, sigint, interrupts, closings, mapped>>

(***************************************************************************)
(* The environment                                                         *)
(***************************************************************************)
(* Mutant: cleanup is never registered. *)
InterruptManagerByDefault == ManagerGone /\ sigint' = sigint

(* SIGINT to the manager: it kills by default until the handler is         *)
(* registered, waits while the handler runs, and two waiting are one.      *)
InterruptManager ==
  IF boss \in {"hire", "open"}
    THEN ManagerGone /\ sigint' = sigint
    ELSE sigint' = TRUE /\ UNCHANGED <<boss, mapped>>

CanInterrupt ==
  /\ interrupts < MaxInterrupts
  /\ interrupts' = interrupts + 1
  /\ boss # "dead"

(* kill -INT of the manager's pid *)
KillInt ==
  /\ CanInterrupt
  /\ InterruptManager
  /\ UNCHANGED <<kitchen, turn, life, closings>>

(* Ctrl+C signals the whole foreground group.  The workers were forked     *)
(* with the default action and never change it.                            *)
CtrlC ==
  /\ CanInterrupt
  /\ InterruptManager
  /\ life' = [w \in Worker |-> IF life[w] = "alive" THEN "doomed" ELSE life[w]]
  /\ UNCHANGED <<kitchen, turn, closings>>

(* A signalled worker dies wherever it is: in a sem_wait, in its sleep or  *)
(* with a mutex in its hands.                                              *)
Die(w) ==
  /\ life[w] = "doomed"
  /\ life' = [life EXCEPT ![w] = IF boss = "dead" THEN "gone" ELSE "zombie"]
  /\ UNCHANGED <<kitchen, boss, turn, sigint, interrupts, closings, mapped>>

(* A free pid is given to somebody else's process. *)
PidReused(w) ==
  /\ life[w] = "gone"
  /\ boss # "dead"
  /\ Cardinality({v \in Worker : life[v] \in {"stranger", "struck"}}) < MaxReused
  /\ life' = [life EXCEPT ![w] = "stranger"]
  /\ UNCHANGED <<kitchen, boss, turn, sigint, interrupts, closings, mapped>>

-----------------------------------------------------------------------------
(***************************************************************************)
(* cleanup(), as a signal handler                                          *)
(***************************************************************************)
EnterCleanup ==
  /\ boss = "report"
  /\ sigint
  /\ boss' = "kill"
  /\ turn' = 1
  /\ sigint' = FALSE
  /\ closings' = closings + 1
  /\ UNCHANGED <<kitchen, life, interrupts, mapped>>

(* The loop index after this pass: cleanup goes on to phase "next" when    *)
(* the five are done.                                                      *)
NextTurn(next) ==
  IF turn < CrewSize
    THEN turn' = turn + 1 /\ boss' = boss
    ELSE turn' = 1 /\ boss' = next

(* kill(child_pids[i], SIGKILL): the pid is taken for what it stands for   *)
(* now.                                                                    *)
AfterKill(stage) ==
  CASE stage = "alive"    -> "doomed"
    [] stage = "stranger" -> "struck"
    [] OTHER              -> stage

(* Mutant: the workers are killed and not waited for. *)
KillChildOnly ==
  /\ boss = "kill"
  /\ life' = [life EXCEPT ![Crew[turn]] = AfterKill(@)]
  /\ NextTurn("release")
  /\ UNCHANGED <<kitchen, sigint, interrupts, closings, mapped>>

KillChild ==
  /\ boss = "kill"
  /\ life' = [life EXCEPT ![Crew[turn]] = AfterKill(@)]
  /\ NextTurn("wait")
  /\ UNCHANGED <<kitchen, sigint, interrupts, closings, mapped>>

(* Mutants: waitpid with WNOHANG; a wait that needs a child to wait for;   *)
(* another pass of kill after the waits.                                   *)
WaitChildNoHang ==
  /\ boss = "wait"
  /\ \/ \E w \in Worker :
          life[w] = "zombie" /\ life' = [life EXCEPT ![w] = "gone"]
     \/ ~(\E w \in Worker : life[w] = "zombie") /\ life' = life
  /\ NextTurn("release")
  /\ UNCHANGED <<kitchen, sigint, interrupts, closings, mapped>>
WaitChildOnly ==
  /\ boss = "wait"
  /\ \E w \in Worker :
       life[w] = "zombie" /\ life' = [life EXCEPT ![w] = "gone"]
  /\ NextTurn("release")
  /\ UNCHANGED <<kitchen, sigint, interrupts, closings, mapped>>
WaitChildKillAgain ==
  /\ boss = "wait"
  /\ \/ \E w \in Worker :
          life[w] = "zombie" /\ life' = [life EXCEPT ![w] = "gone"]
     \/ ~(\E w \in Worker : Child(w)) /\ life' = life
  /\ NextTurn("kill")
  /\ UNCHANGED <<kitchen, sigint, interrupts, closings, mapped>>

(* wait(NULL) takes any zombie, and returns at once when no child is left. *)
WaitChild ==
  /\ boss = "wait"
  /\ \/ \E w \in Worker :
          life[w] = "zombie" /\ life' = [life EXCEPT ![w] = "gone"]
     \/ ~(\E w \in Worker : Child(w)) /\ life' = life
  /\ NextTurn("release")
  /\ UNCHANGED <<kitchen, sigint, interrupts, closings, mapped>>

(* The handler's parameter is the signal number, whatever type cleanup     *)
(* declares: the six sem_destroy calls touch no semaphore (and do nothing  *)
(* in glibc), munmap is given the address SIGINT.                          *)
HandlerArgument == "SIGINT"

(* Mutant: cleanup gives back the mutexes it finds taken. *)
ReleaseSpaceAndMutexes ==
  /\ boss = "release"
  /\ mapped' = mapped \ {HandlerArgument}
  /\ boss' = "report"
  /\ mutex' = [t \in Tray |-> 1]
  /\ UNCHANGED <<cells, in, out, count, empty, full, pc, at, reg, mgr, report>>
  /\ UNCHANGED <<turn, life, sigint, interrupts, closings>>

(* The handler returns into the loop it interrupted. *)
ReleaseSpace ==
  /\ boss = "release"
  /\ mapped' = mapped \ {HandlerArgument}
  /\ boss' = "report"
  /\ UNCHANGED <<kitchen, turn, life, sigint, interrupts, closings>>

Cleanup == EnterCleanup \/ KillChild \/ WaitChild \/ ReleaseSpace

-----------------------------------------------------------------------------
ReportLoop == boss = "report" /\ ManagerNext /\ UNCHANGED lifecycle

Work(w) == Running(w) /\ WorkerNext(w) /\ UNCHANGED lifecycle

Manage == Hire \/ RegisterCleanup \/ Cleanup \/ ReportLoop

Environment == ForkFails \/ KillInt \/ CtrlC \/ \E w \in Worker : PidReused(w)

RestaurantNext ==
  \/ Manage
  \/ Environment
  \/ \E w \in Worker : Work(w) \/ Die(w)

RestaurantSpec == RestaurantInit /\ [][RestaurantNext]_all

(* A process that can run runs, a deadly signal is taken in the end, and a *)
(* manager waiting for a mutex that is posted again and again gets it.     *)
RestaurantFairness ==
  /\ WF_all(Hire \/ RegisterCleanup \/ Cleanup)
  /\ SF_all(ReportLoop)
  /\ \A w \in Worker : WF_all(Work(w)) /\ WF_all(Die(w))

FairRestaurantSpec == RestaurantSpec /\ RestaurantFairness

-----------------------------------------------------------------------------
(* When cleanup comes to the semaphores and the memory (lines 197 to 205), *)
(* no worker that uses them is left: each of the five is dead and waited   *)
(* for, however it died.                                                   *)
NoWorkerAtRelease ==
  boss = "release" => \A w \in Worker : ~Child(w)

(* The first cleanup signals the manager's own children only: none of them *)
(* has been waited for yet, so every pid in child_pids is still theirs,    *)
(* also when a Ctrl+C has already killed its owner.                        *)
FirstCleanupSparesStrangers ==
  closings <= 1 => \A w \in Worker : life[w] # "struck"

(* After a cleanup the trays never change again (lines 181 to 194 stop all *)
(* the workers, and the handler returns to a loop that only reads).        *)
ClosedTraysAreStill ==
  [][closings > 0 /\ boss \in {"release", "report"}
       => UNCHANGED <<cells, in, out, count, empty, full, pc>>]_all

(* A worker that dies between sem_wait and sem_post of a mutex (lines 57   *)
(* to 66 and their like) may leave a tray half updated, its counter not    *)
(* yet changed or its index not yet moved.  Whoever comes after it, no     *)
(* worker changes such a tray and no manager reads it for a report: what   *)
(* jams the restaurant also keeps the torn state unseen.                   *)
Torn(t) == \E w \in Worker : Holds(w, t) /\ ~Running(w)

TornTraysStayShut ==
  [][\A t \in Tray :
       Torn(t) => /\ in'[t] = in[t] /\ out'[t] = out[t] /\ count'[t] = count[t]
                  /\ Holders(t)' = Holders(t)
                  /\ ~ManagerHolds(t)']_all

(* Every cleanup comes to its end: wait(NULL) is called no more often than *)
(* it can return.                                                          *)
CleanupEnds == boss = "kill" ~> boss = "report"

(* The manager reports again and again as long as it lives, unless some    *)
(* worker has died with a mutex in its hands.                              *)
DiedHolding == \E t \in Tray : Torn(t)

ReportsUnlessHolderDies ==
  \/ []<>(mgr = "v_unlock")
  \/ <>(boss = "dead")
  \/ <>[]DiedHolding

(* When the manager is gone (a failed fork, lines 225 to 228, or a SIGINT  *)
(* that comes before line 256), nobody stops the workers it leaves behind, *)
(* and nothing it did or died in stops them either: each serves its tray   *)
(* again and again, or waits for a dish or a place because somebody of the *)
(* crew was never hired.                                                   *)
WholeCrewAlive == \A i \in DOMAIN Crew : life[Crew[i]] = "alive"

OrphansWorkOn ==
  \A w \in Worker :
    boss = "dead" /\ life[w] = "alive"
      ~> pc[w] = "post" \/ (pc[w] = "slot" /\ ~WholeCrewAlive)

(***************************************************************************)
(* What the source says of closing, and the program does not do            *)
(***************************************************************************)

(* "Press Ctrl+C to close" (line 258): a cleaned-up restaurant's manager   *)
(* comes to an end.                                                        *)
CtrlCCloses == closings > 0 ~> boss = "dead"
=============================================================================
