-------------------------- MODULE RestaurantProofs --------------------------
(***************************************************************************)
(* Proofs about Kitchen.tla and Restaurant.tla, for every tray size the    *)
(* index arithmetic of BitAnd covers, every crew and any number of SIGINTs *)
(* and reused pids.                                                        *)
(*                                                                         *)
(* The kitchen comes first, as if its specification were all there is: the *)
(* inductive invariant IInv joins the semaphore accounting of both trays.  *)
(* None of its parts is inductive alone: the counter stays in range        *)
(* because it follows "full", "full" stays in range because places are     *)
(* conserved, and the load and store of the counter agree because the      *)
(* mutex admits one process at a time.  QueueInv, on top of it, follows    *)
(* the cells and indices of the vegetarian tray.                           *)
(*                                                                         *)
(* Then hiring, signals and cleanup: every step of the restaurant is a     *)
(* step of the kitchen or leaves it alone, so that the kitchen's           *)
(* invariants hold in the restaurant; what cleanup promises needs an       *)
(* invariant of its own.                                                   *)
(***************************************************************************)
EXTENDS Restaurant, TLAPS, FiniteSetTheorems

(* Only customer 3 ever leaves its first tray. *)
HomeTrays == \A w \in Worker \ {"customer3"} : at[w] = FirstTray(w)

(* Only customer 1's index can run past its array. *)
VeganOutInRange == out["v"] \in 0..(TRAY_SIZE - 1)

(* A worker about to store the counter still has its current value. *)
NoLostUpdate ==
  \A w \in Worker : pc[w] = "store" => reg[w] = count[at[w]]

(* What a report has printed so far is still true. *)
ReportFresh ==
  /\ mgr \in {"v_read", "v_unlock"} => report["nv"] = count["nv"]
  /\ mgr = "v_unlock" => report["v"] = count["v"]

IInv ==
  /\ TypeOK
  /\ HomeTrays
  /\ VeganOutInRange
  /\ MutualExclusion
  /\ PlacesConserved
  /\ CountTracksDishes
  /\ NoLostUpdate
  /\ ReportFresh

-----------------------------------------------------------------------------
(* x & y lies between 0 and y, for four-bit y *)
LEMMA BitAndBound ==
  ASSUME NEW x \in Nat, NEW y \in 0..15
  PROVE  BitAnd(x, y) \in 0..y
<1> DEFINE Share(k) == IF Bit(y, k) = 1 THEN k ELSE 0
<1>1. y = Share(1) + Share(2) + Share(4) + Share(8)
  BY DEF Bit
<1>2. \A k \in {1, 2, 4, 8} : BothSet(x, y, k) \in 0..Share(k) /\ Share(k) \in Nat
  BY DEF BothSet
<1> HIDE DEF Share
<1>3. QED
  BY <1>1, <1>2 DEF BitAnd

LEMMA NextInRange ==
  ASSUME NEW i \in 0..TRAY_SIZE
  PROVE  NextIn(i) \in 0..(TRAY_SIZE - 1)
BY TraySizeAssumption DEF NextIn

LEMMA NextOutRange ==
  ASSUME NEW w \in Worker, NEW i \in 0..TRAY_SIZE
  PROVE  /\ NextOut(w, i) \in 0..TRAY_SIZE
         /\ w # "customer1" => NextOut(w, i) \in 0..(TRAY_SIZE - 1)
<1>1. CASE w = "customer1"
  <2>1. BitAnd(i + 1, TRAY_SIZE) \in 0..TRAY_SIZE
    BY BitAndBound, TraySizeAssumption
  <2>2. QED
    BY <1>1, <2>1 DEF NextOut
<1>2. CASE w # "customer1"
  BY <1>2, TraySizeAssumption DEF NextOut
<1>3. QED
  BY <1>1, <1>2

(* If two sets of workers agree except perhaps on w, their tallies differ  *)
(* by w only.                                                              *)
LEMMA TallyChange ==
  ASSUME NEW S, NEW T, NEW w \in Worker,
         \A v \in Worker \ {w} : v \in S <=> v \in T
  PROVE  Tally(T) + One(w \in S) = Tally(S) + One(w \in T)
<1>1. CASE w = "donatello"
  BY <1>1 DEF Tally, One, Worker, Chef, Customer
<1>2. CASE w = "portecelli"
  BY <1>2 DEF Tally, One, Worker, Chef, Customer
<1>3. CASE w = "customer1"
  BY <1>3 DEF Tally, One, Worker, Chef, Customer
<1>4. CASE w = "customer2"
  BY <1>4 DEF Tally, One, Worker, Chef, Customer
<1>5. CASE w = "customer3"
  BY <1>5 DEF Tally, One, Worker, Chef, Customer
<1>6. QED
  BY <1>1, <1>2, <1>3, <1>4, <1>5 DEF Worker, Chef, Customer

(* Tallies are natural numbers, monotone, and count their members. *)
LEMMA TallyFacts ==
  ASSUME NEW S, NEW T, \A v \in Worker : v \in S => v \in T
  PROVE  /\ Tally(S) \in Nat
         /\ Tally(T) \in Nat
         /\ Tally(S) <= Tally(T)
         /\ \A w \in Worker : w \in S => Tally(S) >= 1
BY DEF Tally, One, Worker, Chef, Customer

(* A step that moves only worker w changes the three tallies of a tray by  *)
(* w's share.                                                              *)
LEMMA StepTallies ==
  ASSUME NEW w \in Worker, NEW t \in Tray,
         \A v \in Worker \ {w} : pc'[v] = pc[v] /\ at'[v] = at[v]
  PROVE  /\ Tally(Holders(t)') + One(Holds(w, t)) = Tally(Holders(t)) + One(Holds(w, t)')
         /\ Tally(Servers(t)') + One(Serving(w, t)) = Tally(Servers(t)) + One(Serving(w, t)')
         /\ Tally(Unannouncers(t)') + One(Unannounced(w, t))
              = Tally(Unannouncers(t)) + One(Unannounced(w, t)')
<1>1. \A v \in Worker \ {w} :
        /\ v \in Holders(t)' <=> v \in Holders(t)
        /\ v \in Servers(t)' <=> v \in Servers(t)
        /\ v \in Unannouncers(t)' <=> v \in Unannouncers(t)
  BY DEF Holders, Servers, Unannouncers, Holds, Serving, Unannounced
<1>2. /\ w \in Holders(t) <=> Holds(w, t)
      /\ w \in Holders(t)' <=> Holds(w, t)'
      /\ w \in Servers(t) <=> Serving(w, t)
      /\ w \in Servers(t)' <=> Serving(w, t)'
      /\ w \in Unannouncers(t) <=> Unannounced(w, t)
      /\ w \in Unannouncers(t)' <=> Unannounced(w, t)'
  BY DEF Holders, Servers, Unannouncers
<1>3. Tally(Holders(t)') + One(w \in Holders(t)) = Tally(Holders(t)) + One(w \in Holders(t)')
  BY <1>1, TallyChange
<1>4. Tally(Servers(t)') + One(w \in Servers(t)) = Tally(Servers(t)) + One(w \in Servers(t)')
  BY <1>1, TallyChange
<1>5. Tally(Unannouncers(t)') + One(w \in Unannouncers(t))
        = Tally(Unannouncers(t)) + One(w \in Unannouncers(t)')
  BY <1>1, TallyChange
<1>6. QED
  BY <1>2, <1>3, <1>4, <1>5 DEF One

(* The heart of the accounting: if a step moves at most worker w, and on    *)
(* each tray what the semaphores and the counter gain is what w (or the    *)
(* manager) gives, then the three equations survive, and with them the     *)
(* ranges of the semaphores and counters, which need only be integers and  *)
(* nonnegative semaphores.                                                 *)
LEMMA BalancedStep ==
  ASSUME MutualExclusion, PlacesConserved, CountTracksDishes, TypeOK, NEW w \in Worker,
         \A v \in Worker \ {w} : pc'[v] = pc[v] /\ at'[v] = at[v],
         mutex' \in [Tray -> Nat], empty' \in [Tray -> Nat],
         full' \in [Tray -> Nat], count' \in [Tray -> Int],
         \A t \in Tray :
           /\ mutex'[t] + One(Holds(w, t)') + One(ManagerHolds(t)')
                = mutex[t] + One(Holds(w, t)) + One(ManagerHolds(t))
           /\ empty'[t] + full'[t] + One(Serving(w, t)')
                = empty[t] + full[t] + One(Serving(w, t))
           /\ count'[t] + full[t] + One(Unannounced(w, t))
                = count[t] + full'[t] + One(Unannounced(w, t)')
  PROVE  /\ MutualExclusion' /\ PlacesConserved' /\ CountTracksDishes'
         /\ mutex' \in [Tray -> 0..1]
         /\ empty' \in [Tray -> 0..TRAY_SIZE]
         /\ full' \in [Tray -> 0..TRAY_SIZE]
         /\ count' \in [Tray -> 0..TRAY_SIZE]
<1>1. ASSUME NEW t \in Tray
      PROVE  /\ mutex'[t] + Tally(Holders(t)') + One(ManagerHolds(t)') = 1
             /\ empty'[t] + full'[t] + Tally(Servers(t)') = TRAY_SIZE
             /\ count'[t] = full'[t] + Tally(Unannouncers(t)')
             /\ mutex'[t] \in 0..1
             /\ empty'[t] \in 0..TRAY_SIZE
             /\ full'[t] \in 0..TRAY_SIZE
             /\ count'[t] \in 0..TRAY_SIZE
  <2>1. /\ Tally(Holders(t)') + One(Holds(w, t)) = Tally(Holders(t)) + One(Holds(w, t)')
        /\ Tally(Servers(t)') + One(Serving(w, t)) = Tally(Servers(t)) + One(Serving(w, t)')
        /\ Tally(Unannouncers(t)') + One(Unannounced(w, t))
             = Tally(Unannouncers(t)) + One(Unannounced(w, t)')
    BY <1>1, StepTallies
  <2>2. /\ mutex[t] + Tally(Holders(t)) + One(ManagerHolds(t)) = 1
        /\ empty[t] + full[t] + Tally(Servers(t)) = TRAY_SIZE
        /\ count[t] = full[t] + Tally(Unannouncers(t))
    BY <1>1 DEF MutualExclusion, PlacesConserved, CountTracksDishes
  <2>3. /\ Tally(Holders(t)) \in Nat /\ Tally(Holders(t)') \in Nat
        /\ Tally(Servers(t)) \in Nat /\ Tally(Servers(t)') \in Nat
        /\ Tally(Unannouncers(t)) \in Nat /\ Tally(Unannouncers(t)') \in Nat
    BY TallyFacts
  <2>4. Tally(Unannouncers(t)') <= Tally(Servers(t)')
    <3>1. \A v \in Worker : v \in Unannouncers(t)' => v \in Servers(t)'
      BY DEF Unannouncers, Servers, Unannounced, Serving
    <3>2. QED
      BY <3>1, TallyFacts
  <2>5. /\ One(Holds(w, t)) \in 0..1 /\ One(Holds(w, t)') \in 0..1
        /\ One(Serving(w, t)) \in 0..1 /\ One(Serving(w, t)') \in 0..1
        /\ One(Unannounced(w, t)) \in 0..1 /\ One(Unannounced(w, t)') \in 0..1
        /\ One(ManagerHolds(t)) \in 0..1 /\ One(ManagerHolds(t)') \in 0..1
    BY DEF One
  <2>6. /\ mutex[t] \in Nat /\ empty[t] \in Nat /\ full[t] \in Nat /\ count[t] \in Nat
        /\ mutex'[t] \in Nat /\ empty'[t] \in Nat /\ full'[t] \in Nat /\ count'[t] \in Int
    BY <1>1 DEF TypeOK
  <2>7. mutex'[t] + Tally(Holders(t)') + One(ManagerHolds(t)') = 1
    BY <1>1, <2>1, <2>2, <2>3, <2>5, <2>6
  <2>8. empty'[t] + full'[t] + Tally(Servers(t)') = TRAY_SIZE
    BY <1>1, <2>1, <2>2, <2>3, <2>5, <2>6
  <2>9. full'[t] + Tally(Unannouncers(t)') = count'[t]
    <3>1. full[t] + Tally(Unannouncers(t)) = count[t]
      BY <2>2
    <3>2. count'[t] + full[t] + One(Unannounced(w, t))
            = count[t] + full'[t] + One(Unannounced(w, t)')
      BY <1>1
    <3>3. QED
      BY <2>1, <2>3, <2>5, <2>6, <3>1, <3>2
  <2>10. mutex'[t] \in 0..1
    <3>1. \A m \in Nat, h \in Nat, o \in Nat : m + h + o = 1 => m \in 0..1
      OBVIOUS
    <3>2. mutex'[t] \in Nat /\ Tally(Holders(t)') \in Nat /\ One(ManagerHolds(t)') \in Nat
      BY <2>3, <2>6 DEF One
    <3>3. QED
      BY <2>7, <3>1, <3>2, Zenon
  <2>11. empty'[t] \in 0..TRAY_SIZE /\ full'[t] \in 0..TRAY_SIZE
    BY <2>3, <2>6, <2>8, TraySizeAssumption
  <2>12. count'[t] \in 0..TRAY_SIZE
    BY <2>3, <2>4, <2>6, <2>8, <2>9, TraySizeAssumption
  <2>13. QED
    BY <2>7, <2>8, <2>9, <2>10, <2>11, <2>12
<1>2. QED
  BY <1>1 DEF MutualExclusion, PlacesConserved, CountTracksDishes

(* The holder of a tray's mutex is alone: no other worker and no manager   *)
(* is in the critical section.                                             *)
LEMMA HolderIsAlone ==
  ASSUME TypeOK, MutualExclusion, NEW t \in Tray, NEW w \in Worker, Holds(w, t)
  PROVE  /\ mutex[t] = 0
         /\ ~ManagerHolds(t)
         /\ \A v \in Worker \ {w} : ~Holds(v, t)
<1>1. mutex[t] + Tally(Holders(t)) + One(ManagerHolds(t)) = 1
  BY DEF MutualExclusion
<1>2. mutex[t] \in 0..1 /\ One(ManagerHolds(t)) \in 0..1
  BY DEF TypeOK, One
<1>3. w \in Holders(t)
  BY DEF Holders
<1>4. Tally(Holders(t)) \in Nat /\ Tally(Holders(t)) >= 1
  BY <1>3, TallyFacts
<1>5. mutex[t] = 0 /\ One(ManagerHolds(t)) = 0 /\ Tally(Holders(t)) = 1
  BY <1>1, <1>2, <1>4
<1>6. \A v \in Worker \ {w} : v \notin Holders(t)
  BY <1>3, <1>5 DEF Tally, One, Worker, Chef, Customer
<1>7. QED
  BY <1>5, <1>6 DEF One, Holders

-----------------------------------------------------------------------------
LEMMA InitIInv == Init => IInv
<1> SUFFICES ASSUME Init PROVE IInv
  OBVIOUS
<1>1. TypeOK /\ HomeTrays /\ VeganOutInRange /\ NoLostUpdate /\ ReportFresh
  BY TraySizeAssumption
  DEF Init, TypeOK, HomeTrays, VeganOutInRange, NoLostUpdate, ReportFresh, Tray, Worker,
      Chef, Customer, WorkerStep, ManagerStep, FirstTray
<1>2. ASSUME NEW t \in Tray
      PROVE  /\ Holders(t) = {} /\ Servers(t) = {} /\ Unannouncers(t) = {}
             /\ ~ManagerHolds(t)
  BY <1>2 DEF Init, Holders, Servers, Unannouncers, Holds, Serving, Unannounced, Holding,
              ManagerHolds, Tray
<1>3. Tally({}) = 0
  BY DEF Tally, One
<1>4. ASSUME NEW t \in Tray
      PROVE  /\ mutex[t] + Tally(Holders(t)) + One(ManagerHolds(t)) = 1
             /\ empty[t] + full[t] + Tally(Servers(t)) = TRAY_SIZE
             /\ count[t] = full[t] + Tally(Unannouncers(t))
  <2>1. /\ mutex[t] = 1 /\ empty[t] = TRAY_SIZE /\ full[t] = 0 /\ count[t] = 0
        /\ One(ManagerHolds(t)) = 0
    BY <1>2, <1>4 DEF Init, One
  <2>2. QED
    BY <1>2, <1>3, <1>4, <2>1, TraySizeAssumption
<1>5. QED
  BY <1>1, <1>4 DEF IInv, MutualExclusion, PlacesConserved, CountTracksDishes

(***************************************************************************)
(* One lemma per step.  Each proves that the step moves one worker at      *)
(* most, what it leaves of the types and of the facts about single         *)
(* variables, and that it balances the accounts of an arbitrary tray.      *)
(***************************************************************************)
LEMMA GetSeatKeepsIInv ==
  ASSUME IInv, NEW w \in Worker, GetSeat(w)
  PROVE  IInv'
<1> USE DEF GetSeat, Goto
<1>1. \A v \in Worker \ {w} : pc'[v] = pc[v] /\ at'[v] = at[v]
  BY DEF IInv, TypeOK
<1>2. HomeTrays' /\ VeganOutInRange' /\ NoLostUpdate' /\ ReportFresh'
  BY DEF IInv, TypeOK, HomeTrays, VeganOutInRange, NoLostUpdate, ReportFresh
<1>3. /\ mutex' \in [Tray -> Nat] /\ empty' \in [Tray -> Nat]
      /\ full' \in [Tray -> Nat] /\ count' \in [Tray -> Int]
      /\ pc' \in [Worker -> WorkerStep]
  BY DEF IInv, TypeOK, WorkerStep
<1>4. ASSUME NEW t \in Tray
      PROVE  /\ mutex'[t] + One(Holds(w, t)') + One(ManagerHolds(t)')
                  = mutex[t] + One(Holds(w, t)) + One(ManagerHolds(t))
             /\ empty'[t] + full'[t] + One(Serving(w, t)')
                  = empty[t] + full[t] + One(Serving(w, t))
             /\ count'[t] + full[t] + One(Unannounced(w, t))
                  = count[t] + full'[t] + One(Unannounced(w, t)')
  BY <1>4 DEF IInv, TypeOK, Holds, Serving, Unannounced, Holding, One, ManagerHolds,
              Chef, Customer
<1>5. QED
  BY <1>1, <1>2, <1>3, <1>4, BalancedStep DEF IInv, TypeOK

LEMMA GetDishKeepsIInv ==
  ASSUME IInv, NEW w \in Worker, GetDish(w)
  PROVE  IInv'
<1> USE DEF GetDish, Goto
<1>1. \A v \in Worker \ {w} : pc'[v] = pc[v] /\ at'[v] = at[v]
  BY DEF IInv, TypeOK
<1>2. HomeTrays' /\ VeganOutInRange' /\ NoLostUpdate' /\ ReportFresh'
  BY DEF IInv, TypeOK, HomeTrays, VeganOutInRange, NoLostUpdate, ReportFresh
<1>3. /\ mutex' \in [Tray -> Nat] /\ empty' \in [Tray -> Nat]
      /\ full' \in [Tray -> Nat] /\ count' \in [Tray -> Int]
      /\ pc' \in [Worker -> WorkerStep]
  BY DEF IInv, TypeOK, WorkerStep
<1>4. ASSUME NEW t \in Tray
      PROVE  /\ mutex'[t] + One(Holds(w, t)') + One(ManagerHolds(t)')
                  = mutex[t] + One(Holds(w, t)) + One(ManagerHolds(t))
             /\ empty'[t] + full'[t] + One(Serving(w, t)')
                  = empty[t] + full[t] + One(Serving(w, t))
             /\ count'[t] + full[t] + One(Unannounced(w, t))
                  = count[t] + full'[t] + One(Unannounced(w, t)')
  BY <1>4 DEF IInv, TypeOK, Holds, Serving, Unannounced, Holding, One, ManagerHolds,
              Chef, Customer
<1>5. QED
  BY <1>1, <1>2, <1>3, <1>4, BalancedStep DEF IInv, TypeOK

LEMMA LockTrayKeepsIInv ==
  ASSUME IInv, NEW w \in Worker, LockTray(w)
  PROVE  IInv'
<1> USE DEF LockTray, Goto
<1>1. \A v \in Worker \ {w} : pc'[v] = pc[v] /\ at'[v] = at[v]
  BY DEF IInv, TypeOK
<1>2. HomeTrays' /\ VeganOutInRange' /\ NoLostUpdate' /\ ReportFresh'
  BY DEF IInv, TypeOK, HomeTrays, VeganOutInRange, NoLostUpdate, ReportFresh
<1>3. /\ mutex' \in [Tray -> Nat] /\ empty' \in [Tray -> Nat]
      /\ full' \in [Tray -> Nat] /\ count' \in [Tray -> Int]
      /\ pc' \in [Worker -> WorkerStep]
  BY DEF IInv, TypeOK, WorkerStep
<1>4. ASSUME NEW t \in Tray
      PROVE  /\ mutex'[t] + One(Holds(w, t)') + One(ManagerHolds(t)')
                  = mutex[t] + One(Holds(w, t)) + One(ManagerHolds(t))
             /\ empty'[t] + full'[t] + One(Serving(w, t)')
                  = empty[t] + full[t] + One(Serving(w, t))
             /\ count'[t] + full[t] + One(Unannounced(w, t))
                  = count[t] + full'[t] + One(Unannounced(w, t)')
  BY <1>4 DEF IInv, TypeOK, Holds, Serving, Unannounced, Holding, One, ManagerHolds,
              Chef, Customer
<1>5. QED
  BY <1>1, <1>2, <1>3, <1>4, BalancedStep DEF IInv, TypeOK

LEMMA FillCellKeepsIInv ==
  ASSUME IInv, NEW w \in Worker, FillCell(w)
  PROVE  IInv'
<1> USE DEF FillCell, Goto
<1>1. \A v \in Worker \ {w} : pc'[v] = pc[v] /\ at'[v] = at[v]
  BY DEF IInv, TypeOK
<1>2. HomeTrays' /\ VeganOutInRange' /\ NoLostUpdate' /\ ReportFresh'
  BY DEF IInv, TypeOK, HomeTrays, VeganOutInRange, NoLostUpdate, ReportFresh
<1>3. /\ mutex' \in [Tray -> Nat] /\ empty' \in [Tray -> Nat]
      /\ full' \in [Tray -> Nat] /\ count' \in [Tray -> Int]
      /\ pc' \in [Worker -> WorkerStep]
  BY DEF IInv, TypeOK, WorkerStep
<1>4. ASSUME NEW t \in Tray
      PROVE  /\ mutex'[t] + One(Holds(w, t)') + One(ManagerHolds(t)')
                  = mutex[t] + One(Holds(w, t)) + One(ManagerHolds(t))
             /\ empty'[t] + full'[t] + One(Serving(w, t)')
                  = empty[t] + full[t] + One(Serving(w, t))
             /\ count'[t] + full[t] + One(Unannounced(w, t))
                  = count[t] + full'[t] + One(Unannounced(w, t)')
  BY <1>4 DEF IInv, TypeOK, Holds, Serving, Unannounced, Holding, One, ManagerHolds,
              Chef, Customer
<1>5. cells' \in [Places -> 0..2]
  <2>1. cells \in [Places -> 0..2] /\ Dish(at[w]) \in 0..2
    BY DEF IInv, TypeOK, Dish
  <2>2. CASE w \in Chef
    BY <2>1, <2>2
  <2>3. CASE w \notin Chef
    <3>1. \A p, d : d \in 0..2 => [cells EXCEPT ![p] = d] \in [Places -> 0..2]
      BY <2>1
    <3>2. 0 \in 0..2 /\ cells' = [cells EXCEPT ![Place(at[w], out[at[w]])] = 0]
      BY <2>3
    <3>3. QED
      BY <3>1, <3>2
  <2>4. QED
    BY <2>2, <2>3
<1>6. QED
  BY <1>1, <1>2, <1>3, <1>4, <1>5, BalancedStep DEF IInv, TypeOK

LEMMA AdvanceIndexKeepsIInv ==
  ASSUME IInv, NEW w \in Worker, AdvanceIndex(w)
  PROVE  IInv'
<1> USE DEF AdvanceIndex, Goto
<1>1. \A v \in Worker \ {w} : pc'[v] = pc[v] /\ at'[v] = at[v]
  BY DEF IInv, TypeOK
<1>2. HomeTrays' /\ NoLostUpdate' /\ ReportFresh'
  BY DEF IInv, TypeOK, HomeTrays, NoLostUpdate, ReportFresh
<1>3. /\ mutex' \in [Tray -> Nat] /\ empty' \in [Tray -> Nat]
      /\ full' \in [Tray -> Nat] /\ count' \in [Tray -> Int]
      /\ pc' \in [Worker -> WorkerStep]
  BY DEF IInv, TypeOK, WorkerStep
<1>4. ASSUME NEW t \in Tray
      PROVE  /\ mutex'[t] + One(Holds(w, t)') + One(ManagerHolds(t)')
                  = mutex[t] + One(Holds(w, t)) + One(ManagerHolds(t))
             /\ empty'[t] + full'[t] + One(Serving(w, t)')
                  = empty[t] + full[t] + One(Serving(w, t))
             /\ count'[t] + full[t] + One(Unannounced(w, t))
                  = count[t] + full'[t] + One(Unannounced(w, t)')
  BY <1>4 DEF IInv, TypeOK, Holds, Serving, Unannounced, Holding, One, ManagerHolds,
              Chef, Customer
<1>5. in' \in [Tray -> 0..(TRAY_SIZE - 1)]
  <2>1. in[at[w]] \in 0..TRAY_SIZE
    BY TraySizeAssumption DEF IInv, TypeOK
  <2>2. NextIn(in[at[w]]) \in 0..(TRAY_SIZE - 1)
    BY <2>1, NextInRange
  <2>3. QED
    BY <2>2 DEF IInv, TypeOK
<1>6. out' \in [Tray -> 0..TRAY_SIZE] /\ VeganOutInRange'
  <2>1. out[at[w]] \in 0..TRAY_SIZE
    BY DEF IInv, TypeOK
  <2>2. /\ NextOut(w, out[at[w]]) \in 0..TRAY_SIZE
        /\ w # "customer1" => NextOut(w, out[at[w]]) \in 0..(TRAY_SIZE - 1)
    BY <2>1, NextOutRange
  <2>3. at[w] = "v" => w # "customer1"
    BY DEF IInv, HomeTrays, FirstTray
  <2>4. out' \in [Tray -> 0..TRAY_SIZE]
    BY <2>2 DEF IInv, TypeOK
  <2>5. VeganOutInRange'
    BY <2>2, <2>3 DEF IInv, TypeOK, VeganOutInRange, Tray
  <2>6. QED
    BY <2>4, <2>5
<1>7. QED
  BY <1>1, <1>2, <1>3, <1>4, <1>5, <1>6, BalancedStep DEF IInv, TypeOK

LEMMA LoadCountKeepsIInv ==
  ASSUME IInv, NEW w \in Worker, LoadCount(w)
  PROVE  IInv'
<1> USE DEF LoadCount, Goto
<1>1. \A v \in Worker \ {w} : pc'[v] = pc[v] /\ at'[v] = at[v]
  BY DEF IInv, TypeOK
<1>2. HomeTrays' /\ VeganOutInRange' /\ NoLostUpdate' /\ ReportFresh'
  BY DEF IInv, TypeOK, HomeTrays, VeganOutInRange, NoLostUpdate, ReportFresh
<1>3. /\ mutex' \in [Tray -> Nat] /\ empty' \in [Tray -> Nat]
      /\ full' \in [Tray -> Nat] /\ count' \in [Tray -> Int]
      /\ reg' \in [Worker -> 0..TRAY_SIZE]
      /\ pc' \in [Worker -> WorkerStep]
  BY DEF IInv, TypeOK, WorkerStep
<1>4. ASSUME NEW t \in Tray
      PROVE  /\ mutex'[t] + One(Holds(w, t)') + One(ManagerHolds(t)')
                  = mutex[t] + One(Holds(w, t)) + One(ManagerHolds(t))
             /\ empty'[t] + full'[t] + One(Serving(w, t)')
                  = empty[t] + full[t] + One(Serving(w, t))
             /\ count'[t] + full[t] + One(Unannounced(w, t))
                  = count[t] + full'[t] + One(Unannounced(w, t)')
  BY <1>4 DEF IInv, TypeOK, Holds, Serving, Unannounced, Holding, One, ManagerHolds,
              Chef, Customer
<1>5. QED
  BY <1>1, <1>2, <1>3, <1>4, BalancedStep DEF IInv, TypeOK

(* The loaded value is still the counter's (NoLostUpdate), no other worker *)
(* holds a value loaded from this tray, and the manager reads no count     *)
(* of a tray it does not hold.                                             *)
LEMMA StoreCountKeepsIInv ==
  ASSUME IInv, NEW w \in Worker, StoreCount(w)
  PROVE  IInv'
<1> USE DEF StoreCount, Goto
<1>1. \A v \in Worker \ {w} : pc'[v] = pc[v] /\ at'[v] = at[v]
  BY DEF IInv, TypeOK
<1>2. at[w] \in Tray /\ Holds(w, at[w]) /\ reg[w] = count[at[w]]
  BY DEF IInv, TypeOK, Holds, Holding, NoLostUpdate
<1>3. ~ManagerHolds(at[w]) /\ \A v \in Worker \ {w} : ~Holds(v, at[w])
  BY <1>2, HolderIsAlone DEF IInv
<1>4. HomeTrays' /\ VeganOutInRange' /\ NoLostUpdate'
  BY <1>1, <1>2, <1>3
  DEF IInv, TypeOK, HomeTrays, VeganOutInRange, NoLostUpdate, Holds, Holding
<1>5. ReportFresh'
  BY <1>2, <1>3 DEF IInv, TypeOK, ReportFresh, ManagerHolds
<1>6. /\ mutex' \in [Tray -> Nat] /\ empty' \in [Tray -> Nat]
      /\ full' \in [Tray -> Nat] /\ count' \in [Tray -> Int]
      /\ pc' \in [Worker -> WorkerStep]
  BY <1>2 DEF IInv, TypeOK, WorkerStep
<1>7. ASSUME NEW t \in Tray
      PROVE  /\ mutex'[t] + One(Holds(w, t)') + One(ManagerHolds(t)')
                  = mutex[t] + One(Holds(w, t)) + One(ManagerHolds(t))
             /\ empty'[t] + full'[t] + One(Serving(w, t)')
                  = empty[t] + full[t] + One(Serving(w, t))
             /\ count'[t] + full[t] + One(Unannounced(w, t))
                  = count[t] + full'[t] + One(Unannounced(w, t)')
  BY <1>2, <1>7 DEF IInv, TypeOK, Holds, Serving, Unannounced, Holding, One, ManagerHolds,
              Chef, Customer
<1>8. QED
  BY <1>1, <1>4, <1>5, <1>6, <1>7, BalancedStep DEF IInv, TypeOK

LEMMA UnlockTrayKeepsIInv ==
  ASSUME IInv, NEW w \in Worker, UnlockTray(w)
  PROVE  IInv'
<1> USE DEF UnlockTray, Goto
<1>1. \A v \in Worker \ {w} : pc'[v] = pc[v] /\ at'[v] = at[v]
  BY DEF IInv, TypeOK
<1>2. HomeTrays' /\ VeganOutInRange' /\ NoLostUpdate' /\ ReportFresh'
  BY DEF IInv, TypeOK, HomeTrays, VeganOutInRange, NoLostUpdate, ReportFresh
<1>3. /\ mutex' \in [Tray -> Nat] /\ empty' \in [Tray -> Nat]
      /\ full' \in [Tray -> Nat] /\ count' \in [Tray -> Int]
      /\ pc' \in [Worker -> WorkerStep]
  BY DEF IInv, TypeOK, WorkerStep
<1>4. ASSUME NEW t \in Tray
      PROVE  /\ mutex'[t] + One(Holds(w, t)') + One(ManagerHolds(t)')
                  = mutex[t] + One(Holds(w, t)) + One(ManagerHolds(t))
             /\ empty'[t] + full'[t] + One(Serving(w, t)')
                  = empty[t] + full[t] + One(Serving(w, t))
             /\ count'[t] + full[t] + One(Unannounced(w, t))
                  = count[t] + full'[t] + One(Unannounced(w, t)')
  BY <1>4 DEF IInv, TypeOK, Holds, Serving, Unannounced, Holding, One, ManagerHolds,
              Chef, Customer
<1>5. QED
  BY <1>1, <1>2, <1>3, <1>4, BalancedStep DEF IInv, TypeOK

LEMMA AnnounceKeepsIInv ==
  ASSUME IInv, NEW w \in Worker, Announce(w)
  PROVE  IInv'
<1> USE DEF Announce, Goto
<1>1. \A v \in Worker \ {w} : pc'[v] = pc[v] /\ at'[v] = at[v]
  BY DEF IInv, TypeOK
<1>2. at' \in [Worker -> Tray] /\ reg' \in [Worker -> 0..TRAY_SIZE]
  BY TraySizeAssumption DEF IInv, TypeOK, NextTray, Tray
<1>3. HomeTrays' /\ VeganOutInRange' /\ NoLostUpdate' /\ ReportFresh'
  BY DEF IInv, TypeOK, HomeTrays, VeganOutInRange, NoLostUpdate, ReportFresh, NextTray
<1>4. /\ mutex' \in [Tray -> Nat] /\ empty' \in [Tray -> Nat]
      /\ full' \in [Tray -> Nat] /\ count' \in [Tray -> Int]
      /\ pc' \in [Worker -> WorkerStep]
  BY DEF IInv, TypeOK, WorkerStep
<1>5. ASSUME NEW t \in Tray
      PROVE  /\ mutex'[t] + One(Holds(w, t)') + One(ManagerHolds(t)')
                  = mutex[t] + One(Holds(w, t)) + One(ManagerHolds(t))
             /\ empty'[t] + full'[t] + One(Serving(w, t)')
                  = empty[t] + full[t] + One(Serving(w, t))
             /\ count'[t] + full[t] + One(Unannounced(w, t))
                  = count[t] + full'[t] + One(Unannounced(w, t)')
  BY <1>5 DEF IInv, TypeOK, Holds, Serving, Unannounced, Holding, One, ManagerHolds,
              Chef, Customer
<1>6. QED
  BY <1>1, <1>2, <1>3, <1>4, <1>5, BalancedStep DEF IInv, TypeOK

(* The manager moves no worker; what it takes from a mutex it holds.       *)
LEMMA ManagerKeepsIInv ==
  ASSUME IInv, ManagerNext
  PROVE  IInv'
<1> DEFINE w == "donatello"     \* any worker will do
<1>1. w \in Worker /\ \A v \in Worker \ {w} : pc'[v] = pc[v] /\ at'[v] = at[v]
  BY DEF ManagerNext, ManagerLock, ManagerRead, ManagerUnlock, Worker, Chef
<1>2. /\ <<cells, in, out, count, empty, full, pc, at, reg>>'
           = <<cells, in, out, count, empty, full, pc, at, reg>>
      /\ mutex' \in [Tray -> Nat]
      /\ mgr' \in ManagerStep
      /\ report' \in [Tray -> 0..TRAY_SIZE]
  BY TraySizeAssumption
  DEF ManagerNext, ManagerLock, ManagerRead, ManagerUnlock, ManagerGoto, ManagerStep,
      IInv, TypeOK
<1>3. HomeTrays' /\ VeganOutInRange' /\ NoLostUpdate'
  BY <1>2 DEF IInv, HomeTrays, VeganOutInRange, NoLostUpdate
<1>4. ReportFresh'
  BY <1>2 DEF ManagerNext, ManagerLock, ManagerRead, ManagerUnlock, ManagerGoto, IInv,
              TypeOK, ReportFresh, Tray
<1>5. \A t \in Tray : mutex'[t] + One(ManagerHolds(t)') = mutex[t] + One(ManagerHolds(t))
  BY DEF ManagerNext, ManagerLock, ManagerRead, ManagerUnlock, ManagerGoto, IInv, TypeOK,
         ManagerHolds, One, Tray
<1>6. ASSUME NEW t \in Tray
      PROVE  /\ mutex'[t] + One(Holds(w, t)') + One(ManagerHolds(t)')
                  = mutex[t] + One(Holds(w, t)) + One(ManagerHolds(t))
             /\ empty'[t] + full'[t] + One(Serving(w, t)')
                  = empty[t] + full[t] + One(Serving(w, t))
             /\ count'[t] + full[t] + One(Unannounced(w, t))
                  = count[t] + full'[t] + One(Unannounced(w, t)')
  <2>1. /\ One(Holds(w, t)') = One(Holds(w, t))
        /\ One(Serving(w, t)') = One(Serving(w, t))
        /\ One(Unannounced(w, t)') = One(Unannounced(w, t))
    BY <1>2 DEF One, Holds, Serving, Unannounced
  <2>2. mutex \in [Tray -> Nat]
    BY DEF IInv, TypeOK
  <2>3. QED
    BY <1>2, <1>5, <1>6, <2>1, <2>2 DEF One
<1>7. QED
  BY <1>1, <1>2, <1>3, <1>4, <1>6, BalancedStep DEF IInv, TypeOK

LEMMA NextKeepsIInv == IInv /\ [Next]_vars => IInv'
<1> SUFFICES ASSUME IInv, [Next]_vars PROVE IInv'
  OBVIOUS
<1>1. CASE ManagerNext
  BY <1>1, ManagerKeepsIInv
<1>2. ASSUME NEW w \in Worker, WorkerNext(w) PROVE IInv'
  <2>1. CASE GetSeat(w)
    BY <2>1, GetSeatKeepsIInv
  <2>2. CASE GetDish(w)
    BY <2>2, GetDishKeepsIInv
  <2>3. CASE LockTray(w)
    BY <2>3, LockTrayKeepsIInv
  <2>4. CASE FillCell(w)
    BY <2>4, FillCellKeepsIInv
  <2>5. CASE AdvanceIndex(w)
    BY <2>5, AdvanceIndexKeepsIInv
  <2>6. CASE LoadCount(w)
    BY <2>6, LoadCountKeepsIInv
  <2>7. CASE StoreCount(w)
    BY <2>7, StoreCountKeepsIInv
  <2>8. CASE UnlockTray(w)
    BY <2>8, UnlockTrayKeepsIInv
  <2>9. CASE Announce(w)
    BY <2>9, AnnounceKeepsIInv
  <2>10. QED
    BY <1>2, <2>1, <2>2, <2>3, <2>4, <2>5, <2>6, <2>7, <2>8, <2>9
    DEF WorkerNext, InCriticalSection
<1>3. CASE UNCHANGED vars
  <2>1. ASSUME NEW t \in Tray
        PROVE  /\ Holders(t)' = Holders(t)
               /\ Servers(t)' = Servers(t)
               /\ Unannouncers(t)' = Unannouncers(t)
               /\ One(ManagerHolds(t)') = One(ManagerHolds(t))
    BY <1>3 DEF vars, Holders, Servers, Unannouncers, Holds, Serving, Unannounced,
                ManagerHolds, One
  <2>2. MutualExclusion' /\ PlacesConserved' /\ CountTracksDishes'
    BY <1>3, <2>1 DEF vars, IInv, MutualExclusion, PlacesConserved, CountTracksDishes
  <2>3. QED
    BY <1>3, <2>2
    DEF vars, IInv, TypeOK, HomeTrays, VeganOutInRange, NoLostUpdate, ReportFresh
<1>4. QED
  BY <1>1, <1>2, <1>3 DEF Next

(***************************************************************************)
(* The invariants of the kitchen, for every tray size.                     *)
(***************************************************************************)

(* The inductive invariant holds in every reachable state. *)
THEOREM Invariance == Spec => []IInv
  BY InitIInv, NextKeepsIInv, PTL DEF Spec

(* Every variable keeps its type: in particular no semaphore and no        *)
(* counter of the shared space leaves 0..TRAY_SIZE.                        *)
THEOREM TypeCorrect == Spec => []TypeOK
  BY Invariance, PTL DEF IInv

(* No two of the five workers and the manager are ever in the critical     *)
(* section of one tray.                                                    *)
THEOREM TraysExclusive == Spec => []MutualExclusion
  BY Invariance, PTL DEF IInv

(* The places of a tray add up, whatever the workers do. *)
THEOREM TraysConserved == Spec => []PlacesConserved
  BY Invariance, PTL DEF IInv

(* The printed counter and the semaphores of a tray agree, and no update   *)
(* of the counter is lost.                                                 *)
THEOREM CountersExact == Spec => [](CountTracksDishes /\ NoLostUpdate)
  BY Invariance, PTL DEF IInv

(* The manager's two numbers are a snapshot of both trays. *)
THEOREM ReportsAreSnapshots == Spec => []ReportIsSnapshot
<1>1. IInv => ReportIsSnapshot
  BY DEF IInv, TypeOK, ReportFresh, ReportIsSnapshot, Tray
<1>2. QED
  BY <1>1, Invariance, PTL

(* What a step may do to the counter of one tray: add a dish while there   *)
(* is room, take one while there is one, or leave it.                      *)
LEMMA CounterSteps ==
  ASSUME IInv, IInv', [Next]_vars, NEW t \in Tray
  PROVE  \/ count'[t] = count[t]
         \/ count[t] < TRAY_SIZE /\ count'[t] = count[t] + 1
         \/ count[t] > 0 /\ count'[t] = count[t] - 1
<1>1. CASE \E w \in Worker : StoreCount(w)
  <2>1. PICK w \in Worker : StoreCount(w)
    BY <1>1
  <2>2. at[w] \in Tray /\ reg[w] = count[at[w]]
    BY <2>1 DEF StoreCount, Goto, IInv, TypeOK, NoLostUpdate
  <2>3. count' = [count EXCEPT ![at[w]] = IF w \in Chef THEN count[at[w]] + 1
                                                        ELSE count[at[w]] - 1]
    BY <2>1, <2>2 DEF StoreCount
  <2>4. count[t] \in 0..TRAY_SIZE /\ count'[t] \in 0..TRAY_SIZE
    BY DEF IInv, TypeOK
  <2>5. CASE at[w] # t
    BY <2>3, <2>5 DEF IInv, TypeOK
  <2>6. CASE at[w] = t
    <3>1. count'[t] = count[t] + 1 \/ count'[t] = count[t] - 1
      BY <2>3, <2>6 DEF IInv, TypeOK
    <3>2. QED
      BY <2>4, <3>1, TraySizeAssumption
  <2>7. QED
    BY <2>5, <2>6
<1>2. CASE ~\E w \in Worker : StoreCount(w)
  <2>1. count' = count
    BY <1>2
    DEF Next, vars, ManagerNext, ManagerLock, ManagerRead, ManagerUnlock, WorkerNext,
        InCriticalSection, GetSeat, GetDish, LockTray, FillCell, AdvanceIndex, LoadCount,
        UnlockTray, Announce
  <2>2. QED
    BY <2>1
<1>3. QED
  BY <1>1, <1>2

(* Each tray of the kitchen implements the abstract FoodTray: no           *)
(* interleaving of the five workers overfills a tray or serves from an     *)
(* empty one, as far as its counter tells.                                 *)
THEOREM TraysAreFoodTrays == Spec => TraysImplementFoodTray
<1>1. Init => NonVeganTray!Init /\ VeganTray!Init
  BY DEF Init, NonVeganTray!Init, VeganTray!Init, Tray
<1>2. IInv /\ IInv' /\ [Next]_vars => [NonVeganTray!Next]_(count["nv"])
  <2> SUFFICES ASSUME IInv, IInv', [Next]_vars PROVE [NonVeganTray!Next]_(count["nv"])
    OBVIOUS
  <2>1. QED
    BY CounterSteps
    DEF Tray, NonVeganTray!Next, NonVeganTray!Put, NonVeganTray!Take
<1>3. IInv /\ IInv' /\ [Next]_vars => [VeganTray!Next]_(count["v"])
  <2> SUFFICES ASSUME IInv, IInv', [Next]_vars PROVE [VeganTray!Next]_(count["v"])
    OBVIOUS
  <2>1. QED
    BY CounterSteps
    DEF Tray, VeganTray!Next, VeganTray!Put, VeganTray!Take
<1>4. QED
  BY <1>1, <1>2, <1>3, Invariance, PTL
  DEF Spec, TraysImplementFoodTray, NonVeganTray!Spec, VeganTray!Spec

(* The stray store of customers 1 and 3 reaches cell 0 of the vegetarian   *)
(* tray at most: "out" never exceeds TRAY_SIZE, so non_vegan_tray[out] is  *)
(* one place past the array at worst.                                      *)
THEOREM StrayStoresConfined == Spec => StrayStoreConfined
<1> DEFINE Confined ==
      \A p \in VeganRest :
        cells'[p] # cells[p] =>
          \E w \in Worker : at[w] = "v" /\ pc[w] = "cell" /\ pc'[w] = "index"
<1>1. IInv /\ [Next]_vars => [Confined]_vars
  <2> SUFFICES ASSUME IInv, [Next]_vars PROVE Confined
    OBVIOUS
  <2>1. CASE \E w \in Worker : FillCell(w)
    <3>1. PICK w \in Worker : FillCell(w)
      BY <2>1
    <3>2. pc[w] = "cell" /\ pc'[w] = "index"
      BY <3>1 DEF FillCell, Goto, IInv, TypeOK
    <3>3. CASE at[w] = "v"
      BY <3>2, <3>3
    <3>4. CASE at[w] = "nv"
      <4>1. Place("nv", in["nv"]) \notin VeganRest /\ Place("nv", out["nv"]) \notin VeganRest
        BY TraySizeAssumption DEF IInv, TypeOK, Place, VeganRest, Tray
      <4>2. \A p \in VeganRest : cells'[p] = cells[p]
        BY <3>1, <3>4, <4>1 DEF FillCell, IInv, TypeOK
      <4>3. QED
        BY <4>2
    <3>5. QED
      BY <3>3, <3>4 DEF IInv, TypeOK, Tray
  <2>2. CASE ~\E w \in Worker : FillCell(w)
    <3>1. cells' = cells
      BY <2>2
      DEF Next, vars, ManagerNext, ManagerLock, ManagerRead, ManagerUnlock, WorkerNext,
          InCriticalSection, GetSeat, GetDish, LockTray, AdvanceIndex, LoadCount,
          StoreCount, UnlockTray, Announce
    <3>2. QED
      BY <3>1
  <2>3. QED
    BY <2>1, <2>2
<1>2. QED
  BY <1>1, Invariance, PTL DEF Spec, StrayStoreConfined

-----------------------------------------------------------------------------
(***************************************************************************)
(* The vegetarian tray as a circular queue.  Between its first store and   *)
(* the store of the counter a worker has left it in a state of its own;    *)
(* QueueInv says what each is.  The distance of a cell from "out" is what  *)
(* the claim is about, and the arithmetic below is all about distances.    *)
(***************************************************************************)
Distance(k, o) == (k - o + TRAY_SIZE) % TRAY_SIZE

(* The dishes are at the distances from lo to hi - 1. *)
DishesBetween(lo, hi) ==
  \A k \in 1..(TRAY_SIZE - 1) :
    cells[Place("v", k)] =
      IF lo <= Distance(k, out["v"]) /\ Distance(k, out["v"]) < hi THEN 1 ELSE 0

InAfter(n) == in["v"] = (out["v"] + n) % TRAY_SIZE

(* w has touched the tray and not yet stored the counter. *)
Unsettled(w) == Holds(w, "v") /\ pc[w] \in {"index", "load", "store"}

(* The number of dishes the counter will tell *)
Coming(w) == IF w \in Chef THEN count["v"] + 1 ELSE count["v"] - 1

QueueInv ==
  /\ (\A w \in Worker : ~Unsettled(w)) => InAfter(count["v"]) /\ DishesBetween(0, count["v"])
  /\ \A w \in Worker : Unsettled(w) =>
       /\ pc[w] = "index" =>
            /\ InAfter(count["v"])
            /\ w \in Chef => DishesBetween(0, count["v"] + 1)
            /\ w \notin Chef => DishesBetween(1, count["v"])
       /\ pc[w] # "index" => InAfter(Coming(w)) /\ DishesBetween(0, Coming(w))

(* What % does to a number below 2 * TRAY_SIZE *)
LEMMA Wrap ==
  ASSUME NEW x \in 0..(2 * TRAY_SIZE - 1)
  PROVE  x % TRAY_SIZE = IF x < TRAY_SIZE THEN x ELSE x - TRAY_SIZE
<1>1. x < TRAY_SIZE => x % TRAY_SIZE = x
  BY TraySizeAssumption
<1>2. ~(x < TRAY_SIZE) => x % TRAY_SIZE = x - TRAY_SIZE
  BY TraySizeAssumption
<1>3. QED
  BY <1>1, <1>2

(* Going n cells on from "out" leads to the cell at distance n. *)
LEMMA CellAtDistance ==
  ASSUME NEW o \in 0..(TRAY_SIZE - 1), NEW k \in 0..(TRAY_SIZE - 1), NEW n \in 0..(TRAY_SIZE - 1)
  PROVE  /\ Distance(k, o) \in 0..(TRAY_SIZE - 1)
         /\ k = (o + n) % TRAY_SIZE <=> Distance(k, o) = n
<1>1. /\ k - o + TRAY_SIZE \in 0..(2 * TRAY_SIZE - 1)
      /\ o + n \in 0..(2 * TRAY_SIZE - 1)
  BY TraySizeAssumption
<1>2. QED
  BY <1>1, Wrap, TraySizeAssumption DEF Distance

(* "in" moves on by one. *)
LEMMA InMovesOn ==
  ASSUME NEW o \in 0..(TRAY_SIZE - 1), NEW n \in 0..(TRAY_SIZE - 1)
  PROVE  NextIn((o + n) % TRAY_SIZE) = (o + (n + 1)) % TRAY_SIZE
<1>1. /\ o + n \in 0..(2 * TRAY_SIZE - 1)
      /\ o + (n + 1) \in 0..(2 * TRAY_SIZE - 1)
  BY TraySizeAssumption
<1>2. ((o + n) % TRAY_SIZE) + 1 \in 0..(2 * TRAY_SIZE - 1)
  BY <1>1, Wrap, TraySizeAssumption
<1>3. QED
  BY <1>1, <1>2, Wrap, TraySizeAssumption DEF NextIn

(* "out" moves on by one: "in" is one cell nearer, and so is every other   *)
(* cell but the one that "out" has left.                                   *)
LEMMA OutMovesOn ==
  ASSUME NEW o \in 0..(TRAY_SIZE - 1), NEW n \in 1..TRAY_SIZE, NEW k \in 0..(TRAY_SIZE - 1)
  PROVE  /\ (o + n) % TRAY_SIZE = (((o + 1) % TRAY_SIZE) + (n - 1)) % TRAY_SIZE
         /\ 1 <= Distance(k, o) /\ Distance(k, o) < n
              <=> 0 <= Distance(k, (o + 1) % TRAY_SIZE)
                    /\ Distance(k, (o + 1) % TRAY_SIZE) < n - 1
<1> DEFINE p == (o + 1) % TRAY_SIZE
<1>1. o + 1 \in 0..(2 * TRAY_SIZE - 1)
  BY TraySizeAssumption
<1>2. p = IF o + 1 < TRAY_SIZE THEN o + 1 ELSE o + 1 - TRAY_SIZE
  BY <1>1, Wrap, TraySizeAssumption
<1>3. p \in 0..(TRAY_SIZE - 1)
  BY <1>2, TraySizeAssumption
<1> HIDE DEF p
<1>4. /\ o + n \in 0..(2 * TRAY_SIZE - 1)
      /\ p + (n - 1) \in 0..(2 * TRAY_SIZE - 1)
      /\ k - o + TRAY_SIZE \in 0..(2 * TRAY_SIZE - 1)
      /\ k - p + TRAY_SIZE \in 0..(2 * TRAY_SIZE - 1)
  BY <1>3, TraySizeAssumption
<1>5. (o + n) % TRAY_SIZE = (p + (n - 1)) % TRAY_SIZE
  BY <1>2, <1>3, <1>4, Wrap, TraySizeAssumption
<1>6. 1 <= Distance(k, o) /\ Distance(k, o) < n
        <=> 0 <= Distance(k, p) /\ Distance(k, p) < n - 1
  BY <1>2, <1>3, <1>4, Wrap, TraySizeAssumption DEF Distance
<1>7. QED
  BY <1>5, <1>6 DEF p

(* A chef in the critical section finds a free place, a customer a dish.   *)
LEMMA RoomAndDish ==
  ASSUME IInv, NEW w \in Worker, at[w] = "v", pc[w] \in {"cell", "index", "load", "store"}
  PROVE  /\ w \in Chef => count["v"] \in 0..(TRAY_SIZE - 1)
         /\ w \notin Chef => count["v"] \in 1..TRAY_SIZE
<1>1. /\ empty["v"] + full["v"] + Tally(Servers("v")) = TRAY_SIZE
      /\ count["v"] = full["v"] + Tally(Unannouncers("v"))
  BY DEF IInv, PlacesConserved, CountTracksDishes, Tray
<1>2. empty["v"] \in Nat /\ full["v"] \in Nat /\ count["v"] \in 0..TRAY_SIZE
  BY DEF IInv, TypeOK, Tray
<1>3. /\ Unannouncers("v") \subseteq Servers("v") /\ w \in Servers("v")
      /\ w \in Chef => w \notin Unannouncers("v")
      /\ w \notin Chef => w \in Unannouncers("v")
  BY DEF Unannouncers, Servers, Unannounced, Serving
<1>4. CASE w \in Chef
  <2>1. Tally(Unannouncers("v")) + 1 <= Tally(Servers("v"))
    <3>1. Tally(Servers("v")) + One(w \in Servers("v") \ {w})
            = Tally(Servers("v") \ {w}) + One(w \in Servers("v"))
      BY TallyChange
    <3>2. Tally(Unannouncers("v")) <= Tally(Servers("v") \ {w})
      BY <1>3, <1>4, TallyFacts
    <3>3. Tally(Servers("v")) \in Nat /\ Tally(Servers("v") \ {w}) \in Nat
          /\ Tally(Unannouncers("v")) \in Nat
      BY TallyFacts
    <3>4. One(w \in Servers("v")) = 1 /\ One(w \in Servers("v") \ {w}) = 0
      BY <1>3 DEF One
    <3>5. QED
      BY <3>1, <3>2, <3>3, <3>4
  <2>2. Tally(Servers("v")) \in Nat /\ Tally(Unannouncers("v")) \in Nat
    BY TallyFacts
  <2>3. QED
    BY <1>1, <1>2, <1>4, <2>1, <2>2, TraySizeAssumption
<1>5. CASE w \notin Chef
  <2>1. Tally(Unannouncers("v")) \in Nat /\ Tally(Unannouncers("v")) >= 1
    BY <1>3, <1>5, TallyFacts
  <2>2. QED
    BY <1>1, <1>2, <1>5, <2>1, TraySizeAssumption
<1>6. QED
  BY <1>4, <1>5

(* A step that touches neither the vegetarian tray's cells (but the first) *)
(* nor its indices and counter, and keeps everybody as settled as it was.  *)
LEMMA QueueUntouched ==
  ASSUME QueueInv,
         in'["v"] = in["v"], out'["v"] = out["v"], count'["v"] = count["v"],
         \A k \in 1..(TRAY_SIZE - 1) : cells'[Place("v", k)] = cells[Place("v", k)],
         \A v \in Worker : Unsettled(v)' <=> Unsettled(v),
         \A v \in Worker : Unsettled(v) => (pc'[v] = "index" <=> pc[v] = "index")
  PROVE  QueueInv'
<1>1. \A n, lo, hi : /\ InAfter(n)' <=> InAfter(n)
                     /\ DishesBetween(lo, hi)' <=> DishesBetween(lo, hi)
  BY DEF InAfter, DishesBetween
<1>2. \A v \in Worker : Coming(v)' = Coming(v)
  BY DEF Coming
<1>3. InAfter(count["v"])' /\ DishesBetween(0, count["v"])'
        <=> InAfter(count["v"]) /\ DishesBetween(0, count["v"])
  BY <1>1 DEF InAfter, DishesBetween
<1>4. ASSUME NEW v \in Worker, Unsettled(v)'
      PROVE  /\ pc'[v] = "index" =>
                  /\ InAfter(count["v"])'
                  /\ v \in Chef => DishesBetween(0, count["v"] + 1)'
                  /\ v \notin Chef => DishesBetween(1, count["v"])'
             /\ pc'[v] # "index" => InAfter(Coming(v))' /\ DishesBetween(0, Coming(v))'
  BY <1>1, <1>4 DEF QueueInv, InAfter, DishesBetween, Coming
<1>5. QED
  BY <1>3, <1>4 DEF QueueInv

(* Nobody else is in the critical section of the vegetarian tray.          *)
LEMMA OthersAreSettled ==
  ASSUME IInv, NEW w \in Worker, Holds(w, "v")
  PROVE  \A v \in Worker \ {w} : ~Unsettled(v)
BY HolderIsAlone DEF IInv, Unsettled, Tray

(* The store to the cell: the chef's goes to the first free cell, the      *)
(* customer's to the first dish.                                           *)
LEMMA FillCellKeepsQueue ==
  ASSUME IInv, QueueInv, NEW w \in Worker, FillCell(w), at[w] = "v"
  PROVE  QueueInv'
<1> USE DEF FillCell, Goto
<1> DEFINE o == out["v"]
           n == count["v"]
<1>1. /\ pc[w] = "cell" /\ pc' = [pc EXCEPT ![w] = "index"]
      /\ UNCHANGED <<in, out, count, at>>
      /\ pc \in [Worker -> WorkerStep] /\ cells \in [Places -> 0..2]
      /\ o \in 0..(TRAY_SIZE - 1) /\ in["v"] \in 0..(TRAY_SIZE - 1) /\ n \in 0..TRAY_SIZE
  BY DEF IInv, TypeOK, VeganOutInRange, Tray
<1>2. Holds(w, "v") /\ \A v \in Worker : ~Unsettled(v)
  BY <1>1, OthersAreSettled DEF Holds, Holding, Unsettled
<1>3. InAfter(n) /\ DishesBetween(0, n)
  BY <1>2 DEF QueueInv
<1>4. /\ \A v \in Worker \ {w} : ~Unsettled(v)'
      /\ pc'[w] = "index" /\ Unsettled(w)'
  BY <1>1, <1>2 DEF Unsettled, Holds, Holding
<1>5. InAfter(n)'
  BY <1>1, <1>3 DEF InAfter
<1>6. ASSUME w \in Chef PROVE DishesBetween(0, n + 1)'
  <2>1. n \in 0..(TRAY_SIZE - 1)
    BY <1>1, <1>6, RoomAndDish
  <2>2. cells' = [cells EXCEPT ![Place("v", in["v"])] = 1]
    BY <1>6 DEF Dish
  <2>3. ASSUME NEW k \in 1..(TRAY_SIZE - 1)
        PROVE  cells'[Place("v", k)]
                 = IF 0 <= Distance(k, o) /\ Distance(k, o) < n + 1 THEN 1 ELSE 0
    <3>1. /\ Place("v", k) \in Places
          /\ Place("v", k) = Place("v", in["v"]) <=> k = in["v"]
      BY <1>1, <2>3, TraySizeAssumption DEF Place, Places
    <3>2. Distance(k, o) \in 0..(TRAY_SIZE - 1) /\ (k = in["v"] <=> Distance(k, o) = n)
      <4>1. k \in 0..(TRAY_SIZE - 1)
        BY <2>3, TraySizeAssumption
      <4>2. in["v"] = (o + n) % TRAY_SIZE
        BY <1>3 DEF InAfter
      <4>3. /\ Distance(k, o) \in 0..(TRAY_SIZE - 1)
            /\ k = (o + n) % TRAY_SIZE <=> Distance(k, o) = n
        <5>1. o \in 0..(TRAY_SIZE - 1)
          BY <1>1
        <5>2. \A m \in 0..(TRAY_SIZE - 1) :
                /\ Distance(k, o) \in 0..(TRAY_SIZE - 1)
                /\ k = (o + m) % TRAY_SIZE <=> Distance(k, o) = m
          BY <4>1, <5>1, CellAtDistance
        <5>3. QED
          BY <2>1, <5>2
      <4>4. QED
        BY <4>2, <4>3
    <3>3. cells[Place("v", k)] = IF 0 <= Distance(k, o) /\ Distance(k, o) < n THEN 1 ELSE 0
      BY <1>3, <2>3 DEF DishesBetween
    <3>4. cells'[Place("v", k)] = IF k = in["v"] THEN 1 ELSE cells[Place("v", k)]
      BY <1>1, <2>2, <3>1
    <3>5. QED
      BY <2>1, <3>2, <3>3, <3>4
  <2>4. QED
    BY <1>1, <2>3 DEF DishesBetween
<1>7. ASSUME w \notin Chef PROVE DishesBetween(1, n)'
  <2>1. n \in 1..TRAY_SIZE
    BY <1>1, <1>7, RoomAndDish
  <2>2. cells' = [cells EXCEPT ![Place("v", o)] = 0]
    BY <1>7
  <2>3. ASSUME NEW k \in 1..(TRAY_SIZE - 1)
        PROVE  cells'[Place("v", k)]
                 = IF 1 <= Distance(k, o) /\ Distance(k, o) < n THEN 1 ELSE 0
    <3>1. /\ Place("v", k) \in Places
          /\ Place("v", k) = Place("v", o) <=> k = o
      BY <1>1, <2>3, TraySizeAssumption DEF Place, Places
    <3>2. Distance(k, o) \in 0..(TRAY_SIZE - 1) /\ (k = o <=> Distance(k, o) = 0)
      <4>1. k \in 0..(TRAY_SIZE - 1) /\ 0 \in 0..(TRAY_SIZE - 1)
        BY <2>3, TraySizeAssumption
      <4>2. /\ Distance(k, o) \in 0..(TRAY_SIZE - 1)
            /\ k = (o + 0) % TRAY_SIZE <=> Distance(k, o) = 0
        BY <1>1, <4>1, CellAtDistance
      <4>3. (o + 0) % TRAY_SIZE = o
        BY <1>1, TraySizeAssumption
      <4>4. QED
        BY <4>2, <4>3
    <3>3. cells[Place("v", k)] = IF 0 <= Distance(k, o) /\ Distance(k, o) < n THEN 1 ELSE 0
      BY <1>3, <2>3 DEF DishesBetween
    <3>4. cells'[Place("v", k)] = IF k = o THEN 0 ELSE cells[Place("v", k)]
      BY <1>1, <2>2, <3>1
    <3>5. QED
      BY <2>1, <3>2, <3>3, <3>4
  <2>4. QED
    BY <1>1, <2>3 DEF DishesBetween
<1>8. /\ InAfter(count["v"])'
      /\ w \in Chef => DishesBetween(0, count["v"] + 1)'
      /\ w \notin Chef => DishesBetween(1, count["v"])'
  BY <1>1, <1>5, <1>6, <1>7 DEF InAfter, DishesBetween
<1>9. QED
  BY <1>4, <1>8 DEF QueueInv

(* The index goes on to the next cell. *)
LEMMA AdvanceIndexKeepsQueue ==
  ASSUME IInv, QueueInv, NEW w \in Worker, AdvanceIndex(w), at[w] = "v"
  PROVE  QueueInv'
<1> USE DEF AdvanceIndex, Goto
<1> DEFINE o == out["v"]
           n == count["v"]
<1>1. /\ pc[w] = "index" /\ pc' = [pc EXCEPT ![w] = "load"]
      /\ UNCHANGED <<cells, count, at>>
      /\ pc \in [Worker -> WorkerStep]
      /\ in \in [Tray -> 0..(TRAY_SIZE - 1)] /\ out \in [Tray -> 0..TRAY_SIZE]
      /\ o \in 0..(TRAY_SIZE - 1)
  BY DEF IInv, TypeOK, VeganOutInRange
<1>2. Holds(w, "v") /\ Unsettled(w) /\ \A v \in Worker \ {w} : ~Unsettled(v)
  BY <1>1, OthersAreSettled DEF Holds, Holding, Unsettled
<1>3. /\ InAfter(n)
      /\ w \in Chef => DishesBetween(0, n + 1)
      /\ w \notin Chef => DishesBetween(1, n)
  BY <1>1, <1>2 DEF QueueInv
<1>4. /\ \A v \in Worker \ {w} : ~Unsettled(v)'
      /\ pc'[w] = "load" /\ Unsettled(w)'
  BY <1>1, <1>2 DEF Unsettled, Holds, Holding
<1>5. ASSUME w \in Chef PROVE InAfter(Coming(w))' /\ DishesBetween(0, Coming(w))'
  <2>1. n \in 0..(TRAY_SIZE - 1)
    BY <1>1, <1>5, RoomAndDish
  <2>2. out' = out /\ in'["v"] = NextIn(in["v"])
    BY <1>1, <1>5 DEF Tray
  <2>3. in'["v"] = (o + (n + 1)) % TRAY_SIZE
    BY <1>1, <1>3, <2>1, <2>2, InMovesOn DEF InAfter
  <2>4. QED
    BY <1>1, <1>3, <1>5, <2>2, <2>3 DEF InAfter, DishesBetween, Coming
<1>6. ASSUME w \notin Chef PROVE InAfter(Coming(w))' /\ DishesBetween(0, Coming(w))'
  <2>1. n \in 1..TRAY_SIZE
    BY <1>1, <1>6, RoomAndDish
  <2>2. w # "customer1"
    BY DEF IInv, HomeTrays, FirstTray
  <2>3. in' = in /\ out'["v"] = (o + 1) % TRAY_SIZE
    BY <1>1, <1>6, <2>2 DEF Tray, NextOut
  <2>4. in'["v"] = (out'["v"] + (n - 1)) % TRAY_SIZE
    <3>1. 0 \in 0..(TRAY_SIZE - 1)
      BY TraySizeAssumption
    <3>2. QED
      BY <1>1, <1>3, <2>1, <2>3, <3>1, OutMovesOn DEF InAfter
  <2>5. ASSUME NEW k \in 1..(TRAY_SIZE - 1)
        PROVE  cells'[Place("v", k)]
                 = IF 0 <= Distance(k, out'["v"]) /\ Distance(k, out'["v"]) < n - 1
                     THEN 1 ELSE 0
    <3>1. k \in 0..(TRAY_SIZE - 1)
      BY <2>5, TraySizeAssumption
    <3>2. cells[Place("v", k)] = IF 1 <= Distance(k, o) /\ Distance(k, o) < n THEN 1 ELSE 0
      BY <1>3, <1>6, <2>5 DEF DishesBetween
    <3>3. 1 <= Distance(k, o) /\ Distance(k, o) < n
            <=> 0 <= Distance(k, out'["v"]) /\ Distance(k, out'["v"]) < n - 1
      BY <1>1, <2>1, <2>3, <3>1, OutMovesOn
    <3>4. QED
      BY <1>1, <3>2, <3>3
  <2>6. QED
    BY <1>1, <1>6, <2>4, <2>5 DEF InAfter, DishesBetween, Coming
<1>7. InAfter(Coming(w))' /\ DishesBetween(0, Coming(w))'
  BY <1>5, <1>6
<1>8. QED
  BY <1>4, <1>7 DEF QueueInv

(* The store of the counter settles the tray. *)
LEMMA StoreCountKeepsQueue ==
  ASSUME IInv, QueueInv, NEW w \in Worker, StoreCount(w), at[w] = "v"
  PROVE  QueueInv'
<1> USE DEF StoreCount, Goto
<1>1. /\ pc[w] = "store" /\ pc' = [pc EXCEPT ![w] = "unlock"]
      /\ UNCHANGED <<cells, in, out, at>>
      /\ pc \in [Worker -> WorkerStep] /\ count \in [Tray -> 0..TRAY_SIZE]
      /\ reg[w] = count["v"]
  BY DEF IInv, TypeOK, NoLostUpdate
<1>2. Holds(w, "v") /\ Unsettled(w) /\ \A v \in Worker \ {w} : ~Unsettled(v)
  BY <1>1, OthersAreSettled DEF Holds, Holding, Unsettled
<1>3. InAfter(Coming(w)) /\ DishesBetween(0, Coming(w))
  BY <1>1, <1>2 DEF QueueInv
<1>4. \A v \in Worker : ~Unsettled(v)'
  BY <1>1, <1>2 DEF Unsettled, Holds, Holding
<1>5. count'["v"] = Coming(w)
  BY <1>1 DEF Coming, Tray
<1>6. InAfter(count["v"])' /\ DishesBetween(0, count["v"])'
  BY <1>1, <1>3, <1>5 DEF InAfter, DishesBetween
<1>7. QED
  BY <1>4, <1>6 DEF QueueInv

LEMMA NextKeepsQueue == IInv /\ QueueInv /\ [Next]_vars => QueueInv'
<1> SUFFICES ASSUME IInv, QueueInv, [Next]_vars PROVE QueueInv'
  OBVIOUS
<1>1. /\ pc \in [Worker -> WorkerStep] /\ at \in [Worker -> Tray]
      /\ count \in [Tray -> 0..TRAY_SIZE] /\ cells \in [Places -> 0..2]
      /\ in \in [Tray -> 0..(TRAY_SIZE - 1)] /\ out \in [Tray -> 0..TRAY_SIZE]
      /\ "v" \in Tray /\ "nv" \in Tray
  BY DEF IInv, TypeOK, Tray
(* What is done at the other tray does not reach this one's cells but the  *)
(* first.                                                                  *)
<1>2. ASSUME NEW w \in Worker, at[w] = "nv", WorkerNext(w)
      PROVE  QueueInv'
  <2>1. /\ in'["v"] = in["v"] /\ out'["v"] = out["v"] /\ count'["v"] = count["v"]
    BY <1>1, <1>2
    DEF WorkerNext, InCriticalSection, GetSeat, GetDish, LockTray, FillCell, AdvanceIndex,
        LoadCount, StoreCount, UnlockTray, Announce
  <2>2. \A k \in 1..(TRAY_SIZE - 1) : cells'[Place("v", k)] = cells[Place("v", k)]
    <3>1. \A k \in 1..(TRAY_SIZE - 1) : /\ Place("v", k) # Place("nv", in["nv"])
                                        /\ Place("v", k) # Place("nv", out["nv"])
      BY <1>1, TraySizeAssumption DEF Place
    <3>2. CASE FillCell(w)
      BY <1>1, <1>2, <3>1, <3>2 DEF FillCell
    <3>3. CASE ~FillCell(w)
      <4>1. cells' = cells
        BY <1>2, <3>3
        DEF WorkerNext, InCriticalSection, GetSeat, GetDish, LockTray, AdvanceIndex,
            LoadCount, StoreCount, UnlockTray, Announce
      <4>2. QED
        BY <4>1
    <3>4. QED
      BY <3>2, <3>3
  <2>3. \A v \in Worker \ {w} : pc'[v] = pc[v] /\ at'[v] = at[v]
    BY <1>1, <1>2
    DEF WorkerNext, InCriticalSection, GetSeat, GetDish, LockTray, FillCell, AdvanceIndex,
        LoadCount, StoreCount, UnlockTray, Announce, Goto
  <2>4. ~Unsettled(w) /\ ~Unsettled(w)'
    <3>1. at'[w] = "nv" \/ pc'[w] = "slot"
      BY <1>1, <1>2
      DEF WorkerNext, InCriticalSection, GetSeat, GetDish, LockTray, FillCell,
          AdvanceIndex, LoadCount, StoreCount, UnlockTray, Announce, Goto
    <3>2. QED
      BY <1>2, <3>1 DEF Unsettled, Holds, Holding
  <2>5. \A v \in Worker : /\ Unsettled(v)' <=> Unsettled(v)
                          /\ Unsettled(v) => (pc'[v] = "index" <=> pc[v] = "index")
    BY <2>3, <2>4 DEF Unsettled, Holds
  <2>6. QED
    BY <2>1, <2>2, <2>5, QueueUntouched
(* The steps that take and give semaphores, and the load, leave the tray   *)
(* as it is.                                                               *)
<1>3. ASSUME NEW w \in Worker,
             GetSeat(w) \/ GetDish(w) \/ LockTray(w) \/ LoadCount(w) \/ UnlockTray(w)
               \/ Announce(w)
      PROVE  QueueInv'
  <2>1. UNCHANGED <<cells, in, out, count>>
    BY <1>3 DEF GetSeat, GetDish, LockTray, LoadCount, UnlockTray, Announce
  <2>2. \A v \in Worker \ {w} : pc'[v] = pc[v] /\ at'[v] = at[v]
    BY <1>1, <1>3 DEF GetSeat, GetDish, LockTray, LoadCount, UnlockTray, Announce, Goto
  <2>3. /\ Unsettled(w)' <=> Unsettled(w)
        /\ Unsettled(w) => (pc'[w] = "index" <=> pc[w] = "index")
    BY <1>1, <1>3
    DEF GetSeat, GetDish, LockTray, LoadCount, UnlockTray, Announce, Goto, Unsettled,
        Holds, Holding
  <2>4. \A v \in Worker : /\ Unsettled(v)' <=> Unsettled(v)
                          /\ Unsettled(v) => (pc'[v] = "index" <=> pc[v] = "index")
    BY <2>2, <2>3 DEF Unsettled, Holds
  <2>5. QED
    BY <2>1, <2>4, QueueUntouched
<1>4. ASSUME NEW w \in Worker, WorkerNext(w) PROVE QueueInv'
  <2>1. CASE at[w] = "nv"
    BY <1>4, <2>1, <1>2
  <2>2. CASE at[w] = "v"
    BY <1>4, <2>2, <1>3, FillCellKeepsQueue, AdvanceIndexKeepsQueue, StoreCountKeepsQueue
    DEF WorkerNext, InCriticalSection
  <2>3. QED
    BY <1>1, <2>1, <2>2 DEF Tray
<1>5. CASE ManagerNext \/ UNCHANGED vars
  <2>1. UNCHANGED <<cells, in, out, count, pc, at>>
    BY <1>5 DEF ManagerNext, ManagerLock, ManagerRead, ManagerUnlock, vars
  <2>2. \A v \in Worker : Unsettled(v)' <=> Unsettled(v)
    BY <2>1 DEF Unsettled, Holds
  <2>3. QED
    BY <2>1, <2>2, QueueUntouched
<1>6. QED
  BY <1>4, <1>5 DEF Next

LEMMA InitQueue == Init => QueueInv
<1> SUFFICES ASSUME Init PROVE QueueInv
  OBVIOUS
<1>1. \A w \in Worker : ~Unsettled(w)
  BY DEF Init, Unsettled, Holds, Holding
<1>2. InAfter(count["v"])
  BY TraySizeAssumption DEF Init, InAfter, Tray
<1>3. DishesBetween(0, count["v"])
  <2>1. count["v"] = 0 /\ \A k \in 1..(TRAY_SIZE - 1) : cells[Place("v", k)] = 0
    BY TraySizeAssumption DEF Init, Place, Places, Tray
  <2>2. out["v"] = 0 /\ 0 \in 0..(TRAY_SIZE - 1)
    BY TraySizeAssumption DEF Init, Tray
  <2>3. \A k \in 1..(TRAY_SIZE - 1) : Distance(k, out["v"]) \in 0..(TRAY_SIZE - 1)
    BY <2>2, CellAtDistance, TraySizeAssumption
  <2>4. QED
    BY <2>1, <2>3, TraySizeAssumption DEF DishesBetween
<1>4. QED
  BY <1>1, <1>2, <1>3 DEF QueueInv

(* Whatever customer 1 does to the other tray, and for every TRAY_SIZE,    *)
(* the vegetarian tray outside its critical sections is the circular queue *)
(* the code means it to be, but for the first cell.                        *)
THEOREM VeganTrayQueues == Spec => []VeganTrayIsQueue
<1>1. IInv /\ QueueInv => VeganTrayIsQueue
  <2> SUFFICES ASSUME IInv, QueueInv, mutex["v"] = 1
               PROVE  /\ in["v"] = (out["v"] + count["v"]) % TRAY_SIZE
                      /\ \A k \in 1..(TRAY_SIZE - 1) :
                           cells[Place("v", k)] =
                             IF (k - out["v"] + TRAY_SIZE) % TRAY_SIZE < count["v"]
                               THEN 1 ELSE 0
    BY DEF VeganTrayIsQueue
  <2>1. \A w \in Worker : ~Holds(w, "v")
    BY HolderIsAlone DEF IInv, Tray
  <2>2. InAfter(count["v"]) /\ DishesBetween(0, count["v"])
    BY <2>1 DEF QueueInv, Unsettled
  <2>3. ASSUME NEW k \in 1..(TRAY_SIZE - 1) PROVE 0 <= Distance(k, out["v"])
    <3>1. /\ out["v"] \in 0..(TRAY_SIZE - 1) /\ 0 \in 0..(TRAY_SIZE - 1)
          /\ k \in 0..(TRAY_SIZE - 1)
      BY TraySizeAssumption DEF IInv, VeganOutInRange
    <3>2. Distance(k, out["v"]) \in 0..(TRAY_SIZE - 1)
      BY <3>1, CellAtDistance
    <3>3. QED
      BY <3>2
  <2>4. QED
    BY <2>2, <2>3 DEF InAfter, DishesBetween, Distance
<1>2. IInv /\ QueueInv /\ [Next]_vars => IInv' /\ QueueInv'
  BY NextKeepsIInv, NextKeepsQueue
<1>3. Init => IInv /\ QueueInv
  BY InitIInv, InitQueue
<1>4. QED
  BY <1>1, <1>2, <1>3, PTL DEF Spec

-----------------------------------------------------------------------------
(***************************************************************************)
(* The restaurant: what hiring, signals and cleanup leave of the kitchen's *)
(* correctness, and what they promise themselves.                          *)
(***************************************************************************)

LEMMA RestaurantStepIsKitchenStep == [RestaurantNext]_all => [Next]_vars
<1> SUFFICES ASSUME [RestaurantNext]_all PROVE [Next]_vars
  OBVIOUS
<1>1. CASE ReportLoop
  BY <1>1 DEF ReportLoop, Next
<1>2. CASE \E w \in Worker : Work(w)
  BY <1>2 DEF Work, Next
<1>3. CASE Hire \/ RegisterCleanup \/ Cleanup
  BY <1>3 DEF Hire, RegisterCleanup, Cleanup, EnterCleanup, KillChild, WaitChild,
              ReleaseSpace, kitchen
<1>4. CASE Environment
  BY <1>4 DEF Environment, ForkFails, KillInt, CtrlC, PidReused, kitchen
<1>5. CASE \E w \in Worker : Die(w)
  BY <1>5 DEF Die, kitchen
<1>6. CASE UNCHANGED all
  BY <1>6 DEF all
<1>7. QED
  BY <1>1, <1>2, <1>3, <1>4, <1>5, <1>6 DEF RestaurantNext, Manage

(* The restaurant implements the kitchen: forks, signals, deaths and       *)
(* cleanups are invisible to the trays and semaphores.                     *)
THEOREM RestaurantImplementsKitchen == RestaurantSpec => Spec
<1>1. RestaurantInit => Init
  BY DEF RestaurantInit
<1>2. QED
  BY <1>1, RestaurantStepIsKitchenStep, PTL DEF RestaurantSpec, Spec

Alone(w, t) == ~ManagerHolds(t) /\ Holders(t) = {w}

LEMMA HoldersAreAlone ==
  IInv => \A w \in Worker, t \in Tray : Holds(w, t) => Alone(w, t)
  BY HolderIsAlone DEF IInv, Alone, Holders

LEMMA HoldersStayAlone ==
  IInv' => (\A w \in Worker, t \in Tray : Holds(w, t) => Alone(w, t))'
  BY HoldersAreAlone, PTL

(* The step of a worker that does not hold tray t leaves t as it is. *)
LEMMA OnlyHoldersWrite ==
  ASSUME IInv, NEW v \in Worker, WorkerNext(v), NEW t \in Tray, ~Holds(v, t)
  PROVE  in'[t] = in[t] /\ out'[t] = out[t] /\ count'[t] = count[t]
<1>1. CASE AdvanceIndex(v) \/ StoreCount(v)
  <2>1. at[v] # t
    BY <1>1 DEF AdvanceIndex, StoreCount, Goto, Holds, Holding
  <2>2. QED
    BY <1>1, <2>1 DEF AdvanceIndex, StoreCount, IInv, TypeOK
<1>2. CASE ~(AdvanceIndex(v) \/ StoreCount(v))
  BY <1>2 DEF WorkerNext, InCriticalSection, GetSeat, GetDish, LockTray, FillCell, LoadCount,
              UnlockTray, Announce
<1>3. QED
  BY <1>1, <1>2

(* No death of a worker, at whatever point of its round, lets another one  *)
(* or the manager see the tray it has left half updated, for every crew,   *)
(* tray size and number of signals.                                        *)
THEOREM DeadHoldersKeepTraysShut == RestaurantSpec => TornTraysStayShut
<1> DEFINE Shut(t) == /\ in'[t] = in[t] /\ out'[t] = out[t] /\ count'[t] = count[t]
                      /\ Holders(t)' = Holders(t)
                      /\ ~ManagerHolds(t)'
<1>1. ASSUME IInv, IInv', [RestaurantNext]_all, NEW t \in Tray, Torn(t) PROVE Shut(t)
  <2>1. PICK w \in Worker : Holds(w, t) /\ ~Running(w)
    BY <1>1 DEF Torn
  <2>2. Alone(w, t)
    BY <1>1, <2>1, HoldersAreAlone
  <2>3. CASE UNCHANGED vars
    BY <2>2, <2>3 DEF vars, Alone, Holders, Holds, ManagerHolds
  <2>4. ASSUME pc'[w] = pc[w], at'[w] = at[w] PROVE Alone(w, t)'
    <3>1. Holds(w, t)'
      BY <2>1, <2>4 DEF Holds
    <3>2. QED
      BY <1>1, <3>1, HoldersStayAlone
  <2>5. CASE ReportLoop
    <3>1. UNCHANGED <<in, out, count, pc, at>>
      BY <2>5 DEF ReportLoop, ManagerNext, ManagerLock, ManagerRead, ManagerUnlock
    <3>2. Alone(w, t)'
      BY <2>4, <3>1
    <3>3. QED
      BY <2>2, <3>1, <3>2 DEF Alone
  <2>6. ASSUME NEW v \in Worker, Work(v) PROVE Shut(t)
    <3>1. v # w /\ WorkerNext(v)
      BY <2>1, <2>6 DEF Work
    <3>2. ~Holds(v, t)
      BY <2>2, <3>1 DEF Alone, Holders
    <3>3. in'[t] = in[t] /\ out'[t] = out[t] /\ count'[t] = count[t]
      BY <1>1, <3>1, <3>2, OnlyHoldersWrite
    <3>4. pc'[w] = pc[w] /\ at'[w] = at[w]
      BY <1>1, <3>1
      DEF IInv, TypeOK, WorkerNext, InCriticalSection, GetSeat, GetDish, LockTray, FillCell,
          AdvanceIndex, LoadCount, StoreCount, UnlockTray, Announce, Goto
    <3>5. QED
      BY <2>2, <2>4, <3>3, <3>4 DEF Alone
  <2>7. QED
    BY <1>1, <2>3, <2>5, <2>6
    DEF RestaurantNext, Manage, Environment, Cleanup, Hire, RegisterCleanup, EnterCleanup,
        KillChild, WaitChild, ReleaseSpace, ForkFails, KillInt, CtrlC, PidReused, Die,
        kitchen, all
<1> DEFINE AllShut == \A t \in Tray : Torn(t) => Shut(t)
<1>2. IInv /\ IInv' /\ [RestaurantNext]_all => [AllShut]_all
  BY <1>1
<1>3. QED
  BY <1>2, RestaurantImplementsKitchen, Invariance, PTL DEF RestaurantSpec, TornTraysStayShut

-----------------------------------------------------------------------------
(***************************************************************************)
(* Cleanup leaves no worker behind.  The invariant follows the two loops:  *)
(* a worker passed by the first loop is not alive, and each turn of the    *)
(* second loop leaves one child fewer or none at all.                      *)
(***************************************************************************)
Children == {w \in Worker : Child(w)}
Hired    == {Crew[i] : i \in 1..CrewSize}

OnlyCrewHired == \A w \in Worker \ Hired : life[w] = "none"

PassedAreSignalled ==
  boss = "kill" => \A i \in 1..(turn - 1) : life[Crew[i]] # "alive"

AllAreSignalled ==
  boss \in {"wait", "release"} => \A w \in Worker : life[w] # "alive"

ChildrenLeft == boss = "wait" => Cardinality(Children) <= CrewSize - turn + 1

CleanupInv ==
  /\ boss \in BossPhase
  /\ turn \in 1..CrewSize
  /\ life \in [Worker -> LifeStage]
  /\ OnlyCrewHired
  /\ PassedAreSignalled
  /\ AllAreSignalled
  /\ ChildrenLeft
  /\ NoWorkerAtRelease

LEMMA WorkersFinite == \A S \in SUBSET Worker : IsFiniteSet(S)
<1>1. \A S, x : IsFiniteSet(S) => IsFiniteSet(S \cup {x})
  BY FS_AddElement
<1>2. IsFiniteSet({})
  BY FS_EmptySet
<1>3. IsFiniteSet(((({} \cup {"donatello"}) \cup {"portecelli"}) \cup {"customer1"}) \cup {"customer2"})
  BY <1>1, <1>2
<1>4. IsFiniteSet(((((({} \cup {"donatello"}) \cup {"portecelli"}) \cup {"customer1"})
                     \cup {"customer2"})) \cup {"customer3"})
  BY <1>1, <1>3
<1>5. Worker = ((((({} \cup {"donatello"}) \cup {"portecelli"}) \cup {"customer1"})
                     \cup {"customer2"})) \cup {"customer3"}
  BY DEF Worker, Chef, Customer
<1>6. QED
  BY <1>4, <1>5, FS_Subset

LEMMA CrewFacts ==
  /\ CrewSize \in Nat \ {0}
  /\ \A i \in 1..CrewSize : Crew[i] \in Worker
BY CrewAssumption DEF CrewSize

(* There are no more hired workers than passes of the hiring loop. *)
LEMMA HiredIsSmall ==
  ASSUME NEW S \in SUBSET Hired
  PROVE  Cardinality(S) <= CrewSize
<1>1. IsFiniteSet(1..CrewSize) /\ Cardinality(1..CrewSize) = CrewSize
  BY CrewFacts, FS_Interval
<1>2. IsFiniteSet(Hired) /\ Cardinality(Hired) <= CrewSize
  <2> DEFINE f == [i \in 1..CrewSize |-> Crew[i]]
  <2>1. f \in Surjection(1..CrewSize, Hired)
    BY DEF Surjection, Hired
  <2>2. QED
    BY <1>1, <2>1, FS_Surjection
<1>3. IsFiniteSet(S) /\ Cardinality(S) <= Cardinality(Hired)
  BY <1>2, FS_Subset
<1>4. QED
  BY <1>2, <1>3, CrewFacts, FS_CardinalityType

LEMMA CleanupInvInit == RestaurantInit => CleanupInv
  BY CrewFacts
  DEF RestaurantInit, CleanupInv, BossPhase, LifeStage, OnlyCrewHired, PassedAreSignalled,
      AllAreSignalled, ChildrenLeft, NoWorkerAtRelease

(* A step that adds no child and revives nobody, and does not move the     *)
(* manager's loops, preserves the invariant.                               *)
LEMMA QuietStep ==
  ASSUME CleanupInv,
         life' \in [Worker -> LifeStage],
         \A w \in Worker : life[w] = "none" => life'[w] = "none",
         \A w \in Worker : life[w] # "alive" => life'[w] # "alive",
         Children' \subseteq Children,
         turn' = turn,
         boss' = boss \/ boss' \in {"open", "report", "dead"}
  PROVE  CleanupInv'
<1>1. boss' \in BossPhase /\ turn' \in 1..CrewSize /\ OnlyCrewHired'
  BY DEF CleanupInv, BossPhase, OnlyCrewHired, Hired
<1>2. PassedAreSignalled' /\ AllAreSignalled'
  BY CrewFacts DEF CleanupInv, PassedAreSignalled, AllAreSignalled
<1>3. NoWorkerAtRelease'
  BY DEF CleanupInv, NoWorkerAtRelease, Children
<1>4. ChildrenLeft'
  <2> SUFFICES ASSUME boss' = "wait" PROVE Cardinality(Children)' <= CrewSize - turn + 1
    BY DEF ChildrenLeft
  <2>1. Cardinality(Children) <= CrewSize - turn + 1
    BY DEF CleanupInv, ChildrenLeft
  <2>2. IsFiniteSet(Children)
    BY WorkersFinite DEF Children
  <2>3. /\ Cardinality(Children') <= Cardinality(Children)
        /\ Cardinality(Children) \in Nat /\ Cardinality(Children') \in Nat
    BY <2>2, FS_Subset, FS_CardinalityType
  <2>4. turn \in Int
    BY DEF CleanupInv
  <2>5. QED
    BY <2>1, <2>3, <2>4, CrewFacts
<1>5. QED
  BY <1>1, <1>2, <1>3, <1>4 DEF CleanupInv

LEMMA KillChildKeepsCleanupInv ==
  ASSUME CleanupInv, KillChild
  PROVE  CleanupInv'
<1> DEFINE w == Crew[turn]
<1>1. turn \in 1..CrewSize /\ w \in Worker /\ boss = "kill"
  BY CrewFacts DEF CleanupInv, KillChild
<1>2. life' = [life EXCEPT ![w] = AfterKill(life[w])]
  BY DEF KillChild
<1>3. /\ AfterKill(life[w]) \in LifeStage
      /\ AfterKill(life[w]) # "alive"
      /\ life[w] = "none" => AfterKill(life[w]) = "none"
      /\ AfterKill(life[w]) \in {"alive", "doomed", "zombie"} => Child(w)
  BY <1>1 DEF AfterKill, LifeStage, CleanupInv, Child
<1>4. /\ life' \in [Worker -> LifeStage]
      /\ \A v \in Worker \ {w} : life'[v] = life[v]
      /\ life'[w] = AfterKill(life[w])
  BY <1>1, <1>2, <1>3 DEF CleanupInv
<1>5. OnlyCrewHired'
  BY <1>1, <1>3, <1>4 DEF CleanupInv, OnlyCrewHired, Hired
<1>6. CASE turn < CrewSize
  <2>1. turn' = turn + 1 /\ boss' = "kill"
    BY <1>1, <1>6 DEF KillChild, NextTurn
  <2>2. turn' \in 1..CrewSize
    BY <1>1, <1>6, <2>1, CrewFacts
  <2>3. PassedAreSignalled'
    <3>1. ASSUME NEW i \in 1..turn PROVE life'[Crew[i]] # "alive"
      <4>1. CASE i = turn
        BY <1>3, <1>4, <4>1
      <4>2. CASE i # turn
        <5>1. i \in 1..(turn - 1) /\ Crew[i] \in Worker
          BY <1>1, <3>1, <4>2, CrewFacts
        <5>2. life[Crew[i]] # "alive"
          BY <1>1, <5>1 DEF CleanupInv, PassedAreSignalled
        <5>3. QED
          BY <1>3, <1>4, <5>1, <5>2
      <4>3. QED
        BY <4>1, <4>2
    <3>2. (turn + 1) - 1 = turn
      BY <1>1
    <3>3. QED
      BY <2>1, <3>1, <3>2 DEF PassedAreSignalled
  <2>4. QED
    BY <1>4, <1>5, <2>1, <2>2, <2>3
    DEF CleanupInv, BossPhase, AllAreSignalled, ChildrenLeft, NoWorkerAtRelease
<1>7. CASE ~(turn < CrewSize)
  <2>1. turn' = 1 /\ boss' = "wait" /\ turn = CrewSize
    BY <1>1, <1>7, CrewFacts DEF KillChild, NextTurn
  <2>2. \A v \in Worker : life'[v] # "alive"
    <3>1. ASSUME NEW v \in Worker, v # w PROVE life[v] # "alive"
      <4>1. CASE v \in Hired
        <5>1. PICK i \in 1..CrewSize : v = Crew[i]
          BY <4>1 DEF Hired
        <5>2. i \in 1..(turn - 1)
          BY <2>1, <3>1, <5>1, CrewFacts
        <5>3. QED
          BY <1>1, <5>1, <5>2 DEF CleanupInv, PassedAreSignalled
      <4>2. CASE v \notin Hired
        BY <3>1, <4>2 DEF CleanupInv, OnlyCrewHired
      <4>3. QED
        BY <4>1, <4>2
    <3>2. QED
      BY <1>3, <1>4, <3>1
  <2>3. Cardinality(Children)' <= CrewSize
    <3>1. Children' \subseteq Hired
      BY <1>5 DEF OnlyCrewHired, Children, Child
    <3>2. QED
      BY <3>1, HiredIsSmall
  <2>4. ChildrenLeft'
    BY <2>1, <2>3, CrewFacts DEF ChildrenLeft
  <2>5. QED
    BY <1>4, <1>5, <2>1, <2>2, <2>4, CrewFacts
    DEF CleanupInv, BossPhase, AllAreSignalled, PassedAreSignalled, NoWorkerAtRelease
<1>8. QED
  BY <1>6, <1>7

LEMMA WaitChildKeepsCleanupInv ==
  ASSUME CleanupInv, WaitChild
  PROVE  CleanupInv'
<1>1. /\ boss = "wait" /\ turn \in 1..CrewSize
      /\ Cardinality(Children) <= CrewSize - turn + 1
  BY DEF CleanupInv, WaitChild, ChildrenLeft
<1>2. /\ life' \in [Worker -> LifeStage]
      /\ \A w \in Worker : life[w] = "none" => life'[w] = "none"
      /\ \A w \in Worker : life'[w] # "alive"
  BY <1>1 DEF WaitChild, CleanupInv, AllAreSignalled, LifeStage
<1>3. OnlyCrewHired'
  BY <1>2 DEF CleanupInv, OnlyCrewHired, Hired
<1>4. Cardinality(Children)' \in Nat /\ Cardinality(Children)' <= CrewSize - turn
  <2>1. IsFiniteSet(Children) /\ Cardinality(Children) \in Nat
    BY WorkersFinite, FS_CardinalityType DEF Children
  <2>2. CASE \E w \in Worker : life[w] = "zombie" /\ life' = [life EXCEPT ![w] = "gone"]
    <3>1. PICK w \in Worker : life[w] = "zombie" /\ life' = [life EXCEPT ![w] = "gone"]
      BY <2>2
    <3>2. w \in Children /\ Children' = Children \ {w}
      BY <3>1 DEF Children, Child, CleanupInv
    <3>3. Cardinality(Children') = Cardinality(Children) - 1 /\ IsFiniteSet(Children')
      BY <2>1, <3>2, FS_RemoveElement
    <3>4. Cardinality(Children') \in Nat
      BY <3>3, FS_CardinalityType
    <3>5. QED
      BY <1>1, <2>1, <3>3, <3>4, CrewFacts
  <2>3. CASE ~(\E w \in Worker : Child(w)) /\ life' = life
    <3>1. Children' = {}
      BY <2>3 DEF Children, Child
    <3>2. Cardinality(Children') = 0
      BY <3>1, FS_EmptySet
    <3>3. QED
      BY <1>1, <3>2, CrewFacts
  <2>4. QED
    BY <2>2, <2>3 DEF WaitChild
<1>5. CASE turn < CrewSize
  <2>1. turn' = turn + 1 /\ boss' = "wait"
    BY <1>1, <1>5 DEF WaitChild, NextTurn
  <2>2. turn' \in 1..CrewSize /\ CrewSize - turn' + 1 = CrewSize - turn
    BY <1>1, <1>5, <2>1, CrewFacts
  <2>3. QED
    BY <1>2, <1>3, <1>4, <2>1, <2>2
    DEF CleanupInv, BossPhase, AllAreSignalled, PassedAreSignalled, ChildrenLeft,
        NoWorkerAtRelease
<1>6. CASE ~(turn < CrewSize)
  <2>1. turn' = 1 /\ boss' = "release" /\ turn = CrewSize
    BY <1>1, <1>6, CrewFacts DEF WaitChild, NextTurn
  <2>2. Cardinality(Children') = 0
    BY <1>4, <2>1, CrewFacts
  <2>3. IsFiniteSet(Children')
    BY WorkersFinite DEF Children
  <2>4. Children' = {}
    BY <2>2, <2>3, FS_EmptySet
  <2>5. NoWorkerAtRelease'
    BY <2>4 DEF NoWorkerAtRelease, Children
  <2>6. QED
    BY <1>2, <1>3, <2>1, <2>5, CrewFacts
    DEF CleanupInv, BossPhase, AllAreSignalled, PassedAreSignalled, ChildrenLeft
<1>7. QED
  BY <1>5, <1>6

LEMMA HireKeepsCleanupInv ==
  ASSUME CleanupInv, Hire
  PROVE  CleanupInv'
<1>1. turn \in 1..CrewSize /\ Crew[turn] \in Hired /\ Crew[turn] \in Worker
  BY CrewFacts DEF CleanupInv, Hired
<1>2. life' \in [Worker -> LifeStage] /\ OnlyCrewHired'
  BY <1>1 DEF Hire, CleanupInv, LifeStage, OnlyCrewHired, Hired
<1>3. turn' \in 1..CrewSize /\ boss' \in {"hire", "open"}
  BY <1>1, CrewFacts DEF Hire
<1>4. QED
  BY <1>2, <1>3
  DEF CleanupInv, BossPhase, PassedAreSignalled, AllAreSignalled, ChildrenLeft,
      NoWorkerAtRelease

LEMMA RestaurantKeepsCleanupInv == CleanupInv /\ [RestaurantNext]_all => CleanupInv'
<1> SUFFICES ASSUME CleanupInv, [RestaurantNext]_all PROVE CleanupInv'
  OBVIOUS
<1>1. CASE Hire
  BY <1>1, HireKeepsCleanupInv
<1>2. CASE KillChild
  BY <1>2, KillChildKeepsCleanupInv
<1>3. CASE WaitChild
  BY <1>3, WaitChildKeepsCleanupInv
<1>4. CASE EnterCleanup
  BY <1>4, CrewFacts
  DEF EnterCleanup, CleanupInv, BossPhase, OnlyCrewHired, PassedAreSignalled,
      AllAreSignalled, ChildrenLeft, NoWorkerAtRelease, Hired
<1>5. CASE RegisterCleanup \/ ReleaseSpace \/ ReportLoop \/ UNCHANGED all
  <2>1. /\ life' = life /\ turn' = turn
        /\ boss' = boss \/ boss' \in {"open", "report", "dead"}
    BY <1>5 DEF RegisterCleanup, ReleaseSpace, ReportLoop, all, lifecycle
  <2>2. Children' = Children
    BY <2>1 DEF Children, Child
  <2>3. QED
    BY <2>1, <2>2, QuietStep DEF CleanupInv
<1>6. CASE ForkFails \/ KillInt \/ CtrlC
  <2>1. /\ turn' = turn
        /\ boss' = boss \/ boss' \in {"open", "report", "dead"}
        /\ \/ life' = life
           \/ life' = [w \in Worker |-> IF life[w] = "alive" THEN "doomed" ELSE life[w]]
    BY <1>6 DEF ForkFails, KillInt, CtrlC, ManagerGone, InterruptManager
  <2>2. /\ life' \in [Worker -> LifeStage] /\ Children' \subseteq Children
        /\ \A w \in Worker : life[w] = "none" => life'[w] = "none"
        /\ \A w \in Worker : life[w] # "alive" => life'[w] # "alive"
    BY <2>1 DEF CleanupInv, LifeStage, Children, Child
  <2>3. QED
    BY <2>1, <2>2, QuietStep
<1>7. CASE \E w \in Worker : Work(w) \/ Die(w) \/ PidReused(w)
  <2>1. PICK w \in Worker : Work(w) \/ Die(w) \/ PidReused(w)
    BY <1>7
  <2>2. boss' = boss /\ turn' = turn
    BY <2>1 DEF Work, Die, PidReused, lifecycle
  <2>3. /\ life' \in [Worker -> LifeStage] /\ Children' \subseteq Children
        /\ \A v \in Worker : life[v] = "none" => life'[v] = "none"
        /\ \A v \in Worker : life[v] # "alive" => life'[v] # "alive"
    BY <2>1 DEF Work, Die, PidReused, lifecycle, CleanupInv, LifeStage, Children, Child
  <2>4. QED
    BY <2>2, <2>3, QuietStep
<1>8. QED
  BY <1>1, <1>2, <1>3, <1>4, <1>5, <1>6, <1>7
  DEF RestaurantNext, Manage, Environment, Cleanup

(* Whatever the crew, however the workers die and however many signals     *)
(* arrive, cleanup touches the semaphores and the memory only when every   *)
(* worker is dead and waited for.                                          *)
THEOREM CleanupLeavesNoWorker == RestaurantSpec => []NoWorkerAtRelease
<1>1. CleanupInv => NoWorkerAtRelease
  BY DEF CleanupInv
<1>2. QED
  BY <1>1, CleanupInvInit, RestaurantKeepsCleanupInv, PTL DEF RestaurantSpec

-----------------------------------------------------------------------------
(***************************************************************************)
(* What cleanup leaves behind, and whom it strikes.  Nobody has been       *)
(* waited for, and so no pid is free, before the first cleanup comes to    *)
(* its waits; and after a cleanup there is no child left that could work.  *)
(***************************************************************************)
NobodyReaped == \A w \in Worker : life[w] \notin {"gone", "stranger", "struck"}

ClosingInv ==
  /\ closings \in Nat
  /\ boss \in {"hire", "open"} => closings = 0
  /\ boss \in {"kill", "wait", "release"} => closings > 0
  /\ closings = 0 /\ boss # "dead" => NobodyReaped
  /\ closings = 1 /\ boss = "kill" => NobodyReaped
  /\ FirstCleanupSparesStrangers
  /\ closings > 0 /\ boss = "report" => \A w \in Worker : ~Child(w)

LEMMA ClosingInvInit == RestaurantInit => ClosingInv
BY DEF RestaurantInit, ClosingInv, NobodyReaped, FirstCleanupSparesStrangers

LEMMA RestaurantKeepsClosingInv ==
  CleanupInv /\ ClosingInv /\ [RestaurantNext]_all => ClosingInv'
<1> SUFFICES ASSUME CleanupInv, ClosingInv, [RestaurantNext]_all PROVE ClosingInv'
  OBVIOUS
<1>1. /\ life \in [Worker -> LifeStage] /\ boss \in BossPhase /\ closings \in Nat
      /\ turn \in 1..CrewSize /\ Crew[turn] \in Worker
  BY CrewFacts DEF CleanupInv, ClosingInv
<1> USE DEF ClosingInv, NobodyReaped, FirstCleanupSparesStrangers, Child
<1>2. CASE Hire
  BY <1>1, <1>2 DEF Hire
<1>3. CASE RegisterCleanup
  BY <1>1, <1>3 DEF RegisterCleanup
<1>4. CASE EnterCleanup
  BY <1>1, <1>4 DEF EnterCleanup
(* Among the pids of the first cleanup there is no stranger's. *)
<1>5. CASE KillChild
  <2>1. /\ boss = "kill" /\ boss' \in {"kill", "wait"} /\ closings' = closings
        /\ closings > 0
        /\ life' = [life EXCEPT ![Crew[turn]] = AfterKill(life[Crew[turn]])]
    BY <1>5 DEF KillChild, NextTurn
  <2>2. closings <= 1 => NobodyReaped
    BY <1>1, <2>1
  <2>3. NobodyReaped => NobodyReaped'
    BY <1>1, <2>1 DEF AfterKill
  <2>4. QED
    BY <1>1, <2>1, <2>2, <2>3
<1>6. CASE WaitChild
  <2>1. /\ boss = "wait" /\ boss' \in {"wait", "release"} /\ closings' = closings
        /\ closings > 0
        /\ \A w \in Worker : life'[w] = "struck" => life[w] = "struck"
    BY <1>1, <1>6 DEF WaitChild, NextTurn
  <2>2. QED
    BY <1>1, <2>1
<1>7. CASE ReleaseSpace
  BY <1>1, <1>7 DEF ReleaseSpace, CleanupInv, NoWorkerAtRelease
<1>8. CASE ForkFails
  BY <1>1, <1>8 DEF ForkFails, ManagerGone
<1>9. CASE KillInt
  BY <1>1, <1>9 DEF KillInt, CanInterrupt, InterruptManager, ManagerGone
<1>10. CASE CtrlC
  <2>1. /\ boss' = boss \/ boss' = "dead"
        /\ closings' = closings
        /\ \A w \in Worker : life'[w] = IF life[w] = "alive" THEN "doomed" ELSE life[w]
    BY <1>10 DEF CtrlC, InterruptManager, ManagerGone
  <2>2. QED
    BY <1>1, <2>1
<1>11. ASSUME NEW w \in Worker, Die(w) PROVE ClosingInv'
  <2>1. /\ boss' = boss /\ closings' = closings
        /\ life' = [life EXCEPT ![w] = IF boss = "dead" THEN "gone" ELSE "zombie"]
        /\ life[w] = "doomed"
    BY <1>11 DEF Die
  <2>2. QED
    BY <1>1, <1>11, <2>1
<1>12. ASSUME NEW w \in Worker, PidReused(w) PROVE ClosingInv'
  <2>1. /\ boss' = boss /\ closings' = closings /\ boss # "dead"
        /\ life' = [life EXCEPT ![w] = "stranger"]
        /\ life[w] = "gone"
    BY <1>12 DEF PidReused
  <2>2. QED
    BY <1>1, <1>12, <2>1
<1>13. CASE ReportLoop \/ (\E w \in Worker : Work(w)) \/ UNCHANGED all
  <2>1. UNCHANGED <<boss, closings, life>>
    BY <1>13 DEF ReportLoop, Work, all, lifecycle
  <2>2. QED
    BY <1>1, <2>1
<1>14. QED
  BY <1>2, <1>3, <1>4, <1>5, <1>6, <1>7, <1>8, <1>9, <1>10, <1>11, <1>12, <1>13
  DEF RestaurantNext, Manage, Environment, Cleanup

LEMMA ClosingInvariance == RestaurantSpec => [](CleanupInv /\ ClosingInv)
<1>1. CleanupInv /\ ClosingInv /\ [RestaurantNext]_all => CleanupInv' /\ ClosingInv'
  BY RestaurantKeepsCleanupInv, RestaurantKeepsClosingInv
<1>2. QED
  BY <1>1, CleanupInvInit, ClosingInvInit, PTL DEF RestaurantSpec

(* child_pids is never reset, and yet the first cleanup kills nobody       *)
(* else's process: whoever dies before, of a Ctrl+C too, stays a zombie    *)
(* until cleanup has killed all five.                                      *)
THEOREM FirstCleanupKillsNoStranger == RestaurantSpec => []FirstCleanupSparesStrangers
<1>1. ClosingInv => FirstCleanupSparesStrangers
  BY DEF ClosingInv
<1>2. QED
  BY <1>1, ClosingInvariance, PTL

(* After a cleanup nobody changes the trays: no worker is left, and the    *)
(* report loop, to which the handler returns, only reads.                  *)
THEOREM ClosedTraysStayStill == RestaurantSpec => ClosedTraysAreStill
<1> DEFINE Still ==
      closings > 0 /\ boss \in {"release", "report"}
        => UNCHANGED <<cells, in, out, count, empty, full, pc>>
<1>1. CleanupInv /\ ClosingInv /\ [RestaurantNext]_all => [Still]_all
  <2> SUFFICES ASSUME CleanupInv, ClosingInv, [RestaurantNext]_all,
                      closings > 0, boss \in {"release", "report"}
               PROVE  UNCHANGED <<cells, in, out, count, empty, full, pc>>
    OBVIOUS
  <2>1. \A w \in Worker : ~Running(w)
    BY DEF CleanupInv, NoWorkerAtRelease, ClosingInv, Child, Running
  <2>2. CASE ReportLoop
    BY <2>2 DEF ReportLoop, ManagerNext, ManagerLock, ManagerRead, ManagerUnlock
  <2>3. CASE \E w \in Worker : Work(w)
    BY <2>1, <2>3 DEF Work
  <2>4. CASE UNCHANGED vars
    BY <2>4 DEF vars
  <2>5. QED
    BY <2>2, <2>3, <2>4
    DEF RestaurantNext, Manage, Environment, Cleanup, Hire, RegisterCleanup, EnterCleanup,
        KillChild, WaitChild, ReleaseSpace, ForkFails, KillInt, CtrlC, PidReused, Die,
        kitchen, all
<1>2. QED
  BY <1>1, ClosingInvariance, PTL DEF RestaurantSpec, ClosedTraysAreStill
=============================================================================
