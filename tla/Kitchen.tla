------------------------------ MODULE Kitchen -------------------------------
(***************************************************************************)
(* The shared kitchen of restaurant_manager_final.c while it is open: two  *)
(* chefs and three customers, each a process of its own, and the manager's *)
(* reporting loop, all working on the two trays of RestaurantSharedSpace   *)
(* under six process-shared semaphores.                                    *)
(*                                                                         *)
(* Every access to shared memory is a step.  A worker's round is           *)
(*   slot -> lock -> cell -> index -> load -> store -> unlock -> post      *)
(* where "slot" is sem_wait on nv_empty/nv_full/v_empty/v_full, "cell",    *)
(* "index", "load", "store" are the critical section (the count++ and      *)
(* count-- of the source are a load and a store), and the sleep() that     *)
(* ends a round is part of being at "slot".                                *)
(***************************************************************************)
EXTENDS Integers

CONSTANT TRAY_SIZE          \* the #define of the source, 10 in the program

(***************************************************************************)
(* Customer 1 computes its next index with a bitwise "and"; the operator   *)
(* BitAnd below spells out four bits, enough for the program's value.      *)
(***************************************************************************)
ASSUME TraySizeAssumption == TRAY_SIZE \in 1..15

VARIABLES
  cells,    \* both tray arrays, adjacent in memory as in the struct
  in,       \* non_vegan_in, vegan_in
  out,      \* non_vegan_out, vegan_out
  count,    \* non_vegan_count, vegan_count
  mutex,    \* nv_mutex, v_mutex
  empty,    \* nv_empty, v_empty
  full,     \* nv_full, v_full
  pc,       \* where each worker is in its round
  at,       \* the tray each worker is serving now
  reg,      \* the count a worker has loaded and not yet stored back
  mgr,      \* where the manager is in its reporting loop
  report    \* the counts printed so far by the report under way

shared == <<cells, in, out, count, mutex, empty, full>>
vars == <<cells, in, out, count, mutex, empty, full, pc, at, reg, mgr, report>>

Tray     == {"nv", "v"}
Chef     == {"donatello", "portecelli"}
Customer == {"customer1", "customer2", "customer3"}
Worker   == Chef \union Customer

WorkerStep  == {"slot", "lock", "cell", "index", "load", "store", "unlock", "post"}
ManagerStep == {"nv_lock", "v_lock", "nv_read", "v_read", "v_unlock", "nv_unlock"}

(***************************************************************************)
(* Pure operators                                                          *)
(***************************************************************************)
Bit(x, weight) == (x \div weight) % 2

BothSet(x, y, weight) == IF Bit(x, weight) = 1 /\ Bit(y, weight) = 1 THEN weight ELSE 0

(* C's x & y for operands below 16 *)
BitAnd(x, y) == BothSet(x, y, 1) + BothSet(x, y, 2) + BothSet(x, y, 4) + BothSet(x, y, 8)

(* The int non_vegan_tray[i] or vegan_tray[i] as a place in the struct: the *)
(* two arrays follow each other, so non_vegan_tray[TRAY_SIZE] is           *)
(* vegan_tray[0].                                                          *)
Place(t, i) == (IF t = "nv" THEN 0 ELSE TRAY_SIZE) + i
Places == 0 .. (2 * TRAY_SIZE - 1)

(* 0 = empty, 1 = vegetarian, 2 = non-vegetarian *)
Dish(t) == IF t = "nv" THEN 2 ELSE 1

(* The tray a worker turns to first, and the one it serves after tray t:   *)
(* only customer 3 alternates.                                             *)
FirstTray(w) == IF w \in {"donatello", "customer1"} THEN "nv" ELSE "v"
(* Mutant: customer 3 never turns to the other tray. *)
SameTray(w, t) == t

NextTray(w, t) ==
  IF w = "customer3" THEN (IF t = "v" THEN "nv" ELSE "v") ELSE t

NextIn(i) == (i + 1) % TRAY_SIZE

(* Mutants, as all definitions so marked: not used by the model.  All      *)
(* customers use &; customer 1's index does not wrap at all.               *)
NextOutAnd(w, i) == BitAnd(i + 1, TRAY_SIZE)
NextOutUnwrapped(w, i) ==
  IF w = "customer1" THEN i + 1 ELSE (i + 1) % TRAY_SIZE

(* Customers 2 and 3 wrap with %, customer 1 with &. *)
NextOut(w, i) ==
  IF w = "customer1" THEN BitAnd(i + 1, TRAY_SIZE) ELSE (i + 1) % TRAY_SIZE

-----------------------------------------------------------------------------
(***************************************************************************)
(* memset(shared_space, 0) and the six sem_init calls; the workers are     *)
(* hired and have done nothing, the manager is in its first sleep.         *)
(***************************************************************************)
Init ==
  /\ cells  = [p \in Places |-> 0]
  /\ in     = [t \in Tray |-> 0]
  /\ out    = [t \in Tray |-> 0]
  /\ count  = [t \in Tray |-> 0]
  /\ mutex  = [t \in Tray |-> 1]
  /\ empty  = [t \in Tray |-> TRAY_SIZE]
  /\ full   = [t \in Tray |-> 0]
  /\ pc     = [w \in Worker |-> "slot"]
  /\ at     = [w \in Worker |-> FirstTray(w)]
  /\ reg    = [w \in Worker |-> 0]
  /\ mgr    = "nv_lock"
  /\ report = [t \in Tray |-> 0]

Goto(w, from, to) ==
  /\ pc[w] = from
  /\ pc' = [pc EXCEPT ![w] = to]

(* Mutant: the chefs forget sem_wait(empty). *)
GetSeatUnasked(w) ==
  /\ w \in Chef
  /\ Goto(w, "slot", "lock")
  /\ UNCHANGED <<cells, in, out, count, mutex, empty, full, at, reg, mgr, report>>

(* A chef gets an empty seat: sem_wait(empty) *)
GetSeat(w) ==
  /\ w \in Chef
  /\ Goto(w, "slot", "lock")
  /\ empty[at[w]] > 0
  /\ empty' = [empty EXCEPT ![at[w]] = @ - 1]
  /\ UNCHANGED <<cells, in, out, count, mutex, full, at, reg, mgr, report>>

(* A customer is promised a dish: sem_wait(full) *)
GetDish(w) ==
  /\ w \in Customer
  /\ Goto(w, "slot", "lock")
  /\ full[at[w]] > 0
  /\ full' = [full EXCEPT ![at[w]] = @ - 1]
  /\ UNCHANGED <<cells, in, out, count, mutex, empty, at, reg, mgr, report>>

(* sem_wait(mutex) *)
LockTray(w) ==
  /\ Goto(w, "lock", "cell")
  /\ mutex[at[w]] > 0
  /\ mutex' = [mutex EXCEPT ![at[w]] = @ - 1]
  /\ UNCHANGED <<cells, in, out, count, empty, full, at, reg, mgr, report>>

(* tray[in] = 1 or 2 for a chef, tray[out] = 0 for a customer *)
FillCell(w) ==
  LET t == at[w]
  IN  /\ Goto(w, "cell", "index")
      /\ cells' = IF w \in Chef
                    THEN [cells EXCEPT ![Place(t, in[t])] = Dish(t)]
                    ELSE [cells EXCEPT ![Place(t, out[t])] = 0]
      /\ UNCHANGED <<in, out, count, mutex, empty, full, at, reg, mgr, report>>

(* in = (in + 1) % TRAY_SIZE for a chef, out = (out + 1) % or & TRAY_SIZE  *)
(* for a customer                                                          *)
AdvanceIndex(w) ==
  LET t == at[w]
  IN  /\ Goto(w, "index", "load")
      /\ IF w \in Chef
           THEN in' = [in EXCEPT ![t] = NextIn(@)] /\ out' = out
           ELSE out' = [out EXCEPT ![t] = NextOut(w, @)] /\ in' = in
      /\ UNCHANGED <<cells, count, mutex, empty, full, at, reg, mgr, report>>

(* count++ and count--, first half: load *)
LoadCount(w) ==
  /\ Goto(w, "load", "store")
  /\ reg' = [reg EXCEPT ![w] = count[at[w]]]
  /\ UNCHANGED <<cells, in, out, count, mutex, empty, full, at, mgr, report>>

(* Mutant: the customers count up, too. *)
StoreCountUp(w) ==
  /\ Goto(w, "store", "unlock")
  /\ count' = [count EXCEPT ![at[w]] = reg[w] + 1]
  /\ UNCHANGED <<cells, in, out, mutex, empty, full, at, reg, mgr, report>>

(* count++ and count--, second half: store *)
StoreCount(w) ==
  /\ Goto(w, "store", "unlock")
  /\ count' = [count EXCEPT ![at[w]] = IF w \in Chef THEN reg[w] + 1 ELSE reg[w] - 1]
  /\ UNCHANGED <<cells, in, out, mutex, empty, full, at, reg, mgr, report>>

(* Mutants: the mutex posted is the one of the worker's first tray, or the *)
(* vegetarian one for everybody.                                           *)
UnlockFirstTray(w) ==
  /\ Goto(w, "unlock", "post")
  /\ mutex' = [mutex EXCEPT ![FirstTray(w)] = @ + 1]
  /\ UNCHANGED <<cells, in, out, count, empty, full, at, reg, mgr, report>>
UnlockVeganTray(w) ==
  /\ Goto(w, "unlock", "post")
  /\ mutex' = [mutex EXCEPT !["v"] = @ + 1]
  /\ UNCHANGED <<cells, in, out, count, empty, full, at, reg, mgr, report>>

(* sem_post(mutex) *)
UnlockTray(w) ==
  /\ Goto(w, "unlock", "post")
  /\ mutex' = [mutex EXCEPT ![at[w]] = @ + 1]
  /\ UNCHANGED <<cells, in, out, count, empty, full, at, reg, mgr, report>>

(* Mutant: the customers forget sem_post(empty). *)
AnnounceChefsOnly(w) ==
  /\ Goto(w, "post", "slot")
  /\ full' = IF w \in Chef THEN [full EXCEPT ![at[w]] = @ + 1] ELSE full
  /\ at' = [at EXCEPT ![w] = NextTray(w, @)]
  /\ reg' = [reg EXCEPT ![w] = 0]
  /\ UNCHANGED <<cells, in, out, count, mutex, empty, mgr, report>>

(* sem_post(full) for a chef, sem_post(empty) for a customer; the round is *)
(* over and customer 3 turns to its other tray                             *)
Announce(w) ==
  /\ Goto(w, "post", "slot")
  /\ IF w \in Chef
       THEN full' = [full EXCEPT ![at[w]] = @ + 1] /\ empty' = empty
       ELSE empty' = [empty EXCEPT ![at[w]] = @ + 1] /\ full' = full
  /\ at' = [at EXCEPT ![w] = NextTray(w, @)]
  /\ reg' = [reg EXCEPT ![w] = 0]     \* dead until the next load
  /\ UNCHANGED <<cells, in, out, count, mutex, mgr, report>>

InCriticalSection(w) ==
  FillCell(w) \/ AdvanceIndex(w) \/ LoadCount(w) \/ StoreCount(w)

WorkerNext(w) ==
  \/ GetSeat(w)
  \/ GetDish(w)
  \/ LockTray(w)
  \/ InCriticalSection(w)
  \/ UnlockTray(w)
  \/ Announce(w)

-----------------------------------------------------------------------------
(***************************************************************************)
(* The manager's loop: lock nv_mutex, then v_mutex, print both counts,     *)
(* unlock in the opposite order.                                           *)
(***************************************************************************)
ManagerGoto(from, to) == mgr = from /\ mgr' = to

(* Mutant: the manager forgets sem_wait(v_mutex). *)
ManagerLockOne(t, from, to) ==
  /\ ManagerGoto(from, to)
  /\ t = "nv" => mutex[t] > 0
  /\ mutex' = [mutex EXCEPT ![t] = IF t = "nv" THEN @ - 1 ELSE @]
  /\ UNCHANGED <<cells, in, out, count, empty, full, pc, at, reg, report>>

ManagerLock(t, from, to) ==
  /\ ManagerGoto(from, to)
  /\ mutex[t] > 0
  /\ mutex' = [mutex EXCEPT ![t] = @ - 1]
  /\ UNCHANGED <<cells, in, out, count, empty, full, pc, at, reg, report>>

ManagerRead(t, from, to) ==
  /\ ManagerGoto(from, to)
  /\ report' = [report EXCEPT ![t] = count[t]]
  /\ UNCHANGED <<cells, in, out, count, mutex, empty, full, pc, at, reg>>

(* Mutant: the manager gives no mutex back. *)
ManagerKeepsLock(t, from, to) ==
  /\ ManagerGoto(from, to)
  /\ report' = [s \in Tray |-> 0]
  /\ UNCHANGED <<cells, in, out, count, mutex, empty, full, pc, at, reg>>

ManagerUnlock(t, from, to) ==
  /\ ManagerGoto(from, to)
  /\ mutex' = [mutex EXCEPT ![t] = @ + 1]
  /\ report' = [s \in Tray |-> 0]     \* the report is finished
  /\ UNCHANGED <<cells, in, out, count, empty, full, pc, at, reg>>

ManagerNext ==
  \/ ManagerLock("nv", "nv_lock", "v_lock")
  \/ ManagerLock("v", "v_lock", "nv_read")
  \/ ManagerRead("nv", "nv_read", "v_read")
  \/ ManagerRead("v", "v_read", "v_unlock")
  \/ ManagerUnlock("v", "v_unlock", "nv_unlock")
  \/ ManagerUnlock("nv", "nv_unlock", "nv_lock")

Next == ManagerNext \/ \E w \in Worker : WorkerNext(w)

Spec == Init /\ [][Next]_vars

(***************************************************************************)
(* Every process keeps running, and a process blocked in sem_wait gets the *)
(* semaphore if it is posted again and again (a process has one step       *)
(* enabled at most, so strong fairness of the process is strong fairness   *)
(* of each of its steps).  glibc semaphores do not queue their waiters,    *)
(* but every worker sleeps at least one second between two rounds and the  *)
(* manager ten, so a woken waiter cannot lose the race for ever.           *)
(***************************************************************************)
Fairness == SF_vars(ManagerNext) /\ \A w \in Worker : SF_vars(WorkerNext(w))

FairSpec == Spec /\ Fairness

-----------------------------------------------------------------------------
(***************************************************************************)
(* Who is doing what on tray t                                             *)
(***************************************************************************)
Holding == {"cell", "index", "load", "store", "unlock"}

Holds(w, t) == at[w] = t /\ pc[w] \in Holding

ManagerHolds(t) ==
  IF t = "nv" THEN mgr # "nv_lock" ELSE mgr \in {"nv_read", "v_read", "v_unlock"}

(* A worker holds a place of tray t from its first sem_wait to its last    *)
(* sem_post.                                                               *)
Serving(w, t) == at[w] = t /\ pc[w] # "slot"

(* The dishes of tray t that "count" has and "full" does not: taken by the *)
(* customer's sem_wait but not yet subtracted, or added by the chef but    *)
(* not yet announced.                                                      *)
Unannounced(w, t) ==
  IF w \in Chef THEN at[w] = t /\ pc[w] \in {"unlock", "post"}
                ELSE at[w] = t /\ pc[w] \in {"lock", "cell", "index", "load", "store"}

One(b) == IF b THEN 1 ELSE 0

(* How many workers are in S; the five are fixed by the program *)
Tally(S) ==
  One("donatello" \in S) + One("portecelli" \in S) + One("customer1" \in S)
    + One("customer2" \in S) + One("customer3" \in S)

Holders(t)     == {w \in Worker : Holds(w, t)}
Servers(t)     == {w \in Worker : Serving(w, t)}
Unannouncers(t) == {w \in Worker : Unannounced(w, t)}

(* The cells of the vegetarian tray but the first *)
VeganRest == {Place("v", k) : k \in 1..(TRAY_SIZE - 1)}

TypeOK ==
  /\ cells \in [Places -> 0..2]
  /\ in \in [Tray -> 0..(TRAY_SIZE - 1)]
  /\ out \in [Tray -> 0..TRAY_SIZE]
  /\ count \in [Tray -> 0..TRAY_SIZE]
  /\ mutex \in [Tray -> 0..1]
  /\ empty \in [Tray -> 0..TRAY_SIZE]
  /\ full \in [Tray -> 0..TRAY_SIZE]
  /\ pc \in [Worker -> WorkerStep]
  /\ at \in [Worker -> Tray]
  /\ reg \in [Worker -> 0..TRAY_SIZE]
  /\ mgr \in ManagerStep
  /\ report \in [Tray -> 0..TRAY_SIZE]

(***************************************************************************)
(* Safety                                                                  *)
(***************************************************************************)

(* At most one of the workers and the manager is in the critical section   *)
(* of a tray, and its mutex is down exactly then.  The six sem_wait calls  *)
(* on mutexes and the six sem_post calls must pair up on every path, also  *)
(* on customer 3's, which crosses both trays, and on the manager's, which  *)
(* holds both mutexes at once.                                             *)
MutualExclusion ==
  \A t \in Tray : mutex[t] + Tally(Holders(t)) + One(ManagerHolds(t)) = 1

(* No place is lost and none is invented: free places, announced dishes    *)
(* and places in the hands of a worker always add up to TRAY_SIZE.  This   *)
(* is what keeps a chef from overfilling a tray (sem_wait(empty), lines    *)
(* 55 and 84) and a customer from taking a dish that is not there.         *)
PlacesConserved ==
  \A t \in Tray : empty[t] + full[t] + Tally(Servers(t)) = TRAY_SIZE

(* The counter the manager prints follows the semaphores exactly: it       *)
(* differs from the number of announced dishes only by the workers that    *)
(* are between their two semaphore calls.  A lost count++ or count-- (a    *)
(* load and a store apart, lines 64, 90, 113, 137, 157, 168) breaks it for *)
(* good.                                                                   *)
CountTracksDishes ==
  \A t \in Tray : count[t] = full[t] + Tally(Unannouncers(t))

(* The two numbers of one report (lines 270 and 271) were true of the two  *)
(* trays at the same moment, the one before the mutexes are given back.    *)
ReportIsSnapshot == mgr = "v_unlock" => report = count

(* Outside its critical sections the vegetarian tray is a circular queue:  *)
(* the dishes are the "count" cells from "out" on, "in" is the cell after  *)
(* them.  The claim leaves out cell 0, which customer 1's wrong index can  *)
(* clear.                                                                  *)
VeganTrayIsQueue ==
  mutex["v"] = 1 =>
    /\ in["v"] = (out["v"] + count["v"]) % TRAY_SIZE
    /\ \A k \in 1..(TRAY_SIZE - 1) :
         cells[Place("v", k)] =
           IF (k - out["v"] + TRAY_SIZE) % TRAY_SIZE < count["v"] THEN 1 ELSE 0

(* Whatever the non-vegetarian "out" index becomes, no step outside the    *)
(* vegetarian critical section changes a cell of the vegetarian tray other *)
(* than its first: the stray store of line 110 or 165 reaches one place    *)
(* past its array and no further.                                          *)
StrayStoreConfined ==
  [][\A p \in VeganRest :
       cells'[p] # cells[p] =>
         \E w \in Worker : at[w] = "v" /\ pc[w] = "cell" /\ pc'[w] = "index"]_vars

(***************************************************************************)
(* Each tray, seen through its counter, is a FoodTray.                     *)
(***************************************************************************)
NonVeganTray == INSTANCE FoodTray WITH dishes <- count["nv"]
VeganTray    == INSTANCE FoodTray WITH dishes <- count["v"]

(* Every step of the kitchen puts one dish on a tray with room, takes one  *)
(* from a tray with a dish, or leaves the tray's counter alone.            *)
TraysImplementFoodTray == NonVeganTray!Spec /\ VeganTray!Spec

(***************************************************************************)
(* Liveness, under FairSpec                                                *)
(***************************************************************************)

(* The manager, which needs both mutexes at once, reports again and again. *)
ManagerKeepsReporting == []<>(mgr = "v_unlock")

(* Customer 3, who competes with customer 2 for one tray and with customer *)
(* 1 for the other, eats of both trays again and again.                    *)
Customer3EatsBoth ==
  \A t \in Tray : []<>(at["customer3"] = t /\ pc["customer3"] = "post")

(***************************************************************************)
(* What a comment of the source says and the program does not do.          *)
(***************************************************************************)

(* "Customer 1 (only eats non-vegetarian food)" (line 97): a worker that   *)
(* serves itself from the non-vegetarian tray leaves the vegetarian tray   *)
(* as it is.                                                               *)
NonVeganOrdersLeaveVeganTray ==
  [][\A w \in Worker :
       (at[w] = "nv" /\ pc[w] = "cell" /\ pc'[w] = "index") =>
         \A k \in 0..(TRAY_SIZE - 1) : cells'[Place("v", k)] = cells[Place("v", k)]]_vars
=============================================================================
