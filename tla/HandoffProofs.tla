---------------------------- MODULE HandoffProofs ---------------------------
(***************************************************************************)
(* Proofs about Handoff.tla for every number of items, whether or not the  *)
(* naps are long enough.                                                   *)
(***************************************************************************)
EXTENDS Handoff, TLAPS

Numbers ==
  /\ shared_data \in Nat
  /\ data_ready \in 0..1
  /\ made \in Nat
  /\ consumed \in Seq(Nat)
  /\ ppc \in ProducerStep
  /\ cpc \in ConsumerStep

(* The mutex is with the thread whose place in the program says so. *)
MutexHeld ==
  /\ mutex = "producer" <=> ppc \in {"store", "flag", "signal", "unlock"}
  /\ mutex = "consumer" <=> cpc \in {"test", "print", "reset", "unlock"}

(* shared_data counts the items stored so far. *)
StoredSoFar ==
  shared_data = IF ppc \in {"flag", "signal", "unlock", "nap"} THEN made + 1 ELSE made

(* A sleeping consumer has the flag down, but for the moment between the   *)
(* producer's flag and its signal.                                         *)
SleeperIsSignalled == cpc = "asleep" /\ data_ready = 1 => ppc = "signal"

(* The flag stays up from the consumer's test to its reset. *)
FlagUpWhilePrinting == cpc \in {"print", "reset"} => data_ready = 1

(* Everything printed is older than what is stored and not yet printed. *)
PrintedIsOld ==
  /\ \A k \in DOMAIN consumed : consumed[k] <= shared_data
  /\ ppc = "flag" \/ (data_ready = 1 /\ cpc # "reset")
       => \A k \in DOMAIN consumed : consumed[k] < shared_data

(* A thread does nothing before main() has created it. *)
CreatedFirst ==
  /\ main = "create_prod" => ppc = "off"
  /\ main \in {"create_prod", "create_cons"} => cpc = "off"

HInv ==
  /\ Numbers
  /\ CreatedFirst
  /\ MutexHeld
  /\ StoredSoFar
  /\ SleeperIsSignalled
  /\ FlagUpWhilePrinting
  /\ PrintedIsOld

LEMMA InitHInv == Init => HInv
  BY DEF Init, HInv, Numbers, CreatedFirst, MutexHeld, StoredSoFar, SleeperIsSignalled,
         FlagUpWhilePrinting, PrintedIsOld, ProducerStep, ConsumerStep

LEMMA ProducerKeepsHInv ==
  ASSUME HInv, ProducerNext
  PROVE  HInv'
<1> USE DEF HInv, Numbers, CreatedFirst, MutexHeld, StoredSoFar, SleeperIsSignalled, FlagUpWhilePrinting,
            PrintedIsOld, ProducerStep, ConsumerStep, ProducerGoto, Lock, Unlock
<1>1. CASE ProducerLock
  BY <1>1 DEF ProducerLock
<1>2. CASE StoreData
  <2>1. shared_data' = made + 1 /\ shared_data = made /\ made \in Nat
    BY <1>2 DEF StoreData
  <2>2. \A k \in DOMAIN consumed : consumed[k] \in Nat /\ consumed[k] <= shared_data
    OBVIOUS
  <2>3. \A k \in DOMAIN consumed' : consumed'[k] < shared_data' /\ consumed'[k] <= shared_data'
    BY <1>2, <2>1, <2>2 DEF StoreData
  <2>4. PrintedIsOld'
    BY <2>3
  <2>5. QED
    BY <1>2, <2>4 DEF StoreData
<1>3. CASE SetReady
  BY <1>3 DEF SetReady
<1>4. CASE Signal
  BY <1>4 DEF Signal
<1>5. CASE ProducerUnlock
  BY <1>5 DEF ProducerUnlock
<1>6. CASE NapEnds
  BY <1>6 DEF NapEnds
<1>7. QED
  BY <1>1, <1>2, <1>3, <1>4, <1>5, <1>6 DEF ProducerNext

LEMMA ConsumerKeepsHInv ==
  ASSUME HInv, ConsumerNext \/ SpuriousWakeup
  PROVE  HInv'
<1> USE DEF HInv, Numbers, CreatedFirst, MutexHeld, StoredSoFar, SleeperIsSignalled, FlagUpWhilePrinting,
            PrintedIsOld, ProducerStep, ConsumerStep, ConsumerGoto, Lock, Unlock
<1>1. CASE ConsumerLock
  BY <1>1 DEF ConsumerLock
<1>2. CASE DataReady
  BY <1>2 DEF DataReady
<1>3. CASE CondWait
  BY <1>3 DEF CondWait
<1>4. CASE Awakened
  BY <1>4 DEF Awakened
<1>5. CASE PrintData
  <2>1. /\ consumed' = Append(consumed, shared_data)
        /\ cpc' = "reset" /\ ppc' = ppc /\ shared_data' = shared_data
    BY <1>5 DEF PrintData
  <2>2. ppc # "flag"
    BY <1>5 DEF PrintData
  <2>3. /\ consumed' \in Seq(Nat)
        /\ \A k \in DOMAIN consumed' : consumed'[k] <= shared_data
    BY <2>1
  <2>4. PrintedIsOld'
    BY <2>1, <2>2, <2>3
  <2>5. QED
    BY <1>5, <2>3, <2>4 DEF PrintData
<1>6. CASE ResetReady
  BY <1>6 DEF ResetReady
<1>7. CASE ConsumerUnlock
  BY <1>7 DEF ConsumerUnlock
<1>8. CASE SpuriousWakeup
  BY <1>8 DEF SpuriousWakeup
<1>9. QED
  BY <1>1, <1>2, <1>3, <1>4, <1>5, <1>6, <1>7, <1>8 DEF ConsumerNext

LEMMA MainKeepsHInv ==
  ASSUME HInv, MainNext
  PROVE  HInv'
<1> USE DEF HInv, Numbers, CreatedFirst, MutexHeld, StoredSoFar, SleeperIsSignalled, FlagUpWhilePrinting,
            PrintedIsOld, ProducerStep, ConsumerStep, MainGoto
<1>1. CASE CreateProducer
  BY <1>1 DEF CreateProducer, FirstStep
<1>2. CASE CreateConsumer
  BY <1>2 DEF CreateConsumer, FirstStep
<1>3. CASE JoinProducer \/ JoinConsumer \/ Destroy
  BY <1>3 DEF JoinProducer, JoinConsumer, Destroy
<1>4. QED
  BY <1>1, <1>2, <1>3 DEF MainNext

LEMMA NextKeepsHInv == HInv /\ [Next]_vars => HInv'
<1> SUFFICES ASSUME HInv, [Next]_vars PROVE HInv'
  OBVIOUS
<1>1. CASE UNCHANGED vars
  BY <1>1 DEF vars, HInv, Numbers, CreatedFirst, MutexHeld, StoredSoFar, SleeperIsSignalled,
              FlagUpWhilePrinting, PrintedIsOld
<1>2. QED
  BY <1>1, ProducerKeepsHInv, ConsumerKeepsHInv, MainKeepsHInv DEF Next

THEOREM HandoffInvariance == Spec => []HInv
  BY InitHInv, NextKeepsHInv, PTL DEF Spec

(* No wakeup is lost, however the two threads interleave. *)
THEOREM NoWakeupIsLost == Spec => []NoLostWakeup
<1>1. HInv => NoLostWakeup
  BY DEF HInv, MutexHeld, SleeperIsSignalled, NoLostWakeup
<1>2. QED
  BY <1>1, HandoffInvariance, PTL

(* The consumer never prints a value twice nor one older than the last,    *)
(* spurious wakeups included.                                              *)
THEOREM NothingPrintedTwice == Spec => []PrintsOnlyNew
<1>1. HInv => PrintsOnlyNew
  BY DEF HInv, Numbers, FlagUpWhilePrinting, PrintedIsOld, PrintsOnlyNew
<1>2. QED
  BY <1>1, HandoffInvariance, PTL

(* The flag and the variable behave as a box for the latest value: every   *)
(* step puts the next value, takes the latest, or does neither.            *)
THEOREM HandoffIsBox == Spec => ImplementsBox
<1> DEFINE puts == IF ppc = "flag" /\ data_ready = 0 THEN shared_data - 1 ELSE shared_data
           box  == IF data_ready = 1 THEN shared_data ELSE 0
<1>1. Init => Box!Init
  BY DEF Init, Box!Init
<1>2. HInv /\ [Next]_vars => [Box!Put \/ Box!Take]_<<puts, box>>
  <2> SUFFICES ASSUME HInv, [Next]_vars PROVE [Box!Put \/ Box!Take]_<<puts, box>>
    OBVIOUS
  <2> USE DEF HInv, Numbers, StoredSoFar, ProducerGoto, ConsumerGoto
  <2>1. CASE StoreData
    BY <2>1 DEF StoreData, Box!Put
  <2>2. CASE SetReady
    BY <2>2 DEF SetReady, Box!Put
  <2>3. CASE ResetReady
    BY <2>3 DEF ResetReady, FlagUpWhilePrinting, MutexHeld, Box!Take
  <2>4. CASE ~StoreData /\ ~SetReady /\ ~ResetReady
    <3>1. shared_data' = shared_data /\ data_ready' = data_ready
      BY <2>4
      DEF Next, vars, MainNext, CreateProducer, CreateConsumer, JoinProducer, JoinConsumer,
          Destroy, ProducerNext, ProducerLock, Signal, ProducerUnlock, NapEnds, ConsumerNext,
          ConsumerLock, DataReady, CondWait, Awakened, PrintData, ConsumerUnlock,
          SpuriousWakeup
    <3>2. ppc = "flag" <=> ppc' = "flag"
      BY <2>4
      DEF Next, vars, MainNext, CreateProducer, CreateConsumer, JoinProducer, JoinConsumer,
          Destroy, ProducerNext, ProducerLock, Signal, ProducerUnlock, NapEnds, ConsumerNext,
          ConsumerLock, DataReady, CondWait, Awakened, PrintData, ConsumerUnlock,
          SpuriousWakeup, FirstStep, CreatedFirst, MainGoto
    <3>3. QED
      BY <3>1, <3>2
  <2>5. QED
    BY <2>1, <2>2, <2>3, <2>4
<1>3. QED
  BY <1>1, <1>2, HandoffInvariance, PTL DEF Spec, ImplementsBox, Box!Spec
=============================================================================
