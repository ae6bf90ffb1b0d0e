------------------------------ MODULE Handoff -------------------------------
(***************************************************************************)
(* producer_consumer.c: one producer and one consumer thread hand over     *)
(* ITEM_COUNT numbers through shared_data, the flag data_ready, a mutex    *)
(* and a condition variable; main creates and joins them.                  *)
(*                                                                         *)
(* The consumer waits for the flag, the producer does not: only a nap of   *)
(* one second gives the consumer time.  The scheduler promises nothing; a  *)
(* nap may end at any time, and timely says whether all of them have been  *)
(* long enough so far.                                                     *)
(***************************************************************************)
EXTENDS Integers, Sequences

CONSTANT ITEM_COUNT     \* the #define, 10 in the program

ASSUME HandoffAssumption == ITEM_COUNT \in Nat

VARIABLES
  shared_data, data_ready,
  mutex,        \* who holds it
  main,         \* where main() is
  ppc, cpc,     \* where the producer and the consumer are
  made, eaten,  \* their loop indices i
  consumed,     \* the values the consumer has printed
  timely        \* history: had the consumer taken each item when the nap ended?

vars == <<shared_data, data_ready, mutex, main, ppc, cpc, made, eaten, consumed, timely>>

MainStep     == {"create_prod", "create_cons", "join_prod", "join_cons", "destroy", "end"}
ProducerStep == {"off", "lock", "store", "flag", "signal", "unlock", "nap", "done"}
ConsumerStep == {"off", "lock", "test", "asleep", "relock", "print", "reset", "unlock", "done"}

Init ==
  /\ shared_data = 0
  /\ data_ready = 0
  /\ mutex = "free"
  /\ main = "create_prod"
  /\ ppc = "off" /\ cpc = "off"
  /\ made = 0 /\ eaten = 0
  /\ consumed = << >>
  /\ timely = TRUE

Lock(me)  == mutex = "free" /\ mutex' = me
Unlock    == mutex' = "free"

-----------------------------------------------------------------------------
(***************************************************************************)
(* The producer                                                            *)
(***************************************************************************)
ProducerGoto(from, to) == ppc = from /\ ppc' = to

ProducerLock ==
  /\ ProducerGoto("lock", "store")
  /\ Lock("producer")
  /\ UNCHANGED <<shared_data, data_ready, main, cpc, made, eaten, consumed, timely>>

(* Mutant: the index is stored, not the index plus 1. *)
StoreIndex ==
  /\ ProducerGoto("store", "flag")
  /\ shared_data' = made
  /\ UNCHANGED <<data_ready, mutex, main, cpc, made, eaten, consumed, timely>>

StoreData ==
  /\ ProducerGoto("store", "flag")
  /\ shared_data' = made + 1
  /\ UNCHANGED <<data_ready, mutex, main, cpc, made, eaten, consumed, timely>>

SetReady ==
  /\ ProducerGoto("flag", "signal")
  /\ data_ready' = 1
  /\ UNCHANGED <<shared_data, mutex, main, cpc, made, eaten, consumed, timely>>

(* Mutant: pthread_cond_signal is forgotten. *)
SignalNobody ==
  /\ ProducerGoto("signal", "unlock")
  /\ UNCHANGED <<shared_data, data_ready, mutex, main, cpc, made, eaten, consumed, timely>>

(* pthread_cond_signal: a sleeping consumer has to get the mutex back; a   *)
(* consumer that is not asleep does not notice.                            *)
Signal ==
  /\ ProducerGoto("signal", "unlock")
  /\ cpc' = IF cpc = "asleep" THEN "relock" ELSE cpc
  /\ UNCHANGED <<shared_data, data_ready, mutex, main, made, eaten, consumed, timely>>

ProducerUnlock ==
  /\ ProducerGoto("unlock", "nap")
  /\ Unlock
  /\ UNCHANGED <<shared_data, data_ready, main, cpc, made, eaten, consumed, timely>>

(* The end of sleep(1), and of a pass of the loop *)
NapEnds ==
  /\ ppc = "nap"
  /\ timely' = (timely /\ data_ready = 0)
  /\ made' = made + 1
  /\ ppc' = IF made' < ITEM_COUNT THEN "lock" ELSE "done"
  /\ UNCHANGED <<shared_data, data_ready, mutex, main, cpc, eaten, consumed>>

ProducerNext ==
  ProducerLock \/ StoreData \/ SetReady \/ Signal \/ ProducerUnlock \/ NapEnds

-----------------------------------------------------------------------------
(***************************************************************************)
(* The consumer                                                            *)
(***************************************************************************)
ConsumerGoto(from, to) == cpc = from /\ cpc' = to

ConsumerLock ==
  /\ ConsumerGoto("lock", "test")
  /\ Lock("consumer")
  /\ UNCHANGED <<shared_data, data_ready, main, ppc, made, eaten, consumed, timely>>

(* while(!data_ready): done, or asleep and the mutex given back in one     *)
(* step                                                                    *)
DataReady ==
  /\ ConsumerGoto("test", "print")
  /\ data_ready = 1
  /\ UNCHANGED <<shared_data, data_ready, mutex, main, ppc, made, eaten, consumed, timely>>

CondWait ==
  /\ ConsumerGoto("test", "asleep")
  /\ data_ready = 0
  /\ Unlock
  /\ UNCHANGED <<shared_data, data_ready, main, ppc, made, eaten, consumed, timely>>

(* pthread_cond_wait may return without a signal. *)
SpuriousWakeup ==
  /\ ConsumerGoto("asleep", "relock")
  /\ UNCHANGED <<shared_data, data_ready, mutex, main, ppc, made, eaten, consumed, timely>>

(* Mutant: "if" instead of "while" around pthread_cond_wait. *)
AwakenedUntested ==
  /\ ConsumerGoto("relock", "print")
  /\ Lock("consumer")
  /\ UNCHANGED <<shared_data, data_ready, main, ppc, made, eaten, consumed, timely>>

Awakened ==
  /\ ConsumerGoto("relock", "test")
  /\ Lock("consumer")
  /\ UNCHANGED <<shared_data, data_ready, main, ppc, made, eaten, consumed, timely>>

PrintData ==
  /\ ConsumerGoto("print", "reset")
  /\ consumed' = Append(consumed, shared_data)
  /\ UNCHANGED <<shared_data, data_ready, mutex, main, ppc, made, eaten, timely>>

ResetReady ==
  /\ ConsumerGoto("reset", "unlock")
  /\ data_ready' = 0
  /\ UNCHANGED <<shared_data, mutex, main, ppc, made, eaten, consumed, timely>>

(* Mutant: the consumer waits for one item more. *)
ConsumerUnlockMore ==
  /\ cpc = "unlock"
  /\ Unlock
  /\ eaten' = eaten + 1
  /\ cpc' = IF eaten' <= ITEM_COUNT THEN "lock" ELSE "done"
  /\ UNCHANGED <<shared_data, data_ready, main, ppc, made, consumed, timely>>

ConsumerUnlock ==
  /\ cpc = "unlock"
  /\ Unlock
  /\ eaten' = eaten + 1
  /\ cpc' = IF eaten' < ITEM_COUNT THEN "lock" ELSE "done"
  /\ UNCHANGED <<shared_data, data_ready, main, ppc, made, consumed, timely>>

ConsumerNext ==
  \/ ConsumerLock \/ DataReady \/ CondWait \/ Awakened
  \/ PrintData \/ ResetReady \/ ConsumerUnlock

-----------------------------------------------------------------------------
(***************************************************************************)
(* main(): the initialised mutex and condition are part of Init            *)
(***************************************************************************)
MainGoto(from, to) == main = from /\ main' = to

FirstStep == IF ITEM_COUNT > 0 THEN "lock" ELSE "done"

CreateProducer ==
  /\ MainGoto("create_prod", "create_cons")
  /\ ppc' = FirstStep
  /\ UNCHANGED <<shared_data, data_ready, mutex, cpc, made, eaten, consumed, timely>>

CreateConsumer ==
  /\ MainGoto("create_cons", "join_prod")
  /\ cpc' = FirstStep
  /\ UNCHANGED <<shared_data, data_ready, mutex, ppc, made, eaten, consumed, timely>>

JoinProducer ==
  /\ MainGoto("join_prod", "join_cons")
  /\ ppc = "done"
  /\ UNCHANGED <<shared_data, data_ready, mutex, ppc, cpc, made, eaten, consumed, timely>>

JoinConsumer ==
  /\ MainGoto("join_cons", "destroy")
  /\ cpc = "done"
  /\ UNCHANGED <<shared_data, data_ready, mutex, ppc, cpc, made, eaten, consumed, timely>>

Destroy ==
  /\ MainGoto("destroy", "end")
  /\ UNCHANGED <<shared_data, data_ready, mutex, ppc, cpc, made, eaten, consumed, timely>>

MainNext == CreateProducer \/ CreateConsumer \/ JoinProducer \/ JoinConsumer \/ Destroy

Next == MainNext \/ ProducerNext \/ ConsumerNext \/ SpuriousWakeup

Spec == Init /\ [][Next]_vars

(* Every thread keeps running; one that waits for the mutex gets it if it  *)
(* is free again and again.  Nothing makes a wakeup spurious.              *)
FairSpec == Spec /\ WF_vars(MainNext) /\ SF_vars(ProducerNext) /\ SF_vars(ConsumerNext)

-----------------------------------------------------------------------------
(* No wakeup is lost: when the producer has given the mutex back with the  *)
(* flag up, the consumer is not asleep.  Test and wait are one step under  *)
(* the mutex (lines 49 to 56), flag and signal are under it too (25, 29).  *)
NoLostWakeup == mutex = "free" /\ data_ready = 1 => cpc # "asleep"

(* What the consumer is about to print is new, whatever woke it up: it is  *)
(* later than all it has printed (the while of line 49 and the reset of    *)
(* line 61).                                                               *)
PrintsOnlyNew ==
  cpc = "print" => \A k \in DOMAIN consumed : consumed[k] < shared_data

(* The shared variable and the flag implement a box for the latest value.  *)
(* While the producer is between its two stores the old value counts if    *)
(* the flag is down, and is replaced already if it is up.                  *)
Box == INSTANCE LatestValueBox
         WITH puts <- IF ppc = "flag" /\ data_ready = 0 THEN shared_data - 1 ELSE shared_data,
              box  <- IF data_ready = 1 THEN shared_data ELSE 0

ImplementsBox == Box!Spec

(* As long as every nap was long enough, no item is skipped: the consumer  *)
(* gets as many as it waits for, and main joins both threads.  The comment *)
(* of line 34 counts on it: "Take a nap to give Consumer time to process". *)
Terminates == <>(~timely \/ main = "end")
=============================================================================
