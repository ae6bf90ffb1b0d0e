--------------------------- MODULE SharedCounter ----------------------------
(***************************************************************************)
(* race_condition_solved.c and rwlock_demo.c: threads that add to a shared *)
(* counter under a lock, and threads that read it.  A mutex is the lock of *)
(* a program without readers.  main creates the writers, then the readers, *)
(* joins them all and prints the counter; it does not look at what         *)
(* pthread_create() returns, and joins threads that do not exist.          *)
(***************************************************************************)
EXTENDS Integers, FiniteSets

CONSTANTS
  NUM_WRITERS,      \* 3 (NUM_THREADS) and 2 in the programs
  NUM_READERS,      \* none and 5
  INCREMENT_LIMIT,  \* how often a writer adds 1: 1000000 times and once
  START,            \* the counter at first: 0 and 100
  MaxFailures       \* how often pthread_create() fails

ASSUME CounterAssumption ==
  /\ NUM_WRITERS \in Nat \ {0} /\ NUM_READERS \in Nat
  /\ INCREMENT_LIMIT \in Nat \ {0}
  /\ START \in Int
  /\ MaxFailures \in Nat

VARIABLES
  shared,     \* counter, shared_resource
  holders,    \* the threads that hold the lock
  pc,         \* where each thread is
  rounds,     \* how often each thread has added 1
  reg,        \* the counter, as a writer has loaded it or a reader has printed it
  main,       \* where main is
  i           \* its loop index

vars == <<shared, holders, pc, rounds, reg, main, i>>

NUM_THREADS == NUM_WRITERS + NUM_READERS
Thread == 1..NUM_THREADS
Writer == 1..NUM_WRITERS
Reader == Thread \ Writer

ThreadPhase ==
  {"off", "missing", "lock", "load", "store", "read", "nap", "unlock", "done"}
MainPhase == {"create", "join", "destroy", "print", "end", "crashed"}

Init ==
  /\ shared = START
  /\ holders = {}
  /\ pc = [t \in Thread |-> "off"]
  /\ rounds = [t \in Thread |-> 0]
  /\ reg = [t \in Thread |-> START]
  /\ main = "create"
  /\ i = 1

-----------------------------------------------------------------------------
(***************************************************************************)
(* The threads                                                             *)
(***************************************************************************)
Goto(t, from, to) ==
  /\ main # "crashed"
  /\ pc[t] = from
  /\ pc' = [pc EXCEPT ![t] = to]

(* pthread_mutex_lock, pthread_rwlock_wrlock *)
WriteLock(t) ==
  /\ t \in Writer /\ Goto(t, "lock", "load")
  /\ holders = {}
  /\ holders' = {t}
  /\ UNCHANGED <<shared, rounds, reg, main, i>>

(* counter++, shared_resource++: a load ... *)
Load(t) ==
  /\ Goto(t, "load", "store")
  /\ reg' = [reg EXCEPT ![t] = shared]
  /\ UNCHANGED <<shared, holders, rounds, main, i>>

(* ... and a store *)
Store(t) ==
  /\ Goto(t, "store", "unlock")
  /\ shared' = reg[t] + 1
  /\ rounds' = [rounds EXCEPT ![t] = @ + 1]
  /\ UNCHANGED <<holders, reg, main, i>>

(* Mutant: a reader takes no lock. *)
ReadLockNone(t) ==
  /\ t \in Reader /\ Goto(t, "lock", "read")
  /\ UNCHANGED <<shared, holders, rounds, reg, main, i>>

(* pthread_rwlock_rdlock *)
ReadLock(t) ==
  /\ t \in Reader /\ Goto(t, "lock", "read")
  /\ holders \intersect Writer = {}
  /\ holders' = holders \union {t}
  /\ UNCHANGED <<shared, rounds, reg, main, i>>

(* "Start Reading... Value is", and the second of reading after it *)
Read(t) ==
  /\ Goto(t, "read", "nap")
  /\ reg' = [reg EXCEPT ![t] = shared]
  /\ UNCHANGED <<shared, holders, rounds, main, i>>

(* "Read Completion!" *)
NapEnds(t) ==
  /\ Goto(t, "nap", "unlock")
  /\ UNCHANGED <<shared, holders, rounds, reg, main, i>>

(* The lock is given back; a writer may have rounds to go. *)
Unlock(t) ==
  /\ Goto(t, "unlock", IF t \in Writer /\ rounds[t] < INCREMENT_LIMIT THEN "lock" ELSE "done")
  /\ holders' = holders \ {t}
  /\ UNCHANGED <<shared, rounds, reg, main, i>>

ThreadStep(t) ==
  \/ WriteLock(t) \/ Load(t) \/ Store(t)
  \/ ReadLock(t) \/ Read(t) \/ NapEnds(t)
  \/ Unlock(t)

-----------------------------------------------------------------------------
(***************************************************************************)
(* main                                                                    *)
(***************************************************************************)
Missing == {t \in Thread : pc[t] = "missing"}

(* The loop goes on with the next thread, or main with the next phase. *)
Advance(next) ==
  IF i < NUM_THREADS THEN main' = main /\ i' = i + 1 ELSE main' = next /\ i' = 1

CreateThread ==
  /\ main = "create" /\ i \in Thread
  /\ \/ pc' = [pc EXCEPT ![i] = "lock"]
     \/ Cardinality(Missing) < MaxFailures /\ pc' = [pc EXCEPT ![i] = "missing"]
  /\ Advance("join")
  /\ UNCHANGED <<shared, holders, rounds, reg>>

(* Mutant: main joins the readers only. *)
JoinReaders ==
  /\ main = "join" /\ i \in Thread
  /\ i \in Reader => pc[i] \in {"done", "missing"}
  /\ Advance("destroy")
  /\ UNCHANGED <<shared, holders, pc, rounds, reg>>

(* pthread_join; for a thread that was not created it is given whatever    *)
(* the pthread_t holds and may come back with an error or crash.           *)
JoinThread ==
  /\ main = "join" /\ i \in Thread
  /\ \/ pc[i] \in {"done", "missing"} /\ Advance("destroy")
     \/ pc[i] = "missing" /\ main' = "crashed" /\ i' = i
  /\ UNCHANGED <<shared, holders, pc, rounds, reg>>

(* pthread_mutex_destroy, pthread_rwlock_destroy; then printf *)
Destroy ==
  /\ main = "destroy"
  /\ main' = "print"
  /\ UNCHANGED <<shared, holders, pc, rounds, reg, i>>

ShowCounter ==
  /\ main = "print"
  /\ main' = "end"
  /\ UNCHANGED <<shared, holders, pc, rounds, reg, i>>

Ended == main \in {"end", "crashed"} /\ UNCHANGED vars

MainStep == CreateThread \/ JoinThread \/ Destroy \/ ShowCounter

Next == MainStep \/ Ended \/ \E t \in Thread : ThreadStep(t)

Spec == Init /\ [][Next]_vars

-----------------------------------------------------------------------------
TypeOK ==
  /\ shared \in Int
  /\ holders \subseteq Thread
  /\ pc \in [Thread -> ThreadPhase]
  /\ rounds \in [Thread -> 0..INCREMENT_LIMIT]
  /\ reg \in [Thread -> Int]
  /\ main \in MainPhase
  /\ i \in Nat

(* From the moment the lock is destroyed on no thread uses it, and the     *)
(* number printed counts every addition of every writer that was created,  *)
(* however many were not and whatever came of joining those.               *)
FinalValueExact ==
  main \in {"print", "end"} =>
    /\ holders = {}
    /\ shared = START + INCREMENT_LIMIT * Cardinality({t \in Writer : pc[t] = "done"})
    /\ \A t \in Thread : pc[t] \in {"done", "missing"}

(* The value a reader has printed is the value of the counter as long as   *)
(* the reader reads ("START READING AREA AT THE SAME TIME", line 23).      *)
ReadersSeeOneValue ==
  \A t \in Reader : pc[t] = "nap" => reg[t] = shared
=============================================================================
