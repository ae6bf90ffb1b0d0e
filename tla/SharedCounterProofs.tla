------------------------ MODULE SharedCounterProofs -------------------------
(***************************************************************************)
(* For every number of writers, readers and rounds, and whatever           *)
(* pthread_create() refuses: no addition is lost and readers see one       *)
(* value.  The heart is that the counter is START plus the number of       *)
(* additions made, counted as a set of pairs (writer, round).              *)
(***************************************************************************)
EXTENDS SharedCounter, FiniteSetTheorems, TLAPS

Using == {"load", "store", "read", "nap", "unlock"}

(* Who holds the lock, and what a holder may rely on *)
LockInv ==
  /\ \A t \in Thread : t \in holders <=> pc[t] \in Using
  /\ \A w \in Writer : w \in holders => holders = {w}
  /\ \A t \in Reader : pc[t] \notin {"load", "store"}
  /\ \A w \in Writer : pc[w] \notin {"read", "nap"}
  /\ \A w \in Writer : pc[w] = "store" => reg[w] = shared
  /\ ReadersSeeOneValue

(* How far each writer is *)
RoundInv ==
  /\ \A t \in Reader : rounds[t] = 0
  /\ \A w \in Writer : pc[w] \in {"off", "missing"} => rounds[w] = 0
  /\ \A w \in Writer : pc[w] \in {"lock", "load", "store"} => rounds[w] < INCREMENT_LIMIT
  /\ \A w \in Writer : pc[w] = "done" => rounds[w] = INCREMENT_LIMIT

(* How far main is *)
Over == {"done", "missing"}
MainInv ==
  /\ main = "create" => i \in Thread /\ \A t \in Thread : t >= i => pc[t] = "off"
  /\ main = "create" => \A t \in Thread : t < i => pc[t] # "off"
  /\ main = "join" => i \in Thread /\ \A t \in Thread : t < i => pc[t] \in Over
  /\ main # "create" => \A t \in Thread : pc[t] # "off"
  /\ main \in {"destroy", "print", "end"} => \A t \in Thread : pc[t] \in Over

(* The additions made so far *)
Additions == {x \in Writer \X (1..INCREMENT_LIMIT) : x[2] <= rounds[x[1]]}
SumInv == IsFiniteSet(Additions) /\ shared = START + Cardinality(Additions)

IInv == TypeOK /\ LockInv /\ RoundInv /\ MainInv

-----------------------------------------------------------------------------
LEMMA InitIInv == Init => IInv
  BY CounterAssumption
     DEF Init, IInv, TypeOK, LockInv, RoundInv, MainInv, ReadersSeeOneValue,
         Thread, Writer, Reader, NUM_THREADS, ThreadPhase, MainPhase, Using, Over

LEMMA ThreadPreserves ==
  ASSUME IInv, NEW t \in Thread, ThreadStep(t) PROVE IInv'
  <1> USE CounterAssumption
      DEF IInv, TypeOK, ThreadPhase, MainPhase, Goto
  <1>0. Writer \subseteq Thread /\ Reader \subseteq Thread /\ Reader \intersect Writer = {}
    BY DEF Writer, Reader, Thread, NUM_THREADS
  <1> HIDE DEF TypeOK
  <1>1. TypeOK'
    <2> USE DEF TypeOK
    <2>1. CASE WriteLock(t) \/ ReadLock(t) \/ NapEnds(t) \/ Unlock(t)
      BY <2>1 DEF WriteLock, ReadLock, NapEnds, Unlock
    <2>2. CASE Load(t) \/ Read(t)
      BY <2>2 DEF Load, Read
    <2>3. CASE Store(t)
      <3>1. t \in Writer
        BY <2>3, <1>0 DEF Store, LockInv, Reader
      <3>2. rounds[t] < INCREMENT_LIMIT
        BY <2>3, <3>1 DEF Store, RoundInv
      <3>3. QED
        BY <2>3, <3>2 DEF Store
    <2>4. QED
      BY <2>1, <2>2, <2>3 DEF ThreadStep
  <1>2. LockInv'
    <2> USE <1>0 DEF LockInv, ReadersSeeOneValue, Using, TypeOK
    <2>1. CASE WriteLock(t)
      BY <2>1 DEF WriteLock
    <2>2. CASE ReadLock(t)
      BY <2>2 DEF ReadLock
    <2>3. CASE NapEnds(t)
      BY <2>3 DEF NapEnds
    <2>4. CASE Unlock(t)
      BY <2>4 DEF Unlock
    <2>5. CASE Load(t)
      BY <2>5 DEF Load
    <2>6. CASE Read(t)
      BY <2>6 DEF Read
    <2>7. CASE Store(t)
      <3>1. t \in Writer /\ holders = {t}
        BY <2>7 DEF Store, Reader
      <3>2. \A u \in Thread : u # t => pc[u] \notin Using
        BY <3>1
      <3>3. QED
        BY <2>7, <3>1, <3>2 DEF Store
    <2>8. QED
      BY <2>1, <2>2, <2>3, <2>4, <2>5, <2>6, <2>7 DEF ThreadStep
  <1>3. RoundInv'
    <2> USE <1>0 DEF RoundInv, TypeOK
    <2>1. CASE WriteLock(t) \/ ReadLock(t) \/ NapEnds(t) \/ Load(t) \/ Read(t)
      BY <2>1 DEF WriteLock, ReadLock, NapEnds, Load, Read, LockInv, Reader
    <2>2. CASE Unlock(t)
      BY <2>2 DEF Unlock
    <2>3. CASE Store(t)
      BY <2>3 DEF Store, LockInv, Reader
    <2>4. QED
      BY <2>1, <2>2, <2>3 DEF ThreadStep
  <1>4. MainInv'
    <2>1. /\ main' = main /\ i' = i
          /\ pc[t] \notin Over \union {"off"} /\ pc'[t] # "off"
          /\ \A u \in Thread : u # t => pc'[u] = pc[u]
      BY DEF ThreadStep, WriteLock, ReadLock, NapEnds, Load, Read, Unlock, Store, Over, TypeOK
    <2>2. QED
      BY <2>1 DEF MainInv, TypeOK
  <1>5. QED
    BY <1>1, <1>2, <1>3, <1>4

LEMMA CreatePreserves == IInv /\ CreateThread => IInv'
  <1> SUFFICES ASSUME IInv, CreateThread PROVE IInv'
    OBVIOUS
  <1> USE CounterAssumption DEF IInv, TypeOK, ThreadPhase, MainPhase
  <1>1. /\ main = "create" /\ i \in Thread /\ pc[i] = "off"
        /\ UNCHANGED <<shared, holders, rounds, reg>>
    BY DEF CreateThread, MainInv
  <1>2. PICK s \in {"lock", "missing"} : pc' = [pc EXCEPT ![i] = s]
    BY DEF CreateThread
  <1>3. /\ i < NUM_THREADS => main' = "create" /\ i' = i + 1
        /\ ~(i < NUM_THREADS) => main' = "join" /\ i' = 1
    BY <1>1 DEF CreateThread, Advance
  <1>4. Thread = 1..NUM_THREADS /\ NUM_THREADS \in Nat \ {0} /\ i \in Nat
    BY DEF Thread, NUM_THREADS
  <1>5. pc' \in [Thread -> ThreadPhase] /\ pc'[i] = s /\ \A t \in Thread : t # i => pc'[t] = pc[t]
    BY <1>1, <1>2
  <1>6. TypeOK'
    <2>1. main' \in MainPhase /\ i' \in Nat
      BY <1>3, <1>4
    <2>2. QED
      BY <1>1, <1>5, <2>1
  <1>7. LockInv'
    BY <1>1, <1>5 DEF LockInv, ReadersSeeOneValue, Using, Writer, Reader, Thread, NUM_THREADS
  <1>8. RoundInv'
    BY <1>1, <1>5 DEF RoundInv, Writer, Reader, Thread, NUM_THREADS
  <1>9. MainInv'
    <2>1. CASE i < NUM_THREADS
      BY <1>1, <1>3, <1>4, <1>5, <2>1 DEF MainInv
    <2>2. CASE ~(i < NUM_THREADS)
      <3>1. \A t \in Thread : t # i => t < i
        BY <1>1, <1>4, <2>2
      <3>2. \A t \in Thread : pc'[t] # "off"
        BY <1>1, <1>5, <3>1 DEF MainInv
      <3>3. 1 \in Thread /\ \A t \in Thread : ~(t < 1)
        BY <1>4
      <3>4. QED
        BY <1>3, <2>2, <3>2, <3>3 DEF MainInv
    <2>3. QED
      BY <2>1, <2>2
  <1>10. QED
    BY <1>6, <1>7, <1>8, <1>9

LEMMA JoinPreserves == IInv /\ JoinThread => IInv'
  <1> SUFFICES ASSUME IInv, JoinThread PROVE IInv'
    OBVIOUS
  <1> USE CounterAssumption DEF IInv, TypeOK, ThreadPhase, MainPhase
  <1>1. main = "join" /\ i \in Thread /\ pc[i] \in Over /\ UNCHANGED <<shared, holders, pc, rounds, reg>>
    BY DEF JoinThread, Over
  <1>2. \/ main' = "join" /\ i < NUM_THREADS /\ i' = i + 1
        \/ main' = "destroy" /\ ~(i < NUM_THREADS) /\ i' = 1
        \/ main' = "crashed" /\ i' = i
    BY <1>1 DEF JoinThread, Advance
  <1>3. Thread = 1..NUM_THREADS /\ NUM_THREADS \in Nat \ {0} /\ i \in Nat
    BY DEF Thread, NUM_THREADS
  <1>4. TypeOK'
    BY <1>1, <1>2, <1>3
  <1>5. LockInv' /\ RoundInv'
    BY <1>1 DEF LockInv, RoundInv, ReadersSeeOneValue
  <1>6. MainInv'
    <2>1. ~(i < NUM_THREADS) => \A t \in Thread : t # i => t < i
      BY <1>1, <1>3
    <2>2. i < NUM_THREADS => i + 1 \in Thread /\ \A t \in Thread : t < i + 1 /\ t # i => t < i
      BY <1>1, <1>3
    <2>3. QED
      BY <1>1, <1>2, <2>1, <2>2 DEF MainInv
  <1>7. QED
    BY <1>4, <1>5, <1>6

LEMMA MainPreserves == IInv /\ (MainStep \/ Ended) => IInv'
  <1> SUFFICES ASSUME IInv, Destroy \/ ShowCounter \/ Ended PROVE IInv'
    BY CreatePreserves, JoinPreserves DEF MainStep
  <1> QED
    BY DEF Destroy, ShowCounter, Ended, vars, IInv, TypeOK, LockInv, RoundInv, MainInv,
           ReadersSeeOneValue, MainPhase

LEMMA CounterInvariance == Spec => []IInv
  <1>1. IInv /\ [Next]_vars => IInv'
    <2> SUFFICES ASSUME IInv, [Next]_vars PROVE IInv'
      OBVIOUS
    <2>1. CASE UNCHANGED vars
      BY <2>1 DEF vars, IInv, TypeOK, LockInv, RoundInv, MainInv, ReadersSeeOneValue
    <2>2. QED
      BY <2>1, ThreadPreserves, MainPreserves DEF Next
  <1>2. QED
    BY InitIInv, <1>1, PTL DEF Spec

(* The counter grows by each addition: what a writer stores is one more    *)
(* than the counter, not than an older value of it.                        *)
LEMMA SumPreserves == IInv /\ SumInv /\ [Next]_vars => SumInv'
  <1> SUFFICES ASSUME IInv, SumInv, [Next]_vars PROVE SumInv'
    OBVIOUS
  <1>1. CASE UNCHANGED <<shared, rounds>>
    BY <1>1 DEF SumInv, Additions
  <1>2. ASSUME NEW t \in Thread, Store(t) PROVE SumInv'
    <2> DEFINE x == <<t, rounds[t] + 1>>
    <2>1. t \in Writer /\ pc[t] = "store"
      BY <1>2 DEF Store, Goto, IInv, LockInv, Reader
    <2>2. reg[t] = shared /\ rounds[t] < INCREMENT_LIMIT
      BY <2>1 DEF IInv, LockInv, RoundInv
    <2>3. /\ rounds \in [Thread -> 0..INCREMENT_LIMIT] /\ INCREMENT_LIMIT \in Nat
          /\ shared \in Int /\ START \in Int /\ Writer \subseteq Thread
      BY CounterAssumption DEF IInv, TypeOK, Writer, Thread, NUM_THREADS
    <2>4. rounds' = [rounds EXCEPT ![t] = rounds[t] + 1] /\ shared' = shared + 1
      BY <1>2, <2>2 DEF Store
    <2>5. x \notin Additions /\ Additions' = Additions \union {x}
      <3>1. \A w \in Writer, k \in 1..INCREMENT_LIMIT :
              k <= rounds'[w] <=> k <= rounds[w] \/ (w = t /\ k = rounds[t] + 1)
        BY <2>1, <2>2, <2>3, <2>4
      <3>2. rounds[t] + 1 \in 1..INCREMENT_LIMIT /\ ~(rounds[t] + 1 <= rounds[t])
        BY <2>1, <2>2, <2>3
      <3>3. QED
        BY <2>1, <3>1, <3>2 DEF Additions
    <2>6. /\ IsFiniteSet(Additions')
          /\ Cardinality(Additions') = Cardinality(Additions) + 1
          /\ Cardinality(Additions) \in Nat
      BY <2>5, FS_AddElement, FS_CardinalityType DEF SumInv
    <2>7. QED
      BY <2>3, <2>4, <2>6 DEF SumInv
  <1>3. QED
    BY <1>1, <1>2 DEF Next, ThreadStep, WriteLock, Load, ReadLock, Read, NapEnds, Unlock,
       MainStep, CreateThread, JoinThread, Destroy, ShowCounter, Ended, vars

LEMMA SumInvariance == Spec => []SumInv
  <1>1. Init => SumInv
    <2> SUFFICES ASSUME Init PROVE SumInv
      OBVIOUS
    <2>1. Additions = {}
      BY CounterAssumption DEF Init, Additions, Thread, Writer, NUM_THREADS
    <2>2. QED
      BY <2>1, FS_EmptySet, CounterAssumption DEF Init, SumInv
  <1>2. QED
    BY <1>1, SumPreserves, CounterInvariance, PTL DEF Spec

(* The number printed at the end is exact: each writer that was created    *)
(* has added INCREMENT_LIMIT, and nothing is lost.                         *)
THEOREM FinalValue == Spec => []FinalValueExact
  <1>1. IInv /\ SumInv => FinalValueExact
    <2> SUFFICES ASSUME IInv, SumInv, main \in {"print", "end"}
                 PROVE  /\ holders = {}
                        /\ shared = START + INCREMENT_LIMIT * Cardinality({t \in Writer : pc[t] = "done"})
                        /\ \A t \in Thread : pc[t] \in {"done", "missing"}
      BY DEF FinalValueExact
    <2> DEFINE Done == {t \in Writer : pc[t] = "done"}
    <2>1. \A t \in Thread : pc[t] \in {"done", "missing"}
      BY DEF IInv, MainInv, Over
    <2>2. holders = {}
      BY <2>1 DEF IInv, TypeOK, LockInv, Using
    <2>3. /\ Writer = 1..NUM_WRITERS /\ Writer \subseteq Thread
          /\ NUM_WRITERS \in Nat /\ INCREMENT_LIMIT \in Nat
      BY CounterAssumption DEF Writer, Thread, NUM_THREADS
    <2>4. Additions = Done \X (1..INCREMENT_LIMIT)
      <3>1. \A w \in Writer, k \in 1..INCREMENT_LIMIT : k <= rounds[w] <=> pc[w] = "done"
        BY <2>1, <2>3 DEF IInv, RoundInv
      <3>2. QED
        BY <3>1 DEF Additions
    <2>5. IsFiniteSet(Done)
      <3>1. IsFiniteSet(Writer)
        BY <2>3, FS_Interval
      <3>2. QED
        BY <3>1, FS_Subset
    <2>6. IsFiniteSet(1..INCREMENT_LIMIT) /\ Cardinality(1..INCREMENT_LIMIT) = INCREMENT_LIMIT
      BY <2>3, FS_Interval
    <2>7. Cardinality(Additions) = Cardinality(Done) * INCREMENT_LIMIT
      BY <2>4, <2>5, <2>6, FS_Product
    <2>8. Cardinality(Done) * INCREMENT_LIMIT = INCREMENT_LIMIT * Cardinality(Done)
      BY <2>3, <2>5, FS_CardinalityType
    <2>9. QED
      BY <2>1, <2>2, <2>7, <2>8 DEF SumInv
  <1>2. QED
    BY <1>1, SumInvariance, CounterInvariance, PTL

(* No reader ever sees the counter change while it reads.                  *)
THEOREM ReadersSeeOne == Spec => []ReadersSeeOneValue
  BY CounterInvariance, PTL DEF IInv, LockInv
=============================================================================
