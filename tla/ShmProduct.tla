----------------------------- MODULE ShmProduct -----------------------------
(***************************************************************************)
(* posix_shm_producer.c and posix_shm_consumer.c: a producer writes one    *)
(* Product into the shared memory object /my_shared_mem, a consumer reads  *)
(* it and deletes the object's name.  Nothing but the user orders them:    *)
(* there is no semaphore and no flag in the memory.  orderly says whether  *)
(* the user has run one program at a time so far, each to its end.         *)
(*                                                                         *)
(* As in TaskQueue an object lives while it has the name or is mapped; a   *)
(* new one has size 0 until somebody sets it, and reading it then is a bus *)
(* error.  The product's fields are versions: the number of the run that   *)
(* wrote them, 0 for the zeros of a new object.                            *)
(***************************************************************************)
EXTENDS Integers, Sequences

CONSTANTS
  Producer, Consumer,   \* terminals in which the programs are run
  MaxRuns,              \* how many runs there are in all
  MaxKills              \* how many runs are ended by Ctrl+C

ASSUME ShmAssumption ==
  /\ MaxRuns \in Nat /\ MaxKills \in Nat
  /\ Producer \intersect Consumer = {}

VARIABLES
  name,     \* the object /my_shared_mem leads to, 0 if there is none
  sized,    \* has ftruncate given each object its size?
  memory,   \* the product in each object
  pc,       \* where each program is
  object,   \* the object it has open, 0 for none
  run,      \* the number of its run
  runs,     \* runs so far
  kills,
  local,    \* the product a consumer has read so far
  printed,  \* the products printed by the consumers that read to the end
  orderly   \* history: has nobody run beside another, or been killed?

vars == <<name, sized, memory, pc, object, run, runs, kills, local, printed, orderly>>

Program == Producer \union Consumer
Field   == {"id", "name", "price"}
Objects == DOMAIN sized

Zeros    == [f \in Field |-> 0]
Whole(v) == [f \in Field |-> v]

Idle == {"off", "done", "failed", "bus"}

Init ==
  /\ name = 0 /\ sized = << >> /\ memory = << >>
  /\ pc = [p \in Program |-> "off"]
  /\ object = [p \in Program |-> 0]
  /\ run = [p \in Program |-> 0]
  /\ runs = 0 /\ kills = 0
  /\ local = [c \in Consumer |-> Zeros]
  /\ printed = << >>
  /\ orderly = TRUE

Goto(p, from, to) ==
  /\ pc[p] = from
  /\ pc' = [pc EXCEPT ![p] = to]

(* A user starts a program, again and again. *)
Start(p) ==
  /\ pc[p] \in Idle
  /\ runs < MaxRuns
  /\ orderly' = (orderly /\ \A q \in Program : pc[q] \in Idle)
  /\ pc' = [pc EXCEPT ![p] = "open"]
  /\ runs' = runs + 1
  /\ run' = [run EXCEPT ![p] = runs']
  /\ local' = [c \in Consumer |-> IF c = p THEN Zeros ELSE local[c]]
  /\ UNCHANGED <<name, sized, memory, object, kills, printed>>

-----------------------------------------------------------------------------
(***************************************************************************)
(* The producer                                                            *)
(***************************************************************************)
(* shm_open with O_CREAT and without O_EXCL or O_TRUNC *)
OpenOrCreate(p) ==
  /\ Goto(p, "open", "truncate")
  /\ IF name # 0 THEN UNCHANGED <<name, sized, memory>>
     ELSE /\ sized' = Append(sized, FALSE)
          /\ memory' = Append(memory, Zeros)
          /\ name' = Len(sized')
  /\ object' = [object EXCEPT ![p] = name']
  /\ UNCHANGED <<run, runs, kills, local, printed, orderly>>

(* Mutant: ftruncate is forgotten. *)
TruncateNothing(p) ==
  /\ Goto(p, "truncate", "id")
  /\ UNCHANGED <<name, sized, memory, object, run, runs, kills, local, printed, orderly>>

(* ftruncate keeps what an object of this size holds.  mmap changes        *)
(* nothing that anybody sees.                                              *)
Truncate(p) ==
  /\ Goto(p, "truncate", "id")
  /\ sized' = [sized EXCEPT ![object[p]] = TRUE]
  /\ UNCHANGED <<name, memory, object, run, runs, kills, local, printed, orderly>>

(* Mutant: a field is not written. *)
EnterOthers(p, f, next) ==
  /\ Goto(p, f, next)
  /\ memory' = IF f = "price" THEN memory
               ELSE [memory EXCEPT ![object[p]][f] = run[p]]
  /\ UNCHANGED <<name, sized, object, run, runs, kills, local, printed, orderly>>

(* scanf and fgets write straight into the shared memory, one field after  *)
(* the other.  The user enters what is asked for.                          *)
Enter(p, f, next) ==
  /\ Goto(p, f, next)
  /\ memory' = [memory EXCEPT ![object[p]][f] = run[p]]
  /\ UNCHANGED <<name, sized, object, run, runs, kills, local, printed, orderly>>

(* munmap and close *)
Leave(p) ==
  /\ Goto(p, "leave", "done")
  /\ object' = [object EXCEPT ![p] = 0]
  /\ UNCHANGED <<name, sized, memory, run, runs, kills, local, printed, orderly>>

Produce(p) ==
  \/ OpenOrCreate(p) \/ Truncate(p)
  \/ Enter(p, "id", "name") \/ Enter(p, "name", "price") \/ Enter(p, "price", "leave")
  \/ Leave(p)

-----------------------------------------------------------------------------
(***************************************************************************)
(* The consumer                                                            *)
(***************************************************************************)
Open(c) ==
  /\ Goto(c, "open", IF name = 0 THEN "failed" ELSE "id")
  /\ object' = [object EXCEPT ![c] = name]
  /\ UNCHANGED <<name, sized, memory, run, runs, kills, local, printed, orderly>>

(* Reading a field: SIGBUS while the object has no size *)
ReadField(c, f, next) ==
  /\ pc[c] = f
  /\ IF sized[object[c]]
       THEN /\ pc' = [pc EXCEPT ![c] = next]
            /\ local' = [local EXCEPT ![c][f] = memory[object[c]][f]]
            /\ object' = object
       ELSE /\ pc' = [pc EXCEPT ![c] = "bus"]
            /\ object' = [object EXCEPT ![c] = 0]
            /\ local' = local
  /\ UNCHANGED <<name, sized, memory, run, runs, kills, printed, orderly>>

(* munmap and close *)
Unmap(c) ==
  /\ Goto(c, "unmap", "unlink")
  /\ object' = [object EXCEPT ![c] = 0]
  /\ printed' = Append(printed, local[c])
  /\ UNCHANGED <<name, sized, memory, run, runs, kills, local, orderly>>

(* Mutant: the consumer forgets shm_unlink. *)
LeaveName(c) ==
  /\ Goto(c, "unlink", "done")
  /\ UNCHANGED <<name, sized, memory, object, run, runs, kills, local, printed, orderly>>

(* shm_unlink deletes whatever object has the name now. *)
UnlinkName(c) ==
  /\ Goto(c, "unlink", "done")
  /\ name' = 0
  /\ UNCHANGED <<sized, memory, object, run, runs, kills, local, printed, orderly>>

Consume(c) ==
  \/ Open(c)
  \/ ReadField(c, "id", "name") \/ ReadField(c, "name", "price")
  \/ ReadField(c, "price", "unmap")
  \/ Unmap(c) \/ UnlinkName(c)

(* Ctrl+C, most likely while a producer waits for its user *)
KillProgram(p) ==
  /\ pc[p] \notin Idle
  /\ kills < MaxKills
  /\ kills' = kills + 1
  /\ orderly' = FALSE
  /\ pc' = [pc EXCEPT ![p] = "off"]
  /\ object' = [object EXCEPT ![p] = 0]
  /\ UNCHANGED <<name, sized, memory, run, runs, local, printed>>

Next ==
  \/ \E p \in Program : Start(p) \/ KillProgram(p)
  \/ \E p \in Producer : Produce(p)
  \/ \E c \in Consumer : Consume(c)

Spec == Init /\ [][Next]_vars

-----------------------------------------------------------------------------
Versions == 0..MaxRuns

(* Products are printed whole and at most once, in the order in which they *)
(* were entered, as long as the programs are run one at a time and to the  *)
(* end: what an earlier producer or consumer has left behind, in the name  *)
(* or in the memory, never shows.                                          *)
PrintsWholeProductsOnce ==
  orderly =>
    \A k \in DOMAIN printed :
      /\ \E v \in Versions \ {0} : printed[k] = Whole(v)
      /\ \A j \in 1..(k - 1) : printed[j].id < printed[k].id

(* "The object will remain forever in /dev/shm until reboot" (consumer,    *)
(* line 69) only if no consumer has been run to the end since the producer *)
(* that created it.  In orderly use the name is there, when nobody runs,   *)
(* only while a product waits that has not been printed.                   *)
NothingLeftBehind ==
  orderly /\ (\A p \in Program : pc[p] \in Idle) /\ name # 0 =>
     \A k \in DOMAIN printed : printed[k].id < memory[name].id

(* Whoever runs beside whom, the only moment at which reading is fatal is  *)
(* between the shm_open and the ftruncate of the producer that created the *)
(* object (lines 32 and 43), unless a producer was killed there: a         *)
(* consumer that could read one field can read the others.                 *)
BusErrorOnlyInWindow ==
  [][\A c \in Consumer :
       pc'[c] = "bus" /\ pc[c] # "bus" =>
         /\ pc[c] = "id"
         /\ \/ kills > 0
            \/ \E p \in Producer : pc[p] = "truncate" /\ object[p] = object[c]]_vars
=============================================================================
