-------------------------- MODULE ShmProductProofs --------------------------
(***************************************************************************)
(* Proofs about ShmProduct.tla for every number of terminals, runs and     *)
(* kills.  Two things have to be kept apart.  SizeInv holds whoever runs   *)
(* beside whom: who has an object open, and which objects have their size. *)
(* OrderInv is about programs run one at a time: at each step of the only  *)
(* program that runs it says how much of the product is in the memory and  *)
(* in the consumer's hands, and that it is newer than all that is printed. *)
(***************************************************************************)
EXTENDS ShmProduct, TLAPS

Writing == {"id", "name", "price", "leave"}
Reading == {"id", "name", "price", "unmap"}

ProducerStep == {"off", "done", "open", "truncate"} \union Writing
ConsumerStep == Idle \union {"open", "unlink"} \union Reading
Steps        == ProducerStep \union ConsumerStep

Busy(p) == pc[p] \notin Idle

TypeOK ==
  /\ sized \in Seq(BOOLEAN) /\ memory \in Seq([Field -> Nat])
  /\ Len(memory) = Len(sized)
  /\ name \in 0..Len(sized)
  /\ pc \in [Program -> Steps]
  /\ \A p \in Producer : pc[p] \in ProducerStep
  /\ \A c \in Consumer : pc[c] \in ConsumerStep
  /\ object \in [Program -> 0..Len(sized)]
  /\ run \in [Program -> Nat]
  /\ runs \in 0..MaxRuns
  /\ kills \in Nat
  /\ local \in [Consumer -> [Field -> Nat]]
  /\ printed \in Seq([Field -> Nat])
  /\ orderly \in BOOLEAN

SizeInv ==
  /\ \A p \in Producer : pc[p] \in {"truncate"} \union Writing => object[p] # 0
  /\ \A c \in Consumer : pc[c] \in Reading => object[c] # 0
  /\ \A p \in Producer : pc[p] \in Writing => sized[object[p]]
  /\ \A c \in Consumer : pc[c] \in Reading \ {"id"} => sized[object[c]]
  /\ kills = 0 => \A o \in 1..Len(sized) :
       sized[o] \/ \E p \in Producer : pc[p] = "truncate" /\ object[p] = o

(* All that is printed is older than v. *)
Older(v) == \A k \in 1..Len(printed) : printed[k]["id"] < v

Increasing ==
  \A k \in 1..Len(printed) :
    /\ \E v \in 1..runs : printed[k] = Whole(v)
    /\ \A j \in 1..(k - 1) : printed[j]["id"] < printed[k]["id"]

(* What the name leads to is a whole product that is not printed yet. *)
Awaits ==
  name # 0 => sized[name] /\ \E v \in 1..runs : memory[name] = Whole(v) /\ Older(v)

Alone == \A p, q \in Program : Busy(p) /\ Busy(q) => p = q

ProducerAtWork ==
  \A p \in Producer :
    /\ Busy(p) => run[p] = runs /\ runs > 0 /\ Older(runs)
    /\ pc[p] \in {"truncate"} \union Writing => object[p] = name
    /\ pc[p] \in {"name", "price", "leave"} => memory[name]["id"] = runs
    /\ pc[p] \in {"price", "leave"} => memory[name]["name"] = runs
    /\ pc[p] = "leave" => memory[name]["price"] = runs

ConsumerAtWork ==
  \A c \in Consumer :
    /\ pc[c] \in Reading => object[c] = name
    /\ pc[c] \in {"name", "price", "unmap"} => local[c]["id"] = memory[name]["id"]
    /\ pc[c] \in {"price", "unmap"} => local[c]["name"] = memory[name]["name"]
    /\ pc[c] = "unmap" => local[c]["price"] = memory[name]["price"]

(* Nobody has the product half written or printed and not yet unlinked. *)
Between ==
  /\ \A p \in Producer : pc[p] \notin {"truncate"} \union Writing
  /\ \A c \in Consumer : pc[c] # "unlink"

InOrder ==
  /\ Alone
  /\ Increasing
  /\ ProducerAtWork
  /\ ConsumerAtWork
  /\ Between => Awaits

OrderInv == orderly => InOrder

IInv == TypeOK /\ SizeInv /\ OrderInv

-----------------------------------------------------------------------------
LEMMA InitIInv == Init => IInv
BY ShmAssumption
DEF Init, IInv, TypeOK, SizeInv, OrderInv, InOrder, Between, Zeros, Field, Program, Steps, ProducerStep,
    ConsumerStep, Writing, Reading, Idle, Alone, Busy, Increasing, ProducerAtWork,
    ConsumerAtWork, Awaits

(* Entering one field of one product *)
LEMMA FieldEntered ==
  ASSUME NEW m \in Seq([Field -> Nat]), NEW o \in 1..Len(m), NEW f \in Field, NEW v \in Nat
  PROVE  /\ [m EXCEPT ![o][f] = v] \in Seq([Field -> Nat])
         /\ Len([m EXCEPT ![o][f] = v]) = Len(m)
         /\ [m EXCEPT ![o][f] = v][o][f] = v
         /\ \A g \in Field \ {f} : [m EXCEPT ![o][f] = v][o][g] = m[o][g]
OBVIOUS

(* Replacing one element of a sequence *)
LEMMA ElementReplaced ==
  ASSUME NEW S, NEW s \in Seq(S), NEW o \in 1..Len(s), NEW v \in S
  PROVE  /\ [s EXCEPT ![o] = v] \in Seq(S) /\ Len([s EXCEPT ![o] = v]) = Len(s)
         /\ [s EXCEPT ![o] = v][o] = v
         /\ \A i \in 1..Len(s) \ {o} : [s EXCEPT ![o] = v][i] = s[i]
OBVIOUS

LEMMA WholeFields ==
  ASSUME NEW m \in [Field -> Nat], NEW v
  PROVE  m = Whole(v) <=> m["id"] = v /\ m["name"] = v /\ m["price"] = v
BY DEF Whole, Field

LEMMA TypeStep == TypeOK /\ SizeInv /\ [Next]_vars => TypeOK'
<1> SUFFICES ASSUME TypeOK, SizeInv, [Next]_vars PROVE TypeOK'
  OBVIOUS
<1> USE ShmAssumption DEF TypeOK, Program
<1>1. ASSUME NEW p \in Program, Start(p) PROVE TypeOK'
  <2>1. /\ runs + 1 \in 0..MaxRuns /\ runs' = runs + 1 /\ run' = [run EXCEPT ![p] = runs + 1]
        /\ pc' = [pc EXCEPT ![p] = "open"] /\ orderly' \in BOOLEAN
        /\ local' \in [Consumer -> [Field -> Nat]]
        /\ UNCHANGED <<name, sized, memory, object, kills, printed>>
    BY <1>1 DEF Start, Zeros
  <2>2. run' \in [Program -> Nat]
    BY <1>1, <2>1
  <2>3. QED
    BY <1>1, <2>1, <2>2 DEF Steps, ProducerStep, ConsumerStep
<1>2. ASSUME NEW p \in Program, KillProgram(p) PROVE TypeOK'
  <2>1. /\ pc' = [pc EXCEPT ![p] = "off"] /\ object' = [object EXCEPT ![p] = 0]
        /\ kills' = kills + 1 /\ orderly' = FALSE
        /\ UNCHANGED <<name, sized, memory, run, runs, local, printed>>
    BY <1>2 DEF KillProgram
  <2>2. "off" \in Steps /\ "off" \in ProducerStep /\ "off" \in ConsumerStep
    BY DEF Steps, ProducerStep, ConsumerStep, Idle
  <2>3. pc' \in [Program -> Steps] /\ object' \in [Program -> 0..Len(sized')]
    BY <1>2, <2>1, <2>2
  <2>4. (\A q \in Producer : pc'[q] \in ProducerStep) /\ (\A c \in Consumer : pc'[c] \in ConsumerStep)
    BY <1>2, <2>1, <2>2
  <2>5. kills' \in Nat /\ orderly' \in BOOLEAN
    <3>1. kills' \in Nat
      BY <2>1
    <3>2. orderly' \in BOOLEAN
      BY <2>1, Zenon
    <3>3. QED
      BY <3>1, <3>2
  <2>6. UNCHANGED <<name, sized, memory, run, runs, local, printed>>
    BY <2>1
  <2>7. QED
    BY <2>3, <2>4, <2>5, <2>6
<1>3. ASSUME NEW p \in Producer, OpenOrCreate(p) PROVE TypeOK'
  <2>1. pc' \in [Program -> Steps] /\ pc'[p] = "truncate" /\ \A q \in Program \ {p} : pc'[q] = pc[q]
    BY <1>3 DEF OpenOrCreate, Goto, Steps, ProducerStep
  <2>2. /\ sized' \in Seq(BOOLEAN) /\ memory' \in Seq([Field -> Nat])
        /\ Len(memory') = Len(sized') /\ name' \in 0..Len(sized') /\ Len(sized') >= Len(sized)
    <3>1. CASE name # 0
      BY <1>3, <3>1 DEF OpenOrCreate
    <3>2. CASE name = 0
      <4>1. Zeros \in [Field -> Nat]
        BY DEF Zeros
      <4>2. sized' = Append(sized, FALSE) /\ memory' = Append(memory, Zeros) /\ name' = Len(sized')
        BY <1>3, <3>2 DEF OpenOrCreate
      <4>3. QED
        BY <4>1, <4>2
    <3>3. QED
      BY <3>1, <3>2
  <2>3. object' \in [Program -> 0..Len(sized')]
    <3>1. \A q \in Program : object[q] \in 0..Len(sized')
      BY <2>2
    <3>2. object' = [object EXCEPT ![p] = name']
      BY <1>3 DEF OpenOrCreate
    <3>3. QED
      BY <2>2, <3>1, <3>2
  <2>4. UNCHANGED <<run, runs, kills, local, printed, orderly>>
    BY <1>3 DEF OpenOrCreate
  <2>5. QED
    BY <1>3, <2>1, <2>2, <2>3, <2>4 DEF ProducerStep
<1>4. ASSUME NEW p \in Producer, Truncate(p) PROVE TypeOK'
  <2>1. sized' = [sized EXCEPT ![object[p]] = TRUE]
        /\ UNCHANGED <<name, memory, object, run, runs, kills, local, printed, orderly>>
    BY <1>4 DEF Truncate
  <2>2. sized' \in Seq(BOOLEAN) /\ Len(sized') = Len(sized)
    <3>1. object[p] \in 1..Len(sized)
      BY <1>4 DEF Truncate, Goto, SizeInv
    <3>2. sized \in Seq(BOOLEAN) /\ TRUE \in BOOLEAN
      OBVIOUS
    <3>3. QED
      BY <2>1, <3>1, <3>2, ElementReplaced
  <2>3. pc' \in [Program -> Steps] /\ pc'[p] = "id" /\ \A q \in Program \ {p} : pc'[q] = pc[q]
    BY <1>4 DEF Truncate, Goto, Steps, ProducerStep, Writing
  <2>4. QED
    BY <1>4, <2>1, <2>2, <2>3 DEF ProducerStep, Writing
<1>5. ASSUME NEW p \in Producer, NEW f \in Field, NEW next \in Writing, f \in Writing,
             Enter(p, f, next)
      PROVE  TypeOK'
  <2>1. object[p] \in 1..Len(memory) /\ run[p] \in Nat
    BY <1>5 DEF Enter, Goto, SizeInv
  <2>2. memory' \in Seq([Field -> Nat]) /\ Len(memory') = Len(memory)
    BY <1>5, <2>1, FieldEntered DEF Enter
  <2>3. pc' \in [Program -> Steps] /\ pc'[p] = next /\ \A q \in Program \ {p} : pc'[q] = pc[q]
    BY <1>5 DEF Enter, Goto, Steps, ProducerStep
  <2>4. UNCHANGED <<name, sized, object, run, runs, kills, local, printed, orderly>>
    BY <1>5 DEF Enter
  <2>5. QED
    BY <1>5, <2>2, <2>3, <2>4 DEF ProducerStep
<1>6. ASSUME NEW p \in Producer, Leave(p) PROVE TypeOK'
  BY <1>6 DEF Leave, Goto, Steps, ProducerStep
<1>7. ASSUME NEW c \in Consumer, Open(c) PROVE TypeOK'
  BY <1>7 DEF Open, Goto, Steps, ConsumerStep, Reading, Idle
<1>8. ASSUME NEW c \in Consumer, NEW f \in Field, NEW next \in Reading, f \in Reading,
             ReadField(c, f, next)
      PROVE  TypeOK'
  <2>1. object[c] \in 1..Len(memory)
    BY <1>8 DEF ReadField, SizeInv
  <2>2. memory[object[c]][f] \in Nat
    BY <1>8, <2>1
  <2>3. /\ \/ local' = local
           \/ local' = [local EXCEPT ![c] = [local[c] EXCEPT ![f] = memory[object[c]][f]]]
        /\ object' = object \/ object' = [object EXCEPT ![c] = 0]
    BY <1>8 DEF ReadField
  <2>4. /\ pc' \in [Program -> Steps] /\ pc'[c] \in ConsumerStep
        /\ \A q \in Program \ {c} : pc'[q] = pc[q]
    BY <1>8 DEF ReadField, Steps, ConsumerStep, Idle
  <2>5. object' \in [Program -> 0..Len(sized)] /\ local' \in [Consumer -> [Field -> Nat]]
    <3>1. [local[c] EXCEPT ![f] = memory[object[c]][f]] \in [Field -> Nat]
      BY <1>8, <2>2
    <3>2. local' \in [Consumer -> [Field -> Nat]]
      BY <1>8, <2>3, <3>1
    <3>3. object' \in [Program -> 0..Len(sized)]
      BY <1>8, <2>3
    <3>4. QED
      BY <3>2, <3>3
  <2>6. UNCHANGED <<name, sized, memory, run, runs, kills, printed, orderly>>
    BY <1>8 DEF ReadField
  <2>7. QED
    BY <1>8, <2>3, <2>4, <2>5, <2>6
<1>9. ASSUME NEW c \in Consumer, Unmap(c) PROVE TypeOK'
  BY <1>9 DEF Unmap, Goto, Steps, ConsumerStep
<1>10. ASSUME NEW c \in Consumer, UnlinkName(c) PROVE TypeOK'
  BY <1>10 DEF UnlinkName, Goto, Steps, ConsumerStep, Idle
<1>11. CASE UNCHANGED vars
  BY <1>11 DEF vars
<1>12. ASSUME NEW p \in Producer, Produce(p) PROVE TypeOK'
  BY <1>12, <1>3, <1>4, <1>5, <1>6 DEF Produce, Field, Writing
<1>13. ASSUME NEW c \in Consumer, Consume(c) PROVE TypeOK'
  BY <1>13, <1>7, <1>8, <1>9, <1>10 DEF Consume, Field, Reading
<1>14. QED
  BY <1>1, <1>2, <1>11, <1>12, <1>13 DEF Next

-----------------------------------------------------------------------------
(***************************************************************************)
(* Who has an object open, and which objects have their size               *)
(***************************************************************************)
LEMMA SizeStep == TypeOK /\ SizeInv /\ [Next]_vars => SizeInv'
<1> SUFFICES ASSUME TypeOK, SizeInv, [Next]_vars PROVE SizeInv'
  OBVIOUS
<1>1. /\ pc \in [Program -> Steps] /\ object \in [Program -> 0..Len(sized)]
      /\ sized \in Seq(BOOLEAN) /\ name \in 0..Len(sized) /\ kills \in Nat
      /\ Producer \subseteq Program /\ Consumer \subseteq Program
      /\ \A p \in Producer, c \in Consumer : p # c
  BY ShmAssumption DEF TypeOK, Program
<1> USE DEF SizeInv, Writing, Reading
<1>2. ASSUME NEW p \in Program, Start(p) PROVE SizeInv'
  BY <1>1, <1>2 DEF Start, Idle
(* A killed producer takes the assurance that unsized objects will be      *)
(* sized with it.                                                          *)
<1>3. ASSUME NEW p \in Program, KillProgram(p) PROVE SizeInv'
  <2>1. kills' # 0 /\ pc' = [pc EXCEPT ![p] = "off"] /\ sized' = sized
        /\ object' = [object EXCEPT ![p] = 0]
    BY <1>1, <1>3 DEF KillProgram
  <2>2. QED
    BY <1>1, <1>3, <2>1
<1>4. ASSUME NEW p \in Producer, OpenOrCreate(p) PROVE SizeInv'
  <2>1. /\ pc' = [pc EXCEPT ![p] = "truncate"] /\ object' = [object EXCEPT ![p] = name']
        /\ kills' = kills
    BY <1>4 DEF OpenOrCreate, Goto
  <2>2. CASE name # 0
    <3>1. sized' = sized /\ name' = name
      BY <1>4, <2>2 DEF OpenOrCreate
    <3>2. \A o : (\E q \in Producer : pc[q] = "truncate" /\ object[q] = o)
                   => \E q \in Producer : pc'[q] = "truncate" /\ object'[q] = o
      BY <1>1, <1>4, <2>1 DEF OpenOrCreate, Goto
    <3>3. QED
      BY <1>1, <1>4, <2>1, <2>2, <3>1, <3>2
  <2>3. CASE name = 0
    <3>1. sized' = Append(sized, FALSE) /\ name' = Len(sized')
      BY <1>4, <2>3 DEF OpenOrCreate
    <3>2. /\ Len(sized') = Len(sized) + 1 /\ name' = Len(sized) + 1
          /\ \A o \in 1..Len(sized) : sized'[o] = sized[o]
      BY <1>1, <3>1
    <3>3. \A o : (\E q \in Producer : pc[q] = "truncate" /\ object[q] = o)
                   => \E q \in Producer : pc'[q] = "truncate" /\ object'[q] = o
      BY <1>1, <1>4, <2>1 DEF OpenOrCreate, Goto
    <3>4. kills' = 0 => \A o \in 1..Len(sized') :
            sized'[o] \/ \E q \in Producer : pc'[q] = "truncate" /\ object'[q] = o
      <4>1. pc'[p] = "truncate" /\ object'[p] = Len(sized) + 1
        BY <1>1, <1>4, <2>1, <3>2
      <4>2. ASSUME kills = 0, NEW o \in 1..Len(sized)
            PROVE  sized'[o] \/ \E q \in Producer : pc'[q] = "truncate" /\ object'[q] = o
        <5>1. sized[o] \/ \E q \in Producer : pc[q] = "truncate" /\ object[q] = o
          BY <4>2
        <5>2. sized'[o] = sized[o]
          BY <3>2, <4>2
        <5>3. QED
          BY <3>3, <5>1, <5>2
      <4>3. \A o \in 1..Len(sized') : o \in 1..Len(sized) \/ o = Len(sized) + 1
        BY <1>1, <3>2
      <4>4. QED
        BY <1>4, <2>1, <4>1, <4>2, <4>3
    <3>5. /\ \A q \in Producer : pc'[q] \in {"truncate"} \union Writing => object'[q] # 0
          /\ \A c \in Consumer : pc'[c] \in Reading => object'[c] # 0
      BY <1>1, <1>4, <2>1, <3>2
    <3>6. /\ \A q \in Producer : pc'[q] \in Writing => sized'[object'[q]]
          /\ \A c \in Consumer : pc'[c] \in Reading \ {"id"} => sized'[object'[c]]
      BY <1>1, <1>4, <2>1, <3>2
    <3>7. QED
      BY <3>4, <3>5, <3>6
  <2>4. QED
    BY <2>2, <2>3
<1>5. ASSUME NEW p \in Producer, Truncate(p) PROVE SizeInv'
  <2>1. /\ pc[p] = "truncate" /\ object[p] \in 1..Len(sized)
        /\ pc' = [pc EXCEPT ![p] = "id"] /\ sized' = [sized EXCEPT ![object[p]] = TRUE]
        /\ UNCHANGED <<object, kills>>
    BY <1>1, <1>5 DEF Truncate, Goto
  <2>2. /\ Len(sized') = Len(sized) /\ sized'[object[p]]
        /\ \A o \in 1..Len(sized) \ {object[p]} : sized'[o] = sized[o]
    <3>1. TRUE \in BOOLEAN
      OBVIOUS
    <3>2. sized \in Seq(BOOLEAN) /\ object[p] \in 1..Len(sized)
      BY <1>1, <2>1
    <3>3. \A v \in BOOLEAN :
            /\ Len([sized EXCEPT ![object[p]] = v]) = Len(sized)
            /\ [sized EXCEPT ![object[p]] = v][object[p]] = v
            /\ \A o \in 1..Len(sized) \ {object[p]} :
                 [sized EXCEPT ![object[p]] = v][o] = sized[o]
      BY <3>2, ElementReplaced
    <3>4. /\ Len(sized') = Len(sized)
          /\ sized'[object[p]] = TRUE
          /\ \A o \in 1..Len(sized) \ {object[p]} : sized'[o] = sized[o]
      BY <2>1, <3>1, <3>3, Zenon
    <3>5. QED
      BY <3>4, Zenon
  <2>3. \A o \in 1..Len(sized) : sized[o] => sized'[o]
    BY <2>2
  <2>4. kills' = 0 => \A o \in 1..Len(sized') :
          sized'[o] \/ \E q \in Producer : pc'[q] = "truncate" /\ object'[q] = o
    <3>1. ASSUME kills = 0, NEW o \in 1..Len(sized), ~sized'[o]
          PROVE  \E q \in Producer : pc'[q] = "truncate" /\ object'[q] = o
      <4>1. ~sized[o] /\ o # object[p]
        BY <2>2, <2>3, <3>1
      <4>2. PICK q \in Producer : pc[q] = "truncate" /\ object[q] = o
        BY <3>1, <4>1
      <4>3. QED
        BY <1>1, <1>5, <2>1, <4>1, <4>2
    <3>2. QED
      BY <2>1, <2>2, <3>1
  <2>5. QED
    BY <1>1, <1>5, <2>1, <2>2, <2>3, <2>4
<1>6. ASSUME NEW p \in Producer,
             Enter(p, "id", "name") \/ Enter(p, "name", "price") \/ Enter(p, "price", "leave")
               \/ Leave(p)
      PROVE  SizeInv'
  <2>1. /\ pc[p] \in Writing
        /\ pc' = [pc EXCEPT ![p] = pc'[p]] /\ pc'[p] \in Writing \union {"done"}
        /\ pc'[p] \in Writing => object' = object
        /\ object' = object \/ object' = [object EXCEPT ![p] = 0]
        /\ UNCHANGED <<sized, kills>>
    BY <1>1, <1>6 DEF Enter, Leave, Goto
  <2>2. QED
    BY <1>1, <1>6, <2>1
<1>7. ASSUME NEW c \in Consumer, Open(c) PROVE SizeInv'
  BY <1>1, <1>7 DEF Open, Goto
(* Who could read one field can read the others. *)
<1>8. ASSUME NEW c \in Consumer,
             ReadField(c, "id", "name") \/ ReadField(c, "name", "price")
               \/ ReadField(c, "price", "unmap")
      PROVE  SizeInv'
  BY <1>1, <1>8 DEF ReadField
<1>9. ASSUME NEW c \in Consumer, Unmap(c) \/ UnlinkName(c) PROVE SizeInv'
  <2>1. /\ pc[c] # "truncate" /\ pc'[c] \in {"unlink", "done"}
        /\ pc' = [pc EXCEPT ![c] = pc'[c]]
        /\ object' = object \/ object' = [object EXCEPT ![c] = 0]
        /\ UNCHANGED <<sized, kills>>
    BY <1>1, <1>9 DEF Unmap, UnlinkName, Goto
  <2>2. QED
    BY <1>1, <1>9, <2>1
<1>10. CASE UNCHANGED vars
  BY <1>10 DEF vars
<1>11. QED
  BY <1>2, <1>3, <1>4, <1>5, <1>6, <1>7, <1>8, <1>9, <1>10 DEF Next, Produce, Consume

-----------------------------------------------------------------------------
(***************************************************************************)
(* Programs run one at a time                                              *)
(***************************************************************************)
LEMMA Types ==
  ASSUME TypeOK
  PROVE  /\ pc \in [Program -> Steps] /\ object \in [Program -> 0..Len(sized)]
         /\ name \in 0..Len(sized) /\ runs \in Nat /\ run \in [Program -> Nat]
         /\ memory \in Seq([Field -> Nat]) /\ Len(memory) = Len(sized)
         /\ local \in [Consumer -> [Field -> Nat]] /\ printed \in Seq([Field -> Nat])
         /\ Producer \subseteq Program /\ Consumer \subseteq Program
         /\ \A p \in Producer, c \in Consumer : p # c
BY ShmAssumption DEF TypeOK, Program

LEMMA OthersIdle ==
  ASSUME InOrder, NEW p \in Program, Busy(p)
  PROVE  \A q \in Program \ {p} : pc[q] \in Idle
BY DEF InOrder, Alone, Busy

(* What an idle program is in, and what not *)
LEMMA IdleSteps ==
  ASSUME NEW x \in Idle
  PROVE  x \notin {"open", "truncate", "unlink"} \union Writing \union Reading
BY DEF Idle, Writing, Reading

(* All that has been printed is at most as old as the last run. *)
LEMMA PrintedBefore ==
  ASSUME TypeOK, Increasing
  PROVE  \A k \in 1..Len(printed) : printed[k]["id"] \in 1..runs
<1> SUFFICES ASSUME NEW k \in 1..Len(printed) PROVE printed[k]["id"] \in 1..runs
  OBVIOUS
<1>1. PICK v \in 1..runs : printed[k] = Whole(v)
  BY DEF Increasing
<1>2. QED
  BY <1>1 DEF Whole, Field

LEMMA StartInOrder ==
  ASSUME TypeOK, OrderInv, NEW p \in Program, Start(p), orderly'
  PROVE  InOrder'
<1>1. /\ orderly /\ \A q \in Program : pc[q] \in Idle
      /\ pc' = [pc EXCEPT ![p] = "open"] /\ runs' = runs + 1
      /\ run' = [run EXCEPT ![p] = runs + 1]
      /\ UNCHANGED <<name, sized, memory, printed>>
  BY DEF Start
<1>2. InOrder
  BY <1>1 DEF OrderInv
<1>3. /\ \A q \in Program \ {p} : pc'[q] \in Idle
      /\ pc'[p] = "open" /\ run'[p] = runs + 1
  BY <1>1, Types
<1>4. \A k \in 1..Len(printed) : printed[k]["id"] \in 1..runs
  BY <1>2, PrintedBefore DEF InOrder
<1>5. runs \in Nat /\ Producer \subseteq Program /\ Consumer \subseteq Program
  BY Types
<1>6. Alone'
  BY <1>3 DEF Alone, Busy
<1>7. Increasing'
  BY <1>1, <1>2, <1>5 DEF InOrder, Increasing
<1>8. ProducerAtWork' /\ ConsumerAtWork'
  <2>1. Older(runs)'
    BY <1>1, <1>4, <1>5 DEF Older
  <2>2. \A q \in Program : pc'[q] \notin {"truncate"} \union Writing \union Reading
    BY <1>3, IdleSteps DEF Writing, Reading
  <2>3. \A q \in Program : Busy(q)' => q = p
    BY <1>3 DEF Busy
  <2>4. ProducerAtWork'
    BY <1>1, <1>3, <1>5, <2>1, <2>2, <2>3 DEF ProducerAtWork, Writing
  <2>5. ConsumerAtWork'
    BY <1>5, <2>2 DEF ConsumerAtWork, Reading
  <2>6. QED
    BY <2>4, <2>5
<1>9. Awaits'
  <2>1. Between
    BY <1>1, <1>5, IdleSteps DEF Between
  <2>2. Awaits
    BY <1>2, <2>1 DEF InOrder
  <2>3. QED
    BY <1>1, <1>5, <2>2 DEF Awaits, Older
<1>10. QED
  BY <1>6, <1>7, <1>8, <1>9 DEF InOrder

(* A step of the only busy program: the facts about the others are trivial. *)
LEMMA AloneStep ==
  ASSUME TypeOK, InOrder, NEW p \in Program, Busy(p), NEW x, pc' = [pc EXCEPT ![p] = x]
  PROVE  /\ Alone' /\ pc'[p] = x
         /\ \A q \in Program \ {p} : /\ pc'[q] \in Idle /\ ~Busy(q)'
                                     /\ pc'[q] \notin {"open", "truncate", "unlink"}
                                                        \union Writing \union Reading
<1>1. \A q \in Program \ {p} : pc'[q] \in Idle
  BY OthersIdle, Types
<1>2. pc'[p] = x
  BY Types
<1>3. QED
  BY <1>1, <1>2, IdleSteps DEF Alone, Busy

(* A producer's step is in order if it keeps what there is to keep: that   *)
(* it has opened what the name leads to, the fields entered so far, and in *)
(* the end the whole product.                                              *)
LEMMA ProducerStepInOrder ==
  ASSUME TypeOK, InOrder, NEW p \in Producer, Busy(p), NEW x \in ProducerStep,
         pc' = [pc EXCEPT ![p] = x],
         UNCHANGED <<run, runs, printed>>,
         x # "off", x # "open",
         x \in {"truncate"} \union Writing => object'[p] = name',
         x \in {"name", "price", "leave"} => memory'[name']["id"] = runs,
         x \in {"price", "leave"} => memory'[name']["name"] = runs,
         x = "leave" => memory'[name']["price"] = runs,
         x = "done" => Awaits'
  PROVE  InOrder'
<1>1. /\ Alone' /\ pc'[p] = x
      /\ \A q \in Program \ {p} : /\ pc'[q] \in Idle /\ ~Busy(q)'
                                  /\ pc'[q] \notin {"open", "truncate", "unlink"}
                                                     \union Writing \union Reading
  BY AloneStep, Types
<1>2. /\ Producer \subseteq Program /\ Consumer \subseteq Program
      /\ \A c \in Consumer : c # p
  BY Types
<1>3. Increasing'
  BY DEF InOrder, Increasing
<1>4. ConsumerAtWork'
  BY <1>1, <1>2 DEF ConsumerAtWork, Reading
<1>5. ProducerAtWork'
  <2>1. run'[p] = runs' /\ runs' > 0 /\ Older(runs)'
    BY DEF InOrder, ProducerAtWork, Older
  <2>2. QED
    BY <1>1, <1>2, <2>1 DEF ProducerAtWork, Writing
<1>6. Between' => Awaits'
  BY <1>1, <1>2 DEF Between, ProducerStep
<1>7. QED
  BY <1>1, <1>3, <1>4, <1>5, <1>6 DEF InOrder

LEMMA ProduceInOrder ==
  ASSUME TypeOK, SizeInv, InOrder, NEW p \in Producer, Produce(p)
  PROVE  InOrder'
<1>1. /\ pc \in [Program -> Steps] /\ object \in [Program -> 0..Len(sized)] /\ p \in Program
      /\ memory \in Seq([Field -> Nat]) /\ Len(memory) = Len(sized)
      /\ run \in [Program -> Nat] /\ runs \in Nat /\ name \in 0..Len(sized)
  BY Types
<1>2. CASE OpenOrCreate(p)
  <2>1. /\ Busy(p) /\ pc' = [pc EXCEPT ![p] = "truncate"]
        /\ object'[p] = name' /\ UNCHANGED <<run, runs, printed>>
    BY <1>1, <1>2 DEF OpenOrCreate, Goto, Busy, Idle
  <2>2. QED
    BY <2>1, ProducerStepInOrder DEF ProducerStep, Writing
<1>3. CASE Truncate(p)
  <2>1. /\ Busy(p) /\ pc' = [pc EXCEPT ![p] = "id"] /\ pc[p] = "truncate"
        /\ UNCHANGED <<run, runs, printed, object, name>>
    BY <1>1, <1>3 DEF Truncate, Goto, Busy, Idle
  <2>2. object'[p] = name'
    BY <2>1 DEF InOrder, ProducerAtWork
  <2>3. QED
    BY <2>1, <2>2, ProducerStepInOrder DEF ProducerStep, Writing
<1>4. ASSUME NEW f \in Field, NEW x \in Writing, Enter(p, f, x),
             <<f, x>> \in {<<"id", "name">>, <<"name", "price">>, <<"price", "leave">>}
      PROVE  InOrder'
  <2>1. /\ Busy(p) /\ pc[p] = f /\ pc' = [pc EXCEPT ![p] = x]
        /\ memory' = [memory EXCEPT ![object[p]][f] = run[p]]
        /\ UNCHANGED <<run, runs, printed, object, name>>
    BY <1>1, <1>4 DEF Enter, Goto, Busy, Idle, Field
  <2>2. /\ object[p] = name /\ run[p] = runs /\ name \in 1..Len(memory)
        /\ f \in {"name", "price"} => memory[name]["id"] = runs
        /\ f = "price" => memory[name]["name"] = runs
    BY <1>1, <1>4, <2>1 DEF InOrder, ProducerAtWork, SizeInv, Writing
  <2>3. /\ memory'[name][f] = runs
        /\ \A g \in Field \ {f} : memory'[name][g] = memory[name][g]
    BY <1>1, <2>1, <2>2, FieldEntered
  <2>4. /\ memory'[name']["id"] = runs
        /\ x \in {"price", "leave"} => memory'[name']["name"] = runs
        /\ x = "leave" => memory'[name']["price"] = runs
    BY <1>4, <2>1, <2>2, <2>3 DEF Field
  <2>5. object'[p] = name' /\ x \in ProducerStep /\ x # "off" /\ x # "open" /\ x # "done"
    BY <2>1, <2>2 DEF ProducerStep, Writing
  <2>6. QED
    BY <2>1, <2>4, <2>5, ProducerStepInOrder
<1>5. CASE Leave(p)
  <2>1. /\ Busy(p) /\ pc[p] = "leave" /\ pc' = [pc EXCEPT ![p] = "done"]
        /\ UNCHANGED <<run, runs, printed, name, sized, memory>>
    BY <1>1, <1>5 DEF Leave, Goto, Busy, Idle
  <2>2. /\ object[p] = name /\ name \in 1..Len(memory) /\ sized[name]
        /\ runs > 0 /\ Older(runs)
        /\ memory[name]["id"] = runs /\ memory[name]["name"] = runs
        /\ memory[name]["price"] = runs
    BY <1>1, <2>1 DEF InOrder, ProducerAtWork, SizeInv, Writing
  <2>3. memory[name] = Whole(runs)
    <3>1. memory[name] \in [Field -> Nat]
      BY <1>1, <2>2
    <3>2. QED
      BY <2>2, <3>1, WholeFields
  <2>4. runs \in 1..runs
    BY <1>1, <2>2
  <2>5. Awaits
    BY <2>2, <2>3, <2>4 DEF Awaits
  <2>6. Awaits'
    BY <2>1, <2>5 DEF Awaits, Older
  <2>7. QED
    BY <2>1, <2>6, ProducerStepInOrder DEF ProducerStep, Writing
<1>6. QED
  BY <1>2, <1>3, <1>4, <1>5 DEF Produce, Field, Writing


(* A consumer's step is in order if what it has read so far is what the    *)
(* name leads to.                                                          *)
LEMMA ConsumerStepInOrder ==
  ASSUME TypeOK, InOrder, NEW c \in Consumer, Busy(c), NEW x,
         pc' = [pc EXCEPT ![c] = x],
         UNCHANGED <<run, runs>>,
         x \in Reading => object'[c] = name',
         x \in {"name", "price", "unmap"} => local'[c]["id"] = memory'[name']["id"],
         x \in {"price", "unmap"} => local'[c]["name"] = memory'[name']["name"],
         x = "unmap" => local'[c]["price"] = memory'[name']["price"],
         Increasing',
         x # "unlink" => Awaits'
  PROVE  InOrder'
<1>1. /\ Alone' /\ pc'[c] = x
      /\ \A q \in Program \ {c} : /\ pc'[q] \in Idle /\ ~Busy(q)'
                                  /\ pc'[q] \notin {"open", "truncate", "unlink"}
                                                     \union Writing \union Reading
  BY AloneStep, Types
<1>2. /\ Producer \subseteq Program /\ Consumer \subseteq Program
      /\ \A p \in Producer : p # c
  BY Types
<1>3. ProducerAtWork'
  BY <1>1, <1>2 DEF ProducerAtWork, Writing
<1>4. ConsumerAtWork'
  BY <1>1, <1>2 DEF ConsumerAtWork, Reading
<1>5. Between' => Awaits'
  BY <1>1, <1>2 DEF Between
<1>6. QED
  BY <1>1, <1>3, <1>4, <1>5 DEF InOrder

LEMMA ConsumeInOrder ==
  ASSUME TypeOK, SizeInv, InOrder, NEW c \in Consumer, Consume(c)
  PROVE  InOrder'
<1>1. /\ pc \in [Program -> Steps] /\ object \in [Program -> 0..Len(sized)] /\ c \in Program
      /\ memory \in Seq([Field -> Nat]) /\ Len(memory) = Len(sized)
      /\ local \in [Consumer -> [Field -> Nat]] /\ printed \in Seq([Field -> Nat])
      /\ runs \in Nat /\ name \in 0..Len(sized)
      /\ Producer \subseteq Program /\ Consumer \subseteq Program
      /\ \A p \in Producer : p # c
  BY Types
<1>2. Busy(c) /\ UNCHANGED <<sized, memory, run, runs>>
  BY DEF Consume, Open, ReadField, Unmap, UnlinkName, Goto, Busy, Idle
<1>3. ASSUME pc[c] # "unlink" PROVE Awaits
  <2>1. Between
    BY <1>1, <1>2, <1>3, OthersIdle, IdleSteps DEF Between
  <2>2. QED
    BY <2>1 DEF InOrder
<1>4. ASSUME UNCHANGED printed PROVE Increasing'
  BY <1>2, <1>4 DEF InOrder, Increasing
<1>5. ASSUME UNCHANGED <<name, printed>>, Awaits PROVE Awaits'
  BY <1>2, <1>5 DEF Awaits, Older
<1>6. CASE Open(c)
  <2>1. /\ pc[c] = "open" /\ pc' = [pc EXCEPT ![c] = IF name = 0 THEN "failed" ELSE "id"]
        /\ object'[c] = name' /\ UNCHANGED <<name, printed, local>>
    BY <1>1, <1>6 DEF Open, Goto
  <2> DEFINE x == IF name = 0 THEN "failed" ELSE "id"
  <2>2. x \in {"failed", "id"}
    OBVIOUS
  <2>3. pc' = [pc EXCEPT ![c] = x]
    BY <2>1
  <2> HIDE DEF x
  <2>4. Awaits' /\ Increasing'
    BY <1>3, <1>4, <1>5, <2>1
  <2>5. QED
    BY <1>2, <2>1, <2>2, <2>3, <2>4, ConsumerStepInOrder DEF Reading
<1>7. ASSUME NEW f \in Field, NEW x \in Reading, ReadField(c, f, x),
             <<f, x>> \in {<<"id", "name">>, <<"name", "price">>, <<"price", "unmap">>}
      PROVE  InOrder'
  <2>1. pc[c] = f /\ object[c] = name /\ UNCHANGED <<name, printed>>
    BY <1>7 DEF ReadField, InOrder, ConsumerAtWork, Reading, Field
  <2>2. Awaits' /\ Increasing'
    BY <1>3, <1>4, <1>5, <2>1 DEF Field
  <2>3. CASE sized[object[c]]
    <3>1. /\ pc' = [pc EXCEPT ![c] = x] /\ object' = object
          /\ local' = [local EXCEPT ![c][f] = memory[name][f]]
      BY <1>7, <2>1, <2>3 DEF ReadField
    <3>2. /\ local'[c][f] = memory'[name'][f]
          /\ \A g \in Field \ {f} : local'[c][g] = local[c][g]
      BY <1>1, <1>2, <2>1, <3>1
    <3>3. /\ f \in {"name", "price"} => local[c]["id"] = memory'[name']["id"]
          /\ f = "price" => local[c]["name"] = memory'[name']["name"]
      BY <1>2, <2>1 DEF InOrder, ConsumerAtWork
    <3>4. /\ local'[c]["id"] = memory'[name']["id"]
          /\ x \in {"price", "unmap"} => local'[c]["name"] = memory'[name']["name"]
          /\ x = "unmap" => local'[c]["price"] = memory'[name']["price"]
      BY <1>7, <3>2, <3>3 DEF Field
    <3>5. object'[c] = name'
      BY <2>1, <3>1
    <3>6. QED
      BY <1>2, <2>2, <3>1, <3>4, <3>5, ConsumerStepInOrder
  <2>4. CASE ~sized[object[c]]
    <3>1. pc' = [pc EXCEPT ![c] = "bus"]
      BY <1>7, <2>4 DEF ReadField
    <3>2. QED
      BY <1>2, <2>2, <3>1, ConsumerStepInOrder DEF Reading
  <2>5. QED
    BY <2>3, <2>4
<1>8. CASE Unmap(c)
  <2>1. /\ pc[c] = "unmap" /\ pc' = [pc EXCEPT ![c] = "unlink"]
        /\ printed' = Append(printed, local[c])
    BY <1>8 DEF Unmap, Goto
  <2>2. /\ object[c] = name /\ name \in 1..Len(memory)
        /\ local[c]["id"] = memory[name]["id"] /\ local[c]["name"] = memory[name]["name"]
        /\ local[c]["price"] = memory[name]["price"]
    BY <1>1, <2>1 DEF InOrder, ConsumerAtWork, SizeInv, Reading
  <2>3. PICK v \in 1..runs : memory[name] = Whole(v) /\ Older(v)
    BY <1>3, <2>1, <2>2 DEF Awaits
  <2>4. local[c] = Whole(v) /\ local[c] \in [Field -> Nat] /\ local[c]["id"] = v
    <3>1. memory[name] \in [Field -> Nat] /\ local[c] \in [Field -> Nat]
      BY <1>1, <2>2
    <3>2. memory[name]["id"] = v /\ memory[name]["name"] = v /\ memory[name]["price"] = v
      BY <2>3, <3>1, WholeFields
    <3>3. QED
      BY <2>2, <3>1, <3>2, WholeFields
  <2>5. /\ Len(printed') = Len(printed) + 1
        /\ \A k \in 1..Len(printed) : printed'[k] = printed[k]
        /\ printed'[Len(printed) + 1] = local[c]
    BY <1>1, <2>1, <2>4
  <2>6. Increasing'
    <3>1. ASSUME NEW k \in 1..Len(printed')
          PROVE  /\ \E u \in 1..runs' : printed'[k] = Whole(u)
                 /\ \A j \in 1..(k - 1) : printed'[j]["id"] < printed'[k]["id"]
      <4>1. CASE k \in 1..Len(printed)
        <5>1. \A j \in 1..(k - 1) : j \in 1..Len(printed)
          BY <1>1, <4>1
        <5>2. /\ \E u \in 1..runs : printed[k] = Whole(u)
              /\ \A j \in 1..(k - 1) : printed[j]["id"] < printed[k]["id"]
          BY <4>1 DEF InOrder, Increasing
        <5>3. QED
          BY <1>2, <2>5, <4>1, <5>1, <5>2
      <4>2. CASE k = Len(printed) + 1
        <5>1. \A j \in 1..(k - 1) : j \in 1..Len(printed)
          BY <1>1, <4>2
        <5>2. \A j \in 1..Len(printed) : printed[j]["id"] < v
          BY <2>3 DEF Older
        <5>3. QED
          BY <1>2, <2>3, <2>4, <2>5, <4>2, <5>1, <5>2
      <4>3. QED
        BY <1>1, <2>5, <3>1, <4>1, <4>2
    <3>2. QED
      BY <3>1 DEF Increasing
  <2>7. QED
    BY <1>2, <2>1, <2>6, ConsumerStepInOrder DEF Reading
<1>9. CASE UnlinkName(c)
  <2>1. pc' = [pc EXCEPT ![c] = "done"] /\ name' = 0 /\ UNCHANGED printed
    BY <1>9 DEF UnlinkName, Goto
  <2>2. Awaits' /\ Increasing'
    BY <1>4, <2>1 DEF Awaits
  <2>3. QED
    BY <1>2, <2>1, <2>2, ConsumerStepInOrder DEF Reading
<1>10. QED
  BY <1>6, <1>7, <1>8, <1>9 DEF Consume, Field, Reading

LEMMA OrderStep == TypeOK /\ SizeInv /\ OrderInv /\ [Next]_vars => OrderInv'
<1> SUFFICES ASSUME TypeOK, SizeInv, OrderInv, [Next]_vars, orderly' PROVE InOrder'
  BY DEF OrderInv
<1>1. ASSUME NEW p \in Program, Start(p) PROVE InOrder'
  BY <1>1, StartInOrder
<1>2. ASSUME NEW p \in Program, KillProgram(p) PROVE FALSE
  BY <1>2 DEF KillProgram
<1>3. ASSUME NEW p \in Producer, Produce(p) PROVE InOrder'
  <2>1. orderly
    BY <1>3 DEF Produce, OpenOrCreate, Truncate, Enter, Leave
  <2>2. QED
    BY <1>3, <2>1, ProduceInOrder DEF OrderInv
<1>4. ASSUME NEW c \in Consumer, Consume(c) PROVE InOrder'
  <2>1. orderly
    BY <1>4 DEF Consume, Open, ReadField, Unmap, UnlinkName
  <2>2. QED
    BY <1>4, <2>1, ConsumeInOrder DEF OrderInv
<1>5. CASE UNCHANGED vars
  BY <1>5
  DEF vars, OrderInv, InOrder, Alone, Busy, Increasing, ProducerAtWork, ConsumerAtWork,
      Between, Awaits, Older
<1>6. QED
  BY <1>1, <1>2, <1>3, <1>4, <1>5 DEF Next

(***************************************************************************)
(* The theorems                                                            *)
(***************************************************************************)

(* The inductive invariant holds in every reachable state. *)
THEOREM ProductInvariance == Spec => []IInv
<1>1. IInv /\ [Next]_vars => IInv'
  BY TypeStep, SizeStep, OrderStep DEF IInv
<1>2. QED
  BY <1>1, InitIInv, PTL DEF Spec

(* Run one at a time and to the end, however often and in whatever order,  *)
(* the programs print whole products, each at most once and in order.      *)
THEOREM WholeProductsArePrintedOnce == Spec => []PrintsWholeProductsOnce
<1>1. IInv => PrintsWholeProductsOnce
  <2> SUFFICES ASSUME IInv, orderly, NEW k \in DOMAIN printed
               PROVE  /\ \E v \in Versions \ {0} : printed[k] = Whole(v)
                      /\ \A j \in 1..(k - 1) : printed[j].id < printed[k].id
    BY DEF PrintsWholeProductsOnce
  <2>1. Increasing /\ printed \in Seq([Field -> Nat]) /\ runs \in 0..MaxRuns
    BY DEF IInv, OrderInv, InOrder, TypeOK
  <2>2. k \in 1..Len(printed)
    BY <2>1
  <2>3. /\ \E v \in 1..runs : printed[k] = Whole(v)
        /\ \A j \in 1..(k - 1) : printed[j]["id"] < printed[k]["id"]
    BY <2>1, <2>2 DEF Increasing
  <2>4. 1..runs \subseteq Versions \ {0}
    BY <2>1, ShmAssumption DEF Versions
  <2>5. QED
    BY <2>3, <2>4
<1>2. QED
  BY <1>1, ProductInvariance, PTL

(* In such use the object is there, when nobody runs, only while it holds  *)
(* a product nobody has printed.                                           *)
THEOREM OnlyNewsIsLeft == Spec => []NothingLeftBehind
<1>1. IInv => NothingLeftBehind
  <2> SUFFICES ASSUME IInv, orderly, \A p \in Program : pc[p] \in Idle, name # 0,
                      NEW k \in DOMAIN printed
               PROVE  printed[k].id < memory[name].id
    BY DEF NothingLeftBehind
  <2>1. Between
    BY IdleSteps, Types DEF IInv, Between
  <2>2. Awaits
    BY <2>1 DEF IInv, OrderInv, InOrder
  <2>3. PICK v \in 1..runs : memory[name] = Whole(v) /\ Older(v)
    BY <2>2 DEF Awaits
  <2>4. k \in 1..Len(printed)
    BY DEF IInv, TypeOK
  <2>5. printed[k]["id"] < v /\ memory[name]["id"] = v
    BY <2>3, <2>4 DEF Older, Whole, Field
  <2>6. QED
    BY <2>5
<1>2. QED
  BY <1>1, ProductInvariance, PTL

(* Whoever runs beside whom, a consumer dies of SIGBUS only at its first   *)
(* field, and only while a producer is between shm_open and ftruncate or   *)
(* after one was killed.                                                   *)
THEOREM BusErrorsInWindowOnly == Spec => BusErrorOnlyInWindow
<1> DEFINE InWindow ==
      \A c \in Consumer :
        pc'[c] = "bus" /\ pc[c] # "bus" =>
          /\ pc[c] = "id"
          /\ \/ kills > 0
             \/ \E p \in Producer : pc[p] = "truncate" /\ object[p] = object[c]
<1>1. IInv /\ [Next]_vars => [InWindow]_vars
  <2> SUFFICES ASSUME IInv, [Next]_vars, NEW c \in Consumer, pc'[c] = "bus", pc[c] # "bus"
               PROVE  /\ pc[c] = "id"
                      /\ \/ kills > 0
                         \/ \E p \in Producer : pc[p] = "truncate" /\ object[p] = object[c]
    OBVIOUS
  <2>1. /\ pc \in [Program -> Steps] /\ c \in Program /\ Producer \subseteq Program
        /\ Consumer \subseteq Program /\ object \in [Program -> 0..Len(sized)]
        /\ kills \in Nat /\ sized \in Seq(BOOLEAN)
    BY Types DEF IInv, TypeOK
  <2>2. PICK x \in Reading : \/ ReadField(c, "id", x) \/ ReadField(c, "name", x)
                            \/ ReadField(c, "price", x)
    <3>1. ASSUME NEW p \in Program, Start(p) \/ KillProgram(p) PROVE FALSE
      BY <2>1, <3>1 DEF Start, KillProgram
    <3>2. ASSUME NEW p \in Producer, Produce(p) PROVE FALSE
      BY <2>1, <3>2 DEF Produce, OpenOrCreate, Truncate, Enter, Leave, Goto
    <3>3. ASSUME NEW d \in Consumer, Open(d) \/ Unmap(d) \/ UnlinkName(d) PROVE FALSE
      BY <2>1, <3>3 DEF Open, Unmap, UnlinkName, Goto
    <3>4. ASSUME NEW d \in Consumer, NEW f, NEW x, ReadField(d, f, x) PROVE d = c
      BY <2>1, <3>4 DEF ReadField
    <3>5. QED
      BY <3>1, <3>2, <3>3, <3>4 DEF Next, Consume, vars, Reading
  <2>3. ~sized[object[c]]
    BY <2>1, <2>2 DEF ReadField, IInv, SizeInv, Reading
  <2>4. pc[c] = "id"
    BY <2>1, <2>2, <2>3 DEF ReadField, IInv, SizeInv, Reading
  <2>5. object[c] \in 1..Len(sized)
    BY <2>1, <2>4 DEF IInv, SizeInv, Reading
  <2>6. QED
    BY <2>1, <2>3, <2>4, <2>5 DEF IInv, SizeInv
<1>2. QED
  BY <1>1, ProductInvariance, PTL DEF Spec, BusErrorOnlyInWindow
=============================================================================
