-------------------------- MODULE TaskQueueProofs ---------------------------
(***************************************************************************)
(* For every number of workers and dispatchers, every capacity and every   *)
(* number of restarts, signals and crashes: workers that end by Ctrl+C     *)
(* leave no queue, a worker that is alone listens to the queue that has    *)
(* the name, and the task queue implements TaskPromise.                    *)
(***************************************************************************)
EXTENDS TaskQueue, SequenceTheorems, FiniteSetTheorems, TLAPS

WorkerPhase ==
  {"off", "start", "unlink", "create", "assign", "receive", "print", "close", "forget"}
DispatcherPhase == {"start", "send", "sent", "refused", "done", "failed"}

(* The queues there are or have been, and no queue *)
QueueId == 0..Len(queue)

TypeOK ==
  /\ name \in QueueId
  /\ queue \in Seq(Seq(Dispatcher))
  /\ wpc \in [Worker -> WorkerPhase]
  /\ mq_desc \in [Worker -> QueueId]
  /\ opened \in [Worker -> QueueId]
  /\ buffer \in [Worker -> Dispatcher \union {NoTask}]
  /\ runs \in [Worker -> Nat]
  /\ signals \in Nat /\ crashes \in Nat
  /\ dpc \in [Dispatcher -> DispatcherPhase]
  /\ request \in Requests
  /\ sendto \in [Dispatcher -> QueueId]
  /\ printed \in [Dispatcher -> Nat]

(* A worker that listens has its queue open and a task while it prints; a  *)
(* dispatcher that sends has its queue open.                               *)
Shape ==
  /\ \A w \in Worker : runs[w] = 0 => wpc[w] = "off"
  /\ \A w \in Worker : wpc[w] \in {"assign", "receive", "print"} => opened[w] # NoQueue
  /\ \A w \in Worker : Listening(w) => mq_desc[w] = opened[w]
  /\ \A w \in Worker : wpc[w] = "print" => buffer[w] # NoTask
  /\ \A w \in Worker : wpc[w] \notin {"print", "close", "forget"} => buffer[w] = NoTask
  /\ \A d \in Dispatcher : dpc[d] = "send" => sendto[d] # NoQueue

(* Some worker is on its way to the mq_unlink of its handler, if nobody    *)
(* was killed and the name is there.                                       *)
WillCleanUp ==
  crashes = 0 /\ name # NoQueue =>
    \E w \in Worker : wpc[w] \in {"assign", "receive", "print", "close", "forget"}

(* Nobody deletes the name between a lone worker's mq_open and its end.    *)
KeepsName ==
  Lone => \A w \in Worker :
            wpc[w] \in {"assign", "receive", "print"} => name = opened[w]

(* A task is in one place at most, and in none before it was accepted.     *)
InQueue(d)  == \E q \in Queues : \E i \in DOMAIN queue[q] : queue[q][i] = d
InHand(d)   == \E w \in Worker : buffer[w] = d
Waiting(d)  == \E q \in Queues : Exists(q) /\ \E i \in DOMAIN queue[q] : queue[q][i] = d
Accepted(d) == dpc[d] \in {"sent", "done"}
Finished(d) == printed[d] # 0

OnePlace ==
  /\ \A d \in Dispatcher : printed[d] <= 1
  /\ \A d \in Dispatcher : Finished(d) \/ InHand(d) \/ InQueue(d) => Accepted(d)
  /\ \A d \in Dispatcher : Finished(d) => ~InHand(d) /\ ~InQueue(d)
  /\ \A d \in Dispatcher : InHand(d) => ~InQueue(d)
  /\ \A v, w \in Worker : buffer[v] = buffer[w] /\ buffer[v] # NoTask => v = w
  /\ \A p, q \in Queues : \A i \in DOMAIN queue[p], j \in DOMAIN queue[q] :
       queue[p][i] = queue[q][j] => p = q /\ i = j

IInv == TypeOK /\ Shape /\ WillCleanUp /\ KeepsName /\ OnePlace

-----------------------------------------------------------------------------
(* What is left of a sequence without its i-th element *)
LEMMA WithoutProperties ==
  ASSUME NEW T, NEW s \in Seq(T), NEW i \in DOMAIN s
  PROVE  /\ Without(s, i) \in Seq(T)
         /\ Len(Without(s, i)) = Len(s) - 1
         /\ \A j \in DOMAIN Without(s, i) :
              Without(s, i)[j] = IF j < i THEN s[j] ELSE s[j + 1]
  <1> DEFINE a == SubSeq(s, 1, i - 1)
             b == SubSeq(s, i + 1, Len(s))
  <1>1. i \in 1..Len(s) /\ Len(s) \in Nat
    BY LenProperties
  <1>2. /\ a \in Seq(T) /\ Len(a) = i - 1
        /\ \A j \in 1..(i - 1) : a[j] = s[j]
    BY <1>1, SubSeqProperties
  <1>3. /\ b \in Seq(T) /\ Len(b) = Len(s) - i
        /\ \A j \in 1..(Len(s) - i) : b[j] = s[i + j]
    BY <1>1, SubSeqProperties
  <1> HIDE DEF a, b
  <1>4. /\ a \o b \in Seq(T) /\ Len(a \o b) = Len(s) - 1
        /\ \A j \in 1..(Len(s) - 1) :
             (a \o b)[j] = IF j <= i - 1 THEN a[j] ELSE b[j - (i - 1)]
    <2>1. Len(a \o b) = Len(a) + Len(b) /\ a \o b \in Seq(T)
      BY <1>2, <1>3, ConcatProperties
    <2>2. \A j \in 1..(Len(a) + Len(b)) :
             (a \o b)[j] = IF j <= Len(a) THEN a[j] ELSE b[j - Len(a)]
      BY <1>2, <1>3, ConcatProperties
    <2>3. Len(a) = i - 1 /\ Len(a) + Len(b) = Len(s) - 1
      BY <1>1, <1>2, <1>3
    <2>4. QED
      BY <2>1, <2>2, <2>3
  <1>5. DOMAIN (a \o b) = 1..(Len(s) - 1)
    BY <1>4, LenProperties
  <1>6. ASSUME NEW j \in 1..(Len(s) - 1)
        PROVE  (a \o b)[j] = IF j < i THEN s[j] ELSE s[j + 1]
    <2>1. CASE j < i
      BY <1>1, <1>2, <1>4, <2>1
    <2>2. CASE ~(j < i)
      <3>1. j - (i - 1) \in 1..(Len(s) - i) /\ i + (j - (i - 1)) = j + 1
        BY <1>1, <2>2
      <3>2. (a \o b)[j] = b[j - (i - 1)]
        BY <1>1, <1>4, <2>2
      <3>3. QED
        BY <1>3, <2>2, <3>1, <3>2
    <2>3. QED
      BY <2>1, <2>2
  <1>7. QED
    BY <1>4, <1>5, <1>6 DEF Without, a, b

(* What a worker receives, it receives from the queue it has open.         *)
LEMMA ReceiveFacts ==
  ASSUME TypeOK, Shape, NEW w \in Worker, Receive(w)
  PROVE  \E q \in Queues : \E i \in DOMAIN queue[q] :
           /\ q = opened[w]
           /\ queue[q] \in Seq(Dispatcher) /\ queue[q][i] \in Dispatcher
           /\ buffer' = [buffer EXCEPT ![w] = queue[q][i]]
           /\ queue' = [queue EXCEPT ![q] = Without(queue[q], i)]
  <1> DEFINE q == mq_desc[w]
  <1>1. PICK i \in DOMAIN queue[q] :
           /\ buffer' = [buffer EXCEPT ![w] = queue[q][i]]
           /\ queue' = [queue EXCEPT ![q] = Without(queue[q], i)]
    BY DEF Receive
  <1>2. q = opened[w] /\ q \in 1..Len(queue)
    BY LenProperties DEF Receive, WorkerGoto, Shape, Listening, TypeOK, QueueId, NoQueue
  <1>3. q \in Queues /\ queue[q] \in Seq(Dispatcher)
    BY <1>2, ElementOfSeq, LenProperties DEF TypeOK, Queues
  <1>4. queue[q][i] \in Dispatcher
    BY <1>3, ElementOfSeq, LenProperties
  <1>5. QED
    BY <1>1, <1>2, <1>3, <1>4

(* A lone worker is the only one that runs. *)
LEMMA LoneRuns ==
  ASSUME TypeOK, Shape, Lone, NEW v \in Worker, NEW w \in Worker,
         wpc[v] # "off", wpc[w] # "off"
  PROVE  v = w
  <1>1. runs[v] \in Nat /\ runs[w] \in Nat /\ runs[v] # 0 /\ runs[w] # 0
    BY DEF TypeOK, Shape
  <1>2. QED
    BY <1>1 DEF Lone

-----------------------------------------------------------------------------
LEMMA TypePreserved ==
  ASSUME TypeOK, Shape, [Next]_vars PROVE TypeOK'
  <1> USE TaskQueueAssumption DEF TypeOK, QueueId, NoQueue
  <1>1. Len(queue) \in Nat
    BY LenProperties
  <1>2. ASSUME NEW w \in Worker,
               \/ Start(w) \/ RegisterHandler(w) \/ UnlinkOld(w) \/ AssignDescriptor(w)
               \/ Process(w) \/ CloseQueue(w) \/ ForgetQueue(w) \/ CreateFails(w)
               \/ Interrupt(w) \/ Crash(w)
        PROVE  TypeOK'
    <2> USE DEF WorkerGoto, WorkerPhase, ProcessEnds, Unlink, dispatcher_vars
    <2>1. CASE Start(w)
      BY <2>1 DEF Start
    <2>2. CASE RegisterHandler(w)
      BY <2>2 DEF RegisterHandler
    <2>3. CASE UnlinkOld(w)
      BY <1>1, <2>3 DEF UnlinkOld
    <2>4. CASE AssignDescriptor(w)
      BY <2>4 DEF AssignDescriptor
    <2>5. CASE Process(w)
      BY <2>5 DEF Process, Shape
    <2>6. CASE CloseQueue(w)
      BY <1>1, <2>6 DEF CloseQueue
    <2>7. CASE ForgetQueue(w)
      BY <1>1, <2>7 DEF ForgetQueue
    <2>8. CASE CreateFails(w)
      BY <1>1, <2>8 DEF CreateFails
    <2>9. CASE Interrupt(w)
      <3>1. CASE wpc[w] = "start" /\ ProcessEnds(w)
        BY <1>1, <2>9, <3>1 DEF Interrupt
      <3>2. CASE ~(wpc[w] = "start" /\ ProcessEnds(w))
        <4>1. wpc' = [wpc EXCEPT ![w] = "close"] /\ UNCHANGED <<mq_desc, opened, buffer>>
          BY <2>9, <3>2 DEF Interrupt
        <4>2. QED
          BY <2>9, <4>1 DEF Interrupt
      <3>3. QED
        BY <3>1, <3>2
    <2>10. CASE Crash(w)
      BY <1>1, <2>10 DEF Crash
    <2>11. QED
      BY <1>2, <2>1, <2>2, <2>3, <2>4, <2>5, <2>6, <2>7, <2>8, <2>9, <2>10
  <1>3. ASSUME NEW w \in Worker, CreateQueue(w) PROVE TypeOK'
    <2>1. queue' \in Seq(Seq(Dispatcher)) /\ Len(queue') \in Nat /\ Len(queue') >= Len(queue)
          /\ name' \in 0..Len(queue')
      <3>1. << >> \in Seq(Dispatcher)
        BY EmptySeq
      <3>2. Append(queue, << >>) \in Seq(Seq(Dispatcher))
            /\ Len(Append(queue, << >>)) = Len(queue) + 1
        BY <3>1, AppendProperties
      <3>3. CASE name = NoQueue
        <4>1. queue' = Append(queue, << >>) /\ name' = Len(queue')
          BY <1>3, <3>3 DEF CreateQueue
        <4>2. QED
          BY <1>1, <3>2, <4>1
      <3>4. CASE name # NoQueue
        BY <1>1, <1>3, <3>4 DEF CreateQueue
      <3>5. QED
        BY <3>3, <3>4
    <2>2. QED
      BY <1>1, <1>3, <2>1 DEF CreateQueue, WorkerGoto, WorkerPhase, dispatcher_vars
  <1>4. ASSUME NEW w \in Worker, Receive(w) PROVE TypeOK'
    <2>1. PICK q \in Queues : \E i \in DOMAIN queue[q] :
             /\ q = opened[w]
             /\ queue[q] \in Seq(Dispatcher) /\ queue[q][i] \in Dispatcher
             /\ buffer' = [buffer EXCEPT ![w] = queue[q][i]]
             /\ queue' = [queue EXCEPT ![q] = Without(queue[q], i)]
      BY <1>4, ReceiveFacts
    <2>2. PICK i \in DOMAIN queue[q] :
             /\ queue[q] \in Seq(Dispatcher) /\ queue[q][i] \in Dispatcher
             /\ buffer' = [buffer EXCEPT ![w] = queue[q][i]]
             /\ queue' = [queue EXCEPT ![q] = Without(queue[q], i)]
      BY <2>1
    <2>3. Without(queue[q], i) \in Seq(Dispatcher) /\ q \in 1..Len(queue)
      BY <2>2, WithoutProperties, LenProperties DEF Queues
    <2>4. queue' \in Seq(Seq(Dispatcher)) /\ Len(queue') = Len(queue)
      BY <2>2, <2>3, ExceptSeq
    <2>5. QED
      BY <1>4, <2>2, <2>4 DEF Receive, WorkerGoto, WorkerPhase, dispatcher_vars
  <1>5. ASSUME NEW d \in Dispatcher, Send(d) PROVE TypeOK'
    <2>1. sendto[d] \in 1..Len(queue) /\ queue[sendto[d]] \in Seq(Dispatcher)
      BY <1>1, <1>5, ElementOfSeq DEF Send, Shape
    <2>2. queue' \in Seq(Seq(Dispatcher)) /\ Len(queue') = Len(queue)
      BY <1>5, <2>1, AppendProperties, ExceptSeq DEF Send
    <2>3. QED
      BY <1>5, <2>2 DEF Send, DispatcherPhase, worker_vars
  <1>6. ASSUME NEW d \in Dispatcher, OpenQueue(d) \/ OpenFails(d) \/ SendFails(d) \/ Leave(d)
        PROVE  TypeOK'
    <2> USE DEF DispatcherPhase, worker_vars
    <2>1. CASE OpenQueue(d)
      BY <2>1 DEF OpenQueue
    <2>2. CASE OpenFails(d)
      BY <2>2 DEF OpenFails
    <2>3. CASE SendFails(d)
      BY <2>3 DEF SendFails
    <2>4. CASE Leave(d)
      <3>1. 0 \in 0..Len(queue)
        BY <1>1
      <3>2. QED
        BY <2>4, <3>1 DEF Leave
    <2>5. QED
      BY <1>6, <2>1, <2>2, <2>3, <2>4
  <1>7. CASE UNCHANGED vars
    BY <1>7 DEF vars, worker_vars, dispatcher_vars
  <1>8. QED
    BY <1>2, <1>3, <1>4, <1>5, <1>6, <1>7 DEF Next, WorkerStep, DispatcherStep

LEMMA ShapePreserved ==
  ASSUME TypeOK, Shape, [Next]_vars PROVE Shape'
  <1> USE TaskQueueAssumption DEF TypeOK, Shape, Listening, WorkerPhase, QueueId, NoQueue
  <1>1. ASSUME NEW w \in Worker,
               Start(w) \/ WorkerStep(w) \/ CreateFails(w) \/ Interrupt(w) \/ Crash(w)
        PROVE  Shape'
    <2> USE DEF WorkerGoto, ProcessEnds, Unlink, dispatcher_vars
    <2>1. CASE Start(w)
      BY <2>1 DEF Start
    <2>2. CASE RegisterHandler(w)
      BY <2>2 DEF RegisterHandler
    <2>3. CASE UnlinkOld(w)
      BY <2>3 DEF UnlinkOld
    <2>4. CASE CreateQueue(w)
      BY <2>4 DEF CreateQueue
    <2>5. CASE AssignDescriptor(w)
      BY <2>5 DEF AssignDescriptor
    <2>6. CASE Receive(w)
      <3>1. buffer'[w] \in Dispatcher
        <4>1. PICK x \in Dispatcher : buffer' = [buffer EXCEPT ![w] = x]
          BY <2>6, ReceiveFacts
        <4>2. QED
          BY <4>1
      <3>2. PICK x : buffer' = [buffer EXCEPT ![w] = x]
        BY <2>6 DEF Receive
      <3>3. QED
        BY <2>6, <3>1, <3>2 DEF Receive, NoTask
    <2>7. CASE Process(w)
      BY <2>7 DEF Process
    <2>8. CASE CloseQueue(w)
      BY <2>8 DEF CloseQueue
    <2>9. CASE ForgetQueue(w)
      BY <2>9 DEF ForgetQueue
    <2>10. CASE CreateFails(w)
      BY <2>10 DEF CreateFails
    <2>11. CASE Interrupt(w)
      <3>1. CASE wpc[w] = "start" /\ ProcessEnds(w)
        BY <2>11, <3>1 DEF Interrupt
      <3>2. CASE ~(wpc[w] = "start" /\ ProcessEnds(w))
        <4>1. /\ wpc[w] \in {"unlink", "create", "assign", "receive", "print"}
              /\ wpc' = [wpc EXCEPT ![w] = "close"] /\ UNCHANGED <<mq_desc, opened, buffer>>
          BY <2>11, <3>2 DEF Interrupt
        <4>2. QED
          BY <2>11, <4>1 DEF Interrupt
      <3>3. QED
        BY <3>1, <3>2
    <2>12. CASE Crash(w)
      BY <2>12 DEF Crash
    <2>13. QED
      BY <1>1, <2>1, <2>2, <2>3, <2>4, <2>5, <2>6, <2>7, <2>8, <2>9, <2>10, <2>11, <2>12
         DEF WorkerStep
  <1>2. ASSUME NEW d \in Dispatcher, DispatcherStep(d) PROVE Shape'
    <2> USE DEF worker_vars
    <2>1. CASE OpenQueue(d)
      BY <2>1 DEF OpenQueue
    <2>2. CASE OpenFails(d)
      BY <2>2 DEF OpenFails
    <2>3. CASE Send(d)
      BY <2>3 DEF Send
    <2>4. CASE SendFails(d)
      BY <2>4 DEF SendFails
    <2>5. CASE Leave(d)
      BY <2>5 DEF Leave
    <2>6. QED
      BY <1>2, <2>1, <2>2, <2>3, <2>4, <2>5 DEF DispatcherStep
  <1>3. CASE UNCHANGED vars
    BY <1>3 DEF vars, worker_vars, dispatcher_vars
  <1>4. QED
    BY <1>1, <1>2, <1>3 DEF Next

LEMMA NamePreserved ==
  ASSUME TypeOK, Shape, WillCleanUp, KeepsName, [Next]_vars PROVE WillCleanUp' /\ KeepsName'
  <1> USE TaskQueueAssumption DEF TypeOK, Shape, WillCleanUp, KeepsName, Lone, Listening, WorkerPhase, QueueId, NoQueue
  <1>1. ASSUME NEW w \in Worker,
               Start(w) \/ WorkerStep(w) \/ CreateFails(w) \/ Interrupt(w) \/ Crash(w)
        PROVE  WillCleanUp' /\ KeepsName'
    <2> USE DEF WorkerGoto, ProcessEnds, Unlink, dispatcher_vars
    <2>1. CASE Start(w)
      <3>1. WillCleanUp'
        BY <2>1 DEF Start
      <3>2. SUFFICES ASSUME Lone', NEW v \in Worker, wpc'[v] \in {"assign", "receive", "print"}
                     PROVE  name' = opened'[v]
        BY <3>1
      <3>3. Lone
        <4>1. \A u \in Worker : runs[u] > 0 => runs'[u] > 0
          BY <2>1 DEF Start
        <4>2. QED
          BY <3>2, <4>1
      <3>4. wpc[v] = wpc'[v]
        BY <2>1, <3>2 DEF Start
      <3>5. QED
        BY <2>1, <3>2, <3>3, <3>4 DEF Start
    <2>2. CASE RegisterHandler(w)
      BY <2>2 DEF RegisterHandler
    <2>3. CASE UnlinkOld(w)
      <3>1. WillCleanUp'
        BY <2>3 DEF UnlinkOld
      <3>2. SUFFICES ASSUME Lone', NEW v \in Worker, wpc'[v] \in {"assign", "receive", "print"}
                     PROVE  FALSE
        BY <3>1
      <3>3. Lone /\ wpc[v] # "off" /\ wpc[w] # "off" /\ v # w
        BY <2>3, <3>2 DEF UnlinkOld
      <3>4. QED
        BY <3>3, LoneRuns
    <2>4. CASE CreateQueue(w)
      BY <2>4 DEF CreateQueue
    <2>5. CASE AssignDescriptor(w)
      BY <2>5 DEF AssignDescriptor
    <2>6. CASE Receive(w)
      BY <2>6 DEF Receive
    <2>7. CASE Process(w)
      BY <2>7 DEF Process
    <2>8. CASE CloseQueue(w)
      BY <2>8 DEF CloseQueue
    <2>9. CASE ForgetQueue(w)
      <3>1. WillCleanUp'
        BY <2>9 DEF ForgetQueue
      <3>2. SUFFICES ASSUME Lone', NEW v \in Worker, wpc'[v] \in {"assign", "receive", "print"}
                     PROVE  FALSE
        BY <3>1
      <3>3. Lone /\ wpc[v] # "off" /\ wpc[w] # "off" /\ v # w
        BY <2>9, <3>2 DEF ForgetQueue
      <3>4. QED
        BY <3>3, LoneRuns
    <2>10. CASE CreateFails(w)
      BY <2>10 DEF CreateFails
    <2>11. CASE Interrupt(w)
      <3>1. CASE wpc[w] = "start" /\ ProcessEnds(w)
        BY <2>11, <3>1 DEF Interrupt
      <3>2. CASE ~(wpc[w] = "start" /\ ProcessEnds(w))
        <4>1. /\ wpc[w] \in {"unlink", "create", "assign", "receive", "print"}
              /\ wpc' = [wpc EXCEPT ![w] = "close"] /\ UNCHANGED <<mq_desc, opened, buffer>>
          BY <2>11, <3>2 DEF Interrupt
        <4>2. QED
          BY <2>11, <4>1 DEF Interrupt
      <3>3. QED
        BY <3>1, <3>2
    <2>12. CASE Crash(w)
      BY <2>12 DEF Crash
    <2>13. QED
      BY <1>1, <2>1, <2>2, <2>3, <2>4, <2>5, <2>6, <2>7, <2>8, <2>9, <2>10, <2>11, <2>12
         DEF WorkerStep
  <1>2. ASSUME NEW d \in Dispatcher, DispatcherStep(d) PROVE WillCleanUp' /\ KeepsName'
    <2> USE DEF worker_vars
    <2>1. CASE OpenQueue(d)
      BY <2>1 DEF OpenQueue
    <2>2. CASE OpenFails(d)
      BY <2>2 DEF OpenFails
    <2>3. CASE Send(d)
      BY <2>3 DEF Send
    <2>4. CASE SendFails(d)
      BY <2>4 DEF SendFails
    <2>5. CASE Leave(d)
      BY <2>5 DEF Leave
    <2>6. QED
      BY <1>2, <2>1, <2>2, <2>3, <2>4, <2>5 DEF DispatcherStep
  <1>3. CASE UNCHANGED vars
    BY <1>3 DEF vars, worker_vars, dispatcher_vars
  <1>4. QED
    BY <1>1, <1>2, <1>3 DEF Next

-----------------------------------------------------------------------------
(***************************************************************************)
(* Tasks move from place to place.  A quiet step moves none: it may only   *)
(* end a process, and with it the task in its hands and the queues that    *)
(* nobody else has open.                                                   *)
(***************************************************************************)
Stays(s) == \A d \in Dispatcher : dpc[d] \in s <=> dpc'[d] \in s

Quiet ==
  /\ printed' = printed
  /\ \A w \in Worker : buffer'[w] \in {buffer[w], NoTask}
  /\ \A q \in DOMAIN queue' : queue'[q] = << >> \/ (q \in Queues /\ queue'[q] = queue[q])
  /\ \A q \in Queues : Exists(q)' => Exists(q)
  /\ Stays({"start", "send"}) /\ Stays({"sent", "done"}) /\ Stays({"refused", "failed"})

Loud ==
  \/ \E w \in Worker : Receive(w) \/ Process(w)
  \/ \E d \in Dispatcher : OpenFails(d) \/ Send(d) \/ SendFails(d)

LEMMA QueuesAreNumbered ==
  ASSUME TypeOK PROVE Queues = 1..Len(queue) /\ NoQueue \notin Queues
  BY LenProperties DEF TypeOK, Queues, NoQueue

LEMMA QuietSteps ==
  ASSUME TypeOK, Shape, [Next]_vars PROVE Quiet \/ Loud
  <1> USE QueuesAreNumbered DEF TypeOK, Quiet, Stays, Exists
  <1>1. ASSUME NEW w \in Worker,
               \/ Start(w) \/ RegisterHandler(w) \/ AssignDescriptor(w)
        PROVE  Quiet
    BY <1>1 DEF Start, RegisterHandler, AssignDescriptor, WorkerGoto, dispatcher_vars, Queues
  <1>2. ASSUME NEW w \in Worker, CreateQueue(w) PROVE Quiet
    <2>1. /\ printed' = printed /\ buffer' = buffer /\ dpc' = dpc /\ sendto' = sendto
          /\ opened' = [opened EXCEPT ![w] = name']
      BY <1>2 DEF CreateQueue, dispatcher_vars
    <2>2. CASE name = NoQueue
      <3>1. queue' = Append(queue, << >>) /\ name' = Len(queue')
        BY <1>2, <2>2 DEF CreateQueue
      <3>2. << >> \in Seq(Dispatcher)
        BY EmptySeq
      <3>3. /\ queue' \in Seq(Seq(Dispatcher)) /\ Len(queue') = Len(queue) + 1
            /\ \A q \in 1..Len(queue) : queue'[q] = queue[q]
            /\ queue'[Len(queue) + 1] = << >>
        BY <3>1, <3>2, AppendProperties
      <3>4. DOMAIN queue' = 1..(Len(queue) + 1) /\ Len(queue) \in Nat
        BY <3>3, LenProperties
      <3>5. \A q \in DOMAIN queue' : queue'[q] = << >> \/ (q \in Queues /\ queue'[q] = queue[q])
        <4>1. \A q \in 1..(Len(queue) + 1) : q = Len(queue) + 1 \/ q \in 1..Len(queue)
          BY <3>4
        <4>2. QED
          BY <3>3, <3>4, <4>1, QueuesAreNumbered
      <3>6. \A q \in Queues : q # name'
        BY <3>1, <3>3, <3>4
      <3>7. QED
        BY <2>1, <3>5, <3>6
    <2>3. CASE name # NoQueue
      <3>1. queue' = queue /\ name' = name
        BY <1>2, <2>3 DEF CreateQueue
      <3>2. QED
        BY <2>1, <3>1 DEF Queues
    <2>4. QED
      BY <2>2, <2>3
  <1>3. ASSUME NEW w \in Worker,
               \/ UnlinkOld(w) \/ CloseQueue(w) \/ ForgetQueue(w) \/ CreateFails(w)
               \/ Interrupt(w) \/ Crash(w)
        PROVE  Quiet
    <2>1. /\ queue' = queue /\ name' \in {name, NoQueue}
          /\ printed' = printed /\ dpc' = dpc /\ sendto' = sendto
      BY <1>3 DEF UnlinkOld, CloseQueue, ForgetQueue, CreateFails, Interrupt, Crash,
                  Unlink, dispatcher_vars
    <2>2. /\ opened' = opened \/ opened' = [opened EXCEPT ![w] = NoQueue]
          /\ buffer' = buffer \/ buffer' = [buffer EXCEPT ![w] = NoTask]
      BY <1>3 DEF UnlinkOld, CloseQueue, ForgetQueue, CreateFails, Interrupt, Crash,
                  ProcessEnds
    <2>3. /\ \A v \in Worker : opened'[v] \in {opened[v], NoQueue}
          /\ \A v \in Worker : buffer'[v] \in {buffer[v], NoTask}
      BY <2>2
    <2>4. QED
      BY <2>1, <2>3 DEF Queues
  <1>4. ASSUME NEW d \in Dispatcher, OpenQueue(d) PROVE Quiet
    BY <1>4 DEF OpenQueue, worker_vars, Queues
  <1>5. ASSUME NEW d \in Dispatcher, Leave(d) PROVE Quiet
    BY <1>5 DEF Leave, worker_vars, Queues
  <1>6. CASE UNCHANGED vars
    BY <1>6 DEF vars, worker_vars, dispatcher_vars, Queues
  <1>7. QED
    BY <1>1, <1>2, <1>3, <1>4, <1>5, <1>6
       DEF Next, WorkerStep, DispatcherStep, Loud

(* Where tasks stay, or are gone with a process, no task gets a second     *)
(* place.                                                                  *)
LEMMA PlacesStay ==
  ASSUME TypeOK, OnePlace, printed' = printed, TypeOK',
         \A w \in Worker : buffer'[w] \in {buffer[w], NoTask},
         \A q \in DOMAIN queue' : queue'[q] = << >> \/ (q \in Queues /\ queue'[q] = queue[q]),
         \A d \in Dispatcher : Accepted(d) => Accepted(d)'
  PROVE  OnePlace'
  <1>1. NoTask \notin Dispatcher
    BY TaskQueueAssumption DEF NoTask
  <1>2. \A d \in Dispatcher : InHand(d)' => InHand(d)
    BY <1>1 DEF InHand
  <1>3. DOMAIN << >> = {}
    OBVIOUS
  <1>4. \A q \in Queues' : \A i \in DOMAIN queue'[q] :
          q \in Queues /\ queue'[q] = queue[q] /\ i \in DOMAIN queue[q]
    BY <1>3 DEF Queues
  <1>5. \A d \in Dispatcher : InQueue(d)' => InQueue(d)
    BY <1>4 DEF InQueue
  <1>6. \A p, q \in Queues' : \A i \in DOMAIN queue'[p], j \in DOMAIN queue'[q] :
          queue'[p][i] = queue'[q][j] => p = q /\ i = j
    BY <1>4 DEF OnePlace
  <1>7. \A v, w \in Worker : buffer'[v] = buffer'[w] /\ buffer'[v] # NoTask => v = w
    BY DEF OnePlace
  <1>8. \A d \in Dispatcher : printed'[d] <= 1 /\ (Finished(d)' <=> Finished(d))
    BY DEF OnePlace, Finished
  <1>9. QED
    BY <1>2, <1>5, <1>6, <1>7, <1>8 DEF OnePlace

(* mq_receive moves a task from its queue into one hand.                   *)
LEMMA ReceiveMoves ==
  ASSUME TypeOK, Shape, OnePlace, NEW w \in Worker, Receive(w)
  PROVE  \E d \in Dispatcher :
           /\ Waiting(d) /\ InQueue(d) /\ ~InQueue(d)'
           /\ buffer' = [buffer EXCEPT ![w] = d] /\ buffer[w] = NoTask
           /\ \A e \in Dispatcher \ {d} :
                (InQueue(e)' <=> InQueue(e)) /\ (Waiting(e)' <=> Waiting(e))
           /\ \A p, q \in Queues' : \A i \in DOMAIN queue'[p], j \in DOMAIN queue'[q] :
                queue'[p][i] = queue'[q][j] => p = q /\ i = j
  <1>1. PICK q \in Queues : \E i \in DOMAIN queue[q] :
           /\ q = opened[w]
           /\ queue[q] \in Seq(Dispatcher) /\ queue[q][i] \in Dispatcher
           /\ buffer' = [buffer EXCEPT ![w] = queue[q][i]]
           /\ queue' = [queue EXCEPT ![q] = Without(queue[q], i)]
    BY ReceiveFacts
  <1>2. PICK i \in DOMAIN queue[q] :
           /\ q = opened[w]
           /\ queue[q] \in Seq(Dispatcher) /\ queue[q][i] \in Dispatcher
           /\ buffer' = [buffer EXCEPT ![w] = queue[q][i]]
           /\ queue' = [queue EXCEPT ![q] = Without(queue[q], i)]
    BY <1>1
  <1>d. PICK d \in Dispatcher : d = queue[q][i]
    BY <1>2
  <1> DEFINE s == queue[q]
             t == Without(s, i)
             old(j) == IF j < i THEN j ELSE j + 1
  <1>3. /\ \A r \in Queues \ {q} : queue'[r] = queue[r]
        /\ queue'[q] = t /\ Queues' = Queues
        /\ \A r : Exists(r)' <=> Exists(r)
    <2>1. queue \in Seq(Seq(Dispatcher))
      BY DEF TypeOK
    <2>2. name' = name /\ opened' = opened /\ sendto' = sendto
      BY DEF Receive, dispatcher_vars
    <2>3. QED
      BY <1>2, <2>1, <2>2 DEF Queues, Exists
  <1>4. /\ DOMAIN s = 1..Len(s) /\ Len(s) \in Nat /\ i \in 1..Len(s)
        /\ DOMAIN t = 1..(Len(s) - 1)
        /\ \A j \in DOMAIN t : t[j] = s[old(j)]
    <2>1. t \in Seq(Dispatcher) /\ Len(t) = Len(s) - 1
          /\ \A j \in DOMAIN t : t[j] = s[old(j)]
      BY <1>2, WithoutProperties
    <2>2. QED
      BY <1>2, <2>1, LenProperties
  <1> HIDE DEF t, s
  <1>5. /\ \A j \in DOMAIN t : old(j) \in DOMAIN s /\ old(j) # i
        /\ \A j, k \in DOMAIN t : old(j) = old(k) => j = k
        /\ \A j \in DOMAIN s : j # i => \E k \in DOMAIN t : old(k) = j
    <2>1. \A j \in DOMAIN t : old(j) \in DOMAIN s /\ old(j) # i
      BY <1>4
    <2>2. \A j, k \in DOMAIN t : old(j) = old(k) => j = k
      BY <1>4
    <2>3. ASSUME NEW j \in DOMAIN s, j # i PROVE \E k \in DOMAIN t : old(k) = j
      <3>1. CASE j < i
        BY <1>4, <3>1
      <3>2. CASE j > i
        <4>1. j - 1 \in DOMAIN t /\ old(j - 1) = j
          BY <1>4, <3>2
        <4>2. QED
          BY <4>1
      <3>3. QED
        BY <1>4, <2>3, <3>1, <3>2
    <2>4. QED
      BY <2>1, <2>2, <2>3
  <1> HIDE DEF old
  <1>6. \A r \in Queues : \A j \in DOMAIN queue[r] : queue[r][j] = d => r = q /\ j = i
    BY <1>2, <1>d DEF OnePlace
  <1>7. \A r \in Queues : \A j \in DOMAIN queue'[r] :
          \E k \in DOMAIN queue[r] :
            /\ queue'[r][j] = queue[r][k] /\ ~(r = q /\ k = i)
            /\ k = IF r = q THEN old(j) ELSE j
    BY <1>3, <1>4, <1>5 DEF s
  <1>8. \A r \in Queues : \A k \in DOMAIN queue[r] :
          ~(r = q /\ k = i) => \E j \in DOMAIN queue'[r] : queue'[r][j] = queue[r][k]
    <2>1. ASSUME NEW k \in DOMAIN s, k # i
          PROVE  \E j \in DOMAIN t : t[j] = s[k]
      BY <1>4, <1>5, <2>1
    <2>2. QED
      BY <1>3, <2>1 DEF s
  <1>9. ~InQueue(d)'
    BY <1>3, <1>6, <1>7 DEF InQueue
  <1>10. ASSUME NEW e \in Dispatcher \ {d}
         PROVE  (InQueue(e)' <=> InQueue(e)) /\ (Waiting(e)' <=> Waiting(e))
    <2>1. \A r \in Queues :
            (\E j \in DOMAIN queue'[r] : queue'[r][j] = e)
              <=> (\E j \in DOMAIN queue[r] : queue[r][j] = e)
      BY <1>7, <1>8, <1>d
    <2>2. QED
      BY <1>3, <2>1 DEF InQueue, Waiting
  <1>11. \A p, r \in Queues' : \A j \in DOMAIN queue'[p], k \in DOMAIN queue'[r] :
           queue'[p][j] = queue'[r][k] => p = r /\ j = k
    <2>1. SUFFICES ASSUME NEW p \in Queues, NEW r \in Queues,
                          NEW j \in DOMAIN queue'[p], NEW k \in DOMAIN queue'[r],
                          queue'[p][j] = queue'[r][k]
                   PROVE  p = r /\ j = k
      BY <1>3
    <2>2. /\ p = r
          /\ (IF p = q THEN old(j) ELSE j) = (IF r = q THEN old(k) ELSE k)
      BY <1>7, <2>1 DEF OnePlace
    <2>3. QED
      BY <1>3, <1>5, <2>1, <2>2
  <1>12. Waiting(d) /\ InQueue(d)
    BY <1>2, <1>d DEF Waiting, InQueue, Exists
  <1>13. buffer[w] = NoTask
    BY DEF Receive, WorkerGoto, Shape
  <1>14. QED
    <2>1. buffer' = [buffer EXCEPT ![w] = d]
      BY <1>2, <1>d
    <2>2. QED
      BY <2>1, <1>9, <1>10, <1>11, <1>12, <1>13

(* mq_send adds a task that was nowhere to a queue that exists.            *)
LEMMA SendMoves ==
  ASSUME TypeOK, Shape, OnePlace, NEW d \in Dispatcher, Send(d)
  PROVE  /\ Waiting(d)' /\ ~InQueue(d) /\ ~InHand(d) /\ ~Finished(d)
         /\ buffer' = buffer /\ printed' = printed
         /\ \A e \in Dispatcher \ {d} :
              (InQueue(e)' <=> InQueue(e)) /\ (Waiting(e)' <=> Waiting(e))
         /\ \A p, q \in Queues' : \A i \in DOMAIN queue'[p], j \in DOMAIN queue'[q] :
              queue'[p][i] = queue'[q][j] => p = q /\ i = j
  <1> DEFINE q == sendto[d]
             s == queue[q]
  <1>1. /\ q \in Queues /\ queue \in Seq(Seq(Dispatcher)) /\ s \in Seq(Dispatcher)
        /\ queue' = [queue EXCEPT ![q] = Append(s, d)]
        /\ name' = name /\ sendto' = sendto /\ UNCHANGED worker_vars
        /\ ~Accepted(d)
    <2>1. q # NoQueue /\ q \in 0..Len(queue)
      BY DEF Send, Shape, TypeOK, QueueId
    <2>2. q \in Queues
      BY <2>1, QueuesAreNumbered, LenProperties DEF NoQueue, TypeOK
    <2>3. s \in Seq(Dispatcher)
      BY <2>2, ElementOfSeq, QueuesAreNumbered DEF TypeOK
    <2>4. QED
      BY <2>2, <2>3 DEF Send, TypeOK, Accepted
  <1>2. /\ ~InQueue(d) /\ ~InHand(d) /\ ~Finished(d)
    BY <1>1 DEF OnePlace
  <1>3. /\ Queues' = Queues /\ \A r \in Queues \ {q} : queue'[r] = queue[r]
        /\ queue'[q] = Append(s, d)
        /\ \A r : Exists(r)' <=> Exists(r)
    BY <1>1 DEF Queues, Exists, worker_vars
  <1>4. PICK n \in Nat :
          /\ DOMAIN s = 1..n /\ DOMAIN Append(s, d) = 1..(n + 1)
          /\ \A j \in 1..n : Append(s, d)[j] = s[j]
          /\ Append(s, d)[n + 1] = d
    <2>1. /\ Append(s, d) \in Seq(Dispatcher) /\ Len(Append(s, d)) = Len(s) + 1
          /\ \A j \in 1..Len(s) : Append(s, d)[j] = s[j]
          /\ Append(s, d)[Len(s) + 1] = d
      BY <1>1, AppendProperties
    <2>2. QED
      BY <1>1, <2>1, LenProperties
  <1> HIDE DEF s
  <1>5. \A r \in Queues : \A j \in DOMAIN queue'[r] :
          IF r = q /\ j = n + 1 THEN queue'[r][j] = d
                                ELSE j \in DOMAIN queue[r] /\ queue'[r][j] = queue[r][j]
    BY <1>3, <1>4 DEF s
  <1>6. \A r \in Queues : \A j \in DOMAIN queue[r] :
          j \in DOMAIN queue'[r] /\ queue'[r][j] = queue[r][j]
    BY <1>3, <1>4 DEF s
  <1>7. ASSUME NEW e \in Dispatcher \ {d}
        PROVE  (InQueue(e)' <=> InQueue(e)) /\ (Waiting(e)' <=> Waiting(e))
    <2>1. \A r \in Queues :
            (\E j \in DOMAIN queue'[r] : queue'[r][j] = e)
              <=> (\E j \in DOMAIN queue[r] : queue[r][j] = e)
      BY <1>5, <1>6
    <2>2. QED
      BY <1>3, <2>1 DEF InQueue, Waiting
  <1>8. \A p, r \in Queues' : \A i \in DOMAIN queue'[p], j \in DOMAIN queue'[r] :
          queue'[p][i] = queue'[r][j] => p = r /\ i = j
    <2>1. \A r \in Queues : \A j \in DOMAIN queue[r] : queue[r][j] # d
      BY <1>2 DEF InQueue
    <2>2. QED
      BY <1>3, <1>5, <2>1 DEF OnePlace
  <1>9. Waiting(d)'
    <2>1. n + 1 \in DOMAIN queue'[q] /\ queue'[q][n + 1] = d
      BY <1>3, <1>4
    <2>2. Exists(q)'
      BY <1>1 DEF Exists
    <2>3. sendto'[d] \in Queues'
      BY <1>1, <1>3
    <2>4. QED
      BY <1>1, <2>1, <2>2, <2>3 DEF Waiting
  <1>10. QED
    BY <1>1, <1>2, <1>7, <1>8, <1>9 DEF worker_vars

LEMMA OnePlacePreserved ==
  ASSUME TypeOK, Shape, OnePlace, TypeOK', [Next]_vars PROVE OnePlace'
  <1>0. NoTask \notin Dispatcher
    BY TaskQueueAssumption DEF NoTask
  <1>1. CASE Quiet
    <2>1. \A d \in Dispatcher : Accepted(d) => Accepted(d)'
      BY <1>1 DEF Quiet, Stays, Accepted
    <2>2. QED
      BY <1>1, <2>1, PlacesStay DEF Quiet
  <1>2. ASSUME NEW d \in Dispatcher, OpenFails(d) \/ SendFails(d) PROVE OnePlace'
    <2>1. \A e \in Dispatcher : Accepted(e) => Accepted(e)'
      BY <1>2 DEF OpenFails, SendFails, Accepted, TypeOK
    <2>2. queue' = queue /\ UNCHANGED worker_vars
      BY <1>2 DEF OpenFails, SendFails
    <2>3. QED
      BY <2>1, <2>2, PlacesStay DEF worker_vars, Queues
  <1>3. ASSUME NEW w \in Worker, Receive(w) PROVE OnePlace'
    <2>1. PICK d \in Dispatcher :
            /\ Waiting(d) /\ InQueue(d) /\ ~InQueue(d)'
            /\ buffer' = [buffer EXCEPT ![w] = d] /\ buffer[w] = NoTask
            /\ \A e \in Dispatcher \ {d} :
                 (InQueue(e)' <=> InQueue(e)) /\ (Waiting(e)' <=> Waiting(e))
            /\ \A p, q \in Queues' : \A i \in DOMAIN queue'[p], j \in DOMAIN queue'[q] :
                 queue'[p][i] = queue'[q][j] => p = q /\ i = j
      BY <1>3, ReceiveMoves
    <2>2. printed' = printed /\ dpc' = dpc
      BY <1>3 DEF Receive, dispatcher_vars
    <2>3. \A e \in Dispatcher : InHand(e)' <=> InHand(e) \/ e = d
      BY <1>0, <2>1 DEF InHand, TypeOK
    <2>4. ~InHand(d) /\ ~Finished(d) /\ Accepted(d)
      BY <2>1 DEF OnePlace
    <2>5. \A u, v \in Worker : buffer'[u] = buffer'[v] /\ buffer'[u] # NoTask => u = v
      BY <2>1, <2>4 DEF OnePlace, InHand, TypeOK
    <2>6. \A e \in Dispatcher : Accepted(e)' <=> Accepted(e)
      BY <2>2 DEF Accepted
    <2>7. \A e \in Dispatcher : printed'[e] <= 1 /\ (Finished(e)' <=> Finished(e))
      BY <2>2 DEF OnePlace, Finished
    <2>8. QED
      BY <2>1, <2>2, <2>3, <2>4, <2>5, <2>6, <2>7 DEF OnePlace
  <1>4. ASSUME NEW w \in Worker, Process(w) PROVE OnePlace'
    <2>1. /\ printed' = [printed EXCEPT ![buffer[w]] = @ + 1] /\ buffer[w] \in Dispatcher
          /\ buffer' = [buffer EXCEPT ![w] = NoTask]
          /\ queue' = queue /\ dpc' = dpc
      BY <1>4 DEF Process, WorkerGoto, Shape, TypeOK, dispatcher_vars
    <2>2. \A e \in Dispatcher : InHand(e)' <=> InHand(e) /\ e # buffer[w]
      BY <1>0, <2>1 DEF InHand, OnePlace, TypeOK
    <2>3. \A e \in Dispatcher : (InQueue(e)' <=> InQueue(e)) /\ (Accepted(e)' <=> Accepted(e))
      BY <2>1 DEF InQueue, Accepted, Queues
    <2>4. InHand(buffer[w])
      BY DEF InHand
    <2>5. \A u, v \in Worker : buffer'[u] = buffer'[v] /\ buffer'[u] # NoTask => u = v
      BY <2>1 DEF OnePlace, TypeOK
    <2>6. /\ \A e \in Dispatcher : Finished(e)' <=> Finished(e) \/ e = buffer[w]
          /\ \A e \in Dispatcher : printed'[e] <= 1
      BY <2>1, <2>4 DEF OnePlace, Finished, TypeOK
    <2>7. \A p, q \in Queues' : \A i \in DOMAIN queue'[p], j \in DOMAIN queue'[q] :
            queue'[p][i] = queue'[q][j] => p = q /\ i = j
      BY <2>1 DEF OnePlace, Queues
    <2>8. QED
      BY <2>1, <2>2, <2>3, <2>4, <2>5, <2>6, <2>7 DEF OnePlace
  <1>5. ASSUME NEW d \in Dispatcher, Send(d) PROVE OnePlace'
    <2>1. \A e \in Dispatcher : Accepted(e)' <=> Accepted(e) \/ e = d
      BY <1>5 DEF Send, Accepted, TypeOK
    <2>2. \A e \in Dispatcher : InHand(e)' <=> InHand(e)
      BY <1>5, SendMoves DEF InHand
    <2>3. \A v, w \in Worker : buffer'[v] = buffer'[w] /\ buffer'[v] # NoTask => v = w
      BY <1>5, SendMoves DEF OnePlace
    <2>4. \A e \in Dispatcher : printed'[e] <= 1 /\ (Finished(e)' <=> Finished(e))
      BY <1>5, SendMoves DEF OnePlace, Finished
    <2>5. QED
      BY <1>5, SendMoves, <2>1, <2>2, <2>3, <2>4 DEF OnePlace
  <1>6. QED
    BY <1>1, <1>2, <1>3, <1>4, <1>5, QuietSteps DEF Loud

-----------------------------------------------------------------------------
THEOREM TaskQueueInvariance == Spec => []IInv
  <1>1. Init => IInv
    <2>1. ASSUME Init PROVE TypeOK /\ Shape
      BY <2>1, EmptySeq, TaskQueueAssumption
         DEF Init, TypeOK, Shape, QueueId, WorkerPhase, DispatcherPhase, NoQueue, Listening
    <2>2. ASSUME Init PROVE WillCleanUp /\ KeepsName
      BY <2>2 DEF Init, WillCleanUp, KeepsName
    <2>3. ASSUME Init PROVE OnePlace
      <3>1. Queues = {} /\ NoTask \notin Dispatcher
        BY <2>3, TaskQueueAssumption DEF Init, Queues, NoTask
      <3>2. \A d \in Dispatcher : ~InHand(d) /\ ~InQueue(d)
        BY <2>3, <3>1 DEF Init, InHand, InQueue
      <3>n. \A d \in Dispatcher : printed[d] = 0 /\ ~Finished(d)
        BY <2>3 DEF Init, Finished
      <3>3. \A w \in Worker : buffer[w] = NoTask
        BY <2>3 DEF Init
      <3>4. QED
        BY <3>1, <3>2, <3>n, <3>3 DEF OnePlace
    <2>4. QED
      BY <2>1, <2>2, <2>3 DEF IInv
  <1>2. IInv /\ [Next]_vars => IInv'
    BY TypePreserved, ShapePreserved, NamePreserved, OnePlacePreserved DEF IInv
  <1>3. QED
    BY <1>1, <1>2, PTL DEF Spec

(* Workers that end by themselves or by Ctrl+C, at whatever point of their *)
(* start or work, leave no queue behind, however many there are and        *)
(* however they overlap.                                                   *)
THEOREM NoQueueIsLeft == Spec => []LastWorkerCleansUp
  <1>1. IInv => LastWorkerCleansUp
    BY DEF IInv, WillCleanUp, LastWorkerCleansUp
  <1>2. QED
    BY <1>1, TaskQueueInvariance, PTL

(* A worker that is alone listens to the queue dispatchers find, however   *)
(* often it has been started, interrupted and killed before.               *)
THEOREM LoneWorkerIsFound == Spec => []ListensToName
  <1>1. IInv => ListensToName
    BY DEF IInv, KeepsName, Shape, ListensToName, Listening
  <1>2. QED
    BY <1>1, TaskQueueInvariance, PTL

-----------------------------------------------------------------------------
(***************************************************************************)
(* The refinement.  Since a task is in one place, there is one copy of it  *)
(* or none wherever it is looked for.                                      *)
(***************************************************************************)
One(P) == IF P THEN 1 ELSE 0

LEMMA CopiesCounted ==
  ASSUME IInv, NEW d \in Dispatcher
  PROVE  CopiesWaiting(d) = One(Waiting(d)) /\ CopiesTaken(d) = One(InHand(d))
  <1> DEFINE S == {s \in Spots : queue[s[1]][s[2]] = d}
             H == {w \in Worker : buffer[w] = d}
  <1>1. \A s : s \in Spots <=>
          \E q \in Queues : Exists(q) /\ \E i \in DOMAIN queue[q] : s = <<q, i>>
    BY DEF Spots
  <1>2. ASSUME Waiting(d) PROVE CopiesWaiting(d) = One(Waiting(d))
    <2>q. PICK q \in Queues : Exists(q) /\ \E i \in DOMAIN queue[q] : queue[q][i] = d
      BY <1>2 DEF Waiting
    <2>1. PICK i \in DOMAIN queue[q] : Exists(q) /\ queue[q][i] = d
      BY <2>q
    <2>2. <<q, i>> \in S
      BY <1>1, <2>1
    <2>3. ASSUME NEW s \in S PROVE s = <<q, i>>
      <3>p. PICK p \in Queues : \E j \in DOMAIN queue[p] : s = <<p, j>>
        BY <1>1
      <3>1. PICK j \in DOMAIN queue[p] : s = <<p, j>>
        BY <3>p
      <3>2. queue[p][j] = d
        BY <3>1
      <3>3. QED
        BY <2>1, <3>1, <3>2 DEF IInv, OnePlace
    <2>4. S = {<<q, i>>}
      BY <2>2, <2>3
    <2>5. Cardinality(S) = 1
      BY <2>4, FS_Singleton
    <2>6. CopiesWaiting(d) = 1 /\ One(Waiting(d)) = 1
      BY <1>2, <2>5, Zenon DEF CopiesWaiting, One
    <2>7. QED
      BY <2>6
  <1>3. ASSUME ~Waiting(d) PROVE CopiesWaiting(d) = One(Waiting(d))
    <2>1. S = {}
      BY <1>1, <1>3 DEF Waiting
    <2>2. Cardinality(S) = 0
      BY <2>1, FS_EmptySet
    <2>3. CopiesWaiting(d) = 0 /\ One(Waiting(d)) = 0
      BY <1>3, <2>2, Zenon DEF CopiesWaiting, One
    <2>4. QED
      BY <2>3
  <1>4. ASSUME InHand(d) PROVE CopiesTaken(d) = One(InHand(d))
    <2>1. PICK w \in Worker : buffer[w] = d
      BY <1>4 DEF InHand
    <2>2. d # NoTask
      BY TaskQueueAssumption DEF NoTask
    <2>3. H = {w}
      BY <2>1, <2>2 DEF IInv, OnePlace
    <2>4. Cardinality(H) = 1
      BY <2>3, FS_Singleton
    <2>5. CopiesTaken(d) = 1 /\ One(InHand(d)) = 1
      BY <1>4, <2>4, Zenon DEF CopiesTaken, One
    <2>6. QED
      BY <2>5
  <1>5. ASSUME ~InHand(d) PROVE CopiesTaken(d) = One(InHand(d))
    <2>1. H = {}
      BY <1>5 DEF InHand
    <2>2. Cardinality(H) = 0
      BY <2>1, FS_EmptySet
    <2>3. CopiesTaken(d) = 0 /\ One(InHand(d)) = 0
      BY <1>5, <2>2, Zenon DEF CopiesTaken, One
    <2>4. QED
      BY <2>3
  <1>6. CopiesWaiting(d) = One(Waiting(d))
    BY <1>2, <1>3
  <1>7. CopiesTaken(d) = One(InHand(d))
    BY <1>4, <1>5
  <1>8. QED
    BY <1>6, <1>7

(* What the mapping makes of the variables of TaskPromise                  *)
LEMMA Mapping ==
  IInv => /\ [d \in Dispatcher |-> CopiesWaiting(d)] = [d \in Dispatcher |-> One(Waiting(d))]
          /\ [d \in Dispatcher |-> CopiesTaken(d)] = [d \in Dispatcher |-> One(InHand(d))]
  BY CopiesCounted

LEMMA MappingNext ==
  IInv' => (/\ [d \in Dispatcher |-> CopiesWaiting(d)] = [d \in Dispatcher |-> One(Waiting(d))]
            /\ [d \in Dispatcher |-> CopiesTaken(d)] = [d \in Dispatcher |-> One(InHand(d))])'
  BY Mapping, PTL

(* The tasks a quiet step leaves nowhere are lost, the others stay.        *)
LEMMA QuietLoses ==
  ASSUME IInv, IInv', Quiet PROVE \E S \in SUBSET Dispatcher : Promise!Lose(S)
  <1> DEFINE S == {d \in Dispatcher : ~InHand(d)' /\ ~Waiting(d)'}
  <1>1. NoTask \notin Dispatcher
    BY TaskQueueAssumption DEF NoTask
  <1>2. ASSUME NEW d \in Dispatcher
        PROVE  /\ InHand(d)' => InHand(d)
               /\ Waiting(d)' => Waiting(d)
               /\ Verdict(d)' = Verdict(d)
    <2>1. InHand(d)' => InHand(d)
      BY <1>1 DEF Quiet, InHand
    <2>2. Waiting(d)' => Waiting(d)
      BY DEF Quiet, Waiting, Queues
    <2>3. QED
      BY <2>1, <2>2 DEF Quiet, Stays, Verdict
  <1>3. ASSUME NEW d \in Dispatcher
        PROVE  ~(InHand(d) /\ Waiting(d)) /\ ~(InHand(d)' /\ Waiting(d)')
    <2>1. /\ Waiting(d) => InQueue(d)
          /\ Waiting(d)' => InQueue(d)'
      BY DEF Waiting, InQueue
    <2>2. QED
      BY <2>1 DEF IInv, OnePlace
  <1>4. ASSUME NEW d \in Dispatcher
        PROVE  /\ One(Waiting(d))' = IF d \in S THEN 0 ELSE One(Waiting(d))
               /\ One(InHand(d))' = IF d \in S THEN 0 ELSE One(InHand(d))
    BY <1>2, <1>3 DEF One
  <1> HIDE DEF S
  <1>5. /\ [d \in Dispatcher |-> One(Waiting(d))]'
             = [d \in Dispatcher |-> IF d \in S THEN 0 ELSE [e \in Dispatcher |-> One(Waiting(e))][d]]
        /\ [d \in Dispatcher |-> One(InHand(d))]'
             = [d \in Dispatcher |-> IF d \in S THEN 0 ELSE [e \in Dispatcher |-> One(InHand(e))][d]]
        /\ [d \in Dispatcher |-> Verdict(d)]' = [d \in Dispatcher |-> Verdict(d)]
    BY <1>2, <1>4
  <1>6. printed' = printed
    BY DEF Quiet
  <1>7. Promise!Lose(S)
    BY <1>5, <1>6, Mapping, MappingNext DEF Promise!Lose
  <1>8. S \in SUBSET Dispatcher
    BY DEF S
  <1>9. QED
    BY <1>7, <1>8

(* A loud step moves one task. *)
LEMMA LoudMoves ==
  ASSUME IInv, IInv', Loud PROVE Promise!Next
  <1> USE DEF One
  <1>0. NoTask \notin Dispatcher
    BY TaskQueueAssumption DEF NoTask
  <1>1. ASSUME NEW w \in Worker, Receive(w) PROVE Promise!Next
    <2>1. PICK d \in Dispatcher :
            /\ Waiting(d) /\ InQueue(d) /\ ~InQueue(d)'
            /\ buffer' = [buffer EXCEPT ![w] = d] /\ buffer[w] = NoTask
            /\ \A e \in Dispatcher \ {d} :
                 (InQueue(e)' <=> InQueue(e)) /\ (Waiting(e)' <=> Waiting(e))
            /\ \A p, q \in Queues' : \A i \in DOMAIN queue'[p], j \in DOMAIN queue'[q] :
                 queue'[p][i] = queue'[q][j] => p = q /\ i = j
      BY <1>1, ReceiveMoves DEF IInv
    <2>2. printed' = printed /\ dpc' = dpc
      BY <1>1 DEF Receive, dispatcher_vars
    <2>3. \A e \in Dispatcher : InHand(e)' <=> InHand(e) \/ e = d
      BY <1>0, <2>1 DEF InHand, IInv, TypeOK
    <2>4. ~InHand(d) /\ ~Waiting(d)'
      BY <2>1 DEF IInv, OnePlace, Waiting, InQueue
    <2>5. [e \in Dispatcher |-> One(Waiting(e))]'
            = [[e \in Dispatcher |-> One(Waiting(e))] EXCEPT ![d] = 0]
      BY <2>1, <2>4
    <2>6. [e \in Dispatcher |-> One(InHand(e))]'
            = [[e \in Dispatcher |-> One(InHand(e))] EXCEPT ![d] = 1]
      BY <2>3
    <2>7. [e \in Dispatcher |-> Verdict(e)]' = [e \in Dispatcher |-> Verdict(e)]
      BY <2>2 DEF Verdict
    <2>8. Promise!Take(d)
      BY <2>1, <2>2, <2>4, <2>5, <2>6, <2>7, Mapping, MappingNext DEF Promise!Take
    <2>9. QED
      BY <2>8 DEF Promise!Next
  <1>2. ASSUME NEW w \in Worker, Process(w) PROVE Promise!Next
    <2>1. PICK d \in Dispatcher : d = buffer[w]
      BY <1>2 DEF Process, WorkerGoto, IInv, Shape, TypeOK
    <2>2. /\ printed' = [printed EXCEPT ![d] = @ + 1] /\ buffer' = [buffer EXCEPT ![w] = NoTask]
          /\ queue' = queue /\ name' = name /\ opened' = opened
          /\ dpc' = dpc /\ sendto' = sendto
      BY <1>2, <2>1 DEF Process, dispatcher_vars
    <2>3. \A e \in Dispatcher : InHand(e)' <=> InHand(e) /\ e # d
      BY <1>0, <2>1, <2>2 DEF InHand, IInv, OnePlace, TypeOK
    <2>4. \A e \in Dispatcher : Waiting(e)' <=> Waiting(e)
      BY <2>2 DEF Waiting, Exists, Queues
    <2>5. InHand(d)
      BY <2>1 DEF InHand
    <2>z. printed[d] = 0
      BY <2>5 DEF IInv, OnePlace, Finished
    <2>6. printed[d] = 0 /\ printed' = [printed EXCEPT ![d] = 1]
      BY <2>2, <2>z
    <2>7. [e \in Dispatcher |-> One(Waiting(e))]' = [e \in Dispatcher |-> One(Waiting(e))]
      BY <2>4
    <2>8. [e \in Dispatcher |-> One(InHand(e))]'
            = [[e \in Dispatcher |-> One(InHand(e))] EXCEPT ![d] = 0]
      BY <2>3
    <2>9. [e \in Dispatcher |-> Verdict(e)]' = [e \in Dispatcher |-> Verdict(e)]
      BY <2>2 DEF Verdict
    <2>10. Promise!Finish(d)
      BY <2>5, <2>6, <2>7, <2>8, <2>9, Mapping, MappingNext DEF Promise!Finish
    <2>11. QED
      BY <2>10 DEF Promise!Next
  <1>3. ASSUME NEW d \in Dispatcher, Send(d) PROVE Promise!Next
    <2>1. /\ Waiting(d)' /\ \A e \in Dispatcher \ {d} : Waiting(e)' <=> Waiting(e)
          /\ buffer' = buffer /\ printed' = printed
      BY <1>3, SendMoves DEF IInv
    <2>2. dpc[d] = "send" /\ dpc' = [dpc EXCEPT ![d] = "sent"]
      BY <1>3 DEF Send
    <2>3. [e \in Dispatcher |-> One(Waiting(e))]'
            = [[e \in Dispatcher |-> One(Waiting(e))] EXCEPT ![d] = 1]
      BY <2>1
    <2>4. [e \in Dispatcher |-> One(InHand(e))]' = [e \in Dispatcher |-> One(InHand(e))]
      BY <2>1 DEF InHand
    <2>5. /\ Verdict(d) = "none"
          /\ [e \in Dispatcher |-> Verdict(e)]'
               = [[e \in Dispatcher |-> Verdict(e)] EXCEPT ![d] = "accepted"]
      BY <2>2 DEF Verdict, IInv, TypeOK
    <2>6. Promise!Submit(d)
      BY <2>1, <2>3, <2>4, <2>5, Mapping, MappingNext DEF Promise!Submit
    <2>7. QED
      BY <2>6 DEF Promise!Next
  <1>4. ASSUME NEW d \in Dispatcher, OpenFails(d) \/ SendFails(d) PROVE Promise!Next
    <2>1. /\ dpc[d] \in {"start", "send"}
          /\ \E to \in {"failed", "refused"} : dpc' = [dpc EXCEPT ![d] = to]
          /\ UNCHANGED <<name, queue, sendto, worker_vars>>
      BY <1>4 DEF OpenFails, SendFails
    <2>2. \A e \in Dispatcher : Waiting(e)' <=> Waiting(e)
      BY <2>1 DEF Waiting, Exists, Queues, worker_vars
    <2>3. [e \in Dispatcher |-> One(Waiting(e))]' = [e \in Dispatcher |-> One(Waiting(e))]
      BY <2>2
    <2>4. [e \in Dispatcher |-> One(InHand(e))]' = [e \in Dispatcher |-> One(InHand(e))]
      BY <2>1 DEF InHand, worker_vars
    <2>5. /\ Verdict(d) = "none"
          /\ [e \in Dispatcher |-> Verdict(e)]'
               = [[e \in Dispatcher |-> Verdict(e)] EXCEPT ![d] = "refused"]
      BY <2>1 DEF Verdict, IInv, TypeOK
    <2>6. Promise!Refuse(d)
      BY <2>1, <2>3, <2>4, <2>5, Mapping, MappingNext DEF Promise!Refuse, worker_vars
    <2>7. QED
      BY <2>6 DEF Promise!Next
  <1>5. QED
    BY <1>1, <1>2, <1>3, <1>4 DEF Loud

(* The task queue implements TaskPromise: each task is refused or accepted *)
(* for good, there is never a second copy of an accepted one, be it in a   *)
(* queue or in a worker's hands, it is printed at most once, and once lost *)
(* it stays lost, whatever becomes of workers, names and queues.           *)
THEOREM TaskQueueKeepsPromise == Spec => ImplementsPromise
  <1>1. Init => Promise!Init
    <2>1. ASSUME Init, NEW d \in Dispatcher
          PROVE  /\ Verdict(d) = "none" /\ printed[d] = 0
                 /\ {w \in Worker : buffer[w] = d} = {}
                 /\ {s \in Spots : queue[s[1]][s[2]] = d} = {}
      <3>1. Queues = {}
        BY <2>1 DEF Init, Queues
      <3>2. Spots = {}
        BY <3>1 DEF Spots
      <3>3. \A w \in Worker : buffer[w] # d
        BY <2>1, TaskQueueAssumption DEF Init, NoTask
      <3>4. Verdict(d) = "none" /\ printed[d] = 0
        BY <2>1 DEF Init, Verdict
      <3>5. QED
        BY <3>2, <3>3, <3>4
    <2>2. ASSUME Init, NEW d \in Dispatcher PROVE CopiesWaiting(d) = 0 /\ CopiesTaken(d) = 0
      BY <2>1, <2>2, FS_EmptySet DEF CopiesWaiting, CopiesTaken
    <2>3. Init => printed = [d \in Dispatcher |-> 0]
      BY DEF Init
    <2>4. QED
      BY <2>1, <2>2, <2>3 DEF Promise!Init, Promise!Nowhere
  <1>2. IInv /\ IInv' /\ [Next]_vars => [Promise!Next]_(Promise!status)
    <2>1. SUFFICES ASSUME IInv, IInv', [Next]_vars PROVE Promise!Next
      OBVIOUS
    <2>2. CASE Quiet
      BY <2>1, <2>2, QuietLoses DEF Promise!Next
    <2>3. CASE Loud
      BY <2>1, <2>3, LoudMoves
    <2>4. QED
      BY <2>1, <2>2, <2>3, QuietSteps DEF IInv
  <1>3. QED
    BY <1>1, <1>2, TaskQueueInvariance, PTL DEF Spec, ImplementsPromise, Promise!Spec
=============================================================================
