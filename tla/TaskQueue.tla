------------------------------ MODULE TaskQueue -----------------------------
(***************************************************************************)
(* The task queue of Exercise_Lesson_9: task_worker.c receives tasks from  *)
(* the POSIX message queue /my_task_queue, task_dispatcher.c sends one     *)
(* each.  The kernel's queues are modelled from how the two programs use   *)
(* them: a queue is an object with a name only while it is linked; it      *)
(* lives on without a name while a descriptor is open, and its messages    *)
(* with it.                                                                *)
(*                                                                         *)
(* A worker deletes the name when it starts and again when Ctrl+C ends it, *)
(* whoever created the queue behind the name; the model is about what that *)
(* does to tasks and to other workers.                                     *)
(***************************************************************************)
EXTENDS Integers, Sequences, FiniteSets

CONSTANTS
  Worker,           \* places a worker is started in, again and again
  Dispatcher,       \* dispatcher processes, one task each
  Requests,         \* the command lines the dispatchers may be started with,
                    \* each [priority |-> Int, fits |-> BOOLEAN]: "fits" says that
                    \* the task is no longer than MAX_MSG_SIZE
  MAX_MSG_COUNT,    \* capacity of a queue, 10 in the program
  MQ_PRIO_MAX,      \* the kernel's bound on priorities, 32768 on Linux
  MaxRuns,          \* how often each worker is started
  MaxSignals,       \* SIGINTs sent to workers
  MaxCrashes        \* workers killed without a chance to clean up

ASSUME TaskQueueAssumption ==
  /\ Requests \subseteq [Dispatcher -> [priority : Int, fits : BOOLEAN]]
  /\ MAX_MSG_COUNT \in Nat \ {0}
  /\ MQ_PRIO_MAX \in Nat \ {0}
  /\ MaxRuns \in [Worker -> Nat] /\ MaxSignals \in Nat /\ MaxCrashes \in Nat
  /\ "none" \notin Dispatcher

VARIABLES
  name,       \* the queue /my_task_queue leads to now, NoQueue if it leads nowhere
  queue,      \* the messages of each queue ever created, oldest first
  wpc,        \* where each worker is
  mq_desc,    \* the worker's global variable mq_desc, 0 before it is assigned
  opened,     \* the queue the worker's process has open
  buffer,     \* the task a worker has received and not yet printed
  runs, signals, crashes,
  dpc,        \* where each dispatcher is
  request,    \* its command line
  sendto,     \* the queue it has open
  printed     \* history: how often each task has been printed

worker_vars == <<wpc, mq_desc, opened, buffer, runs, signals, crashes, printed>>
dispatcher_vars == <<dpc, request, sendto>>
vars == <<name, queue, worker_vars, dispatcher_vars>>

NoQueue == 0
NoTask  == "none"

Queues == DOMAIN queue

Init ==
  /\ name = NoQueue
  /\ queue = << >>
  /\ wpc = [w \in Worker |-> "off"]
  /\ mq_desc = [w \in Worker |-> 0]
  /\ opened = [w \in Worker |-> NoQueue]
  /\ buffer = [w \in Worker |-> NoTask]
  /\ runs = [w \in Worker |-> 0]
  /\ signals = 0
  /\ crashes = 0
  /\ dpc = [d \in Dispatcher |-> "start"]
  /\ request \in Requests
  /\ sendto = [d \in Dispatcher |-> NoQueue]
  /\ printed = [d \in Dispatcher |-> 0]

-----------------------------------------------------------------------------
(***************************************************************************)
(* The kernel's queues                                                     *)
(***************************************************************************)

(* A queue exists while it has its name or is open somewhere. *)
Exists(q) ==
  \/ name = q
  \/ \E w \in Worker : opened[w] = q
  \/ \E d \in Dispatcher : sendto[d] = q

(* mq_unlink: the name leads nowhere; without a name it fails and nothing  *)
(* changes.                                                                *)
Unlink == name' = NoQueue

(* The priority atoi() and the conversion to unsigned give: every negative *)
(* number becomes one far above MQ_PRIO_MAX.                               *)
Priority(d) ==
  IF request[d].priority >= 0 THEN request[d].priority ELSE MQ_PRIO_MAX

(* mq_send refuses at once what it would never accept. *)
Acceptable(d) == Priority(d) < MQ_PRIO_MAX /\ request[d].fits

(* mq_receive takes the oldest message among those of the highest priority. *)
IsNext(q, i) ==
  /\ i \in DOMAIN queue[q]
  /\ \A j \in DOMAIN queue[q] :
       \/ Priority(queue[q][j]) < Priority(queue[q][i])
       \/ Priority(queue[q][j]) = Priority(queue[q][i]) /\ i <= j

Without(s, i) == SubSeq(s, 1, i - 1) \o SubSeq(s, i + 1, Len(s))

-----------------------------------------------------------------------------
(***************************************************************************)
(* The worker                                                              *)
(***************************************************************************)
WorkerGoto(w, from, to) ==
  /\ wpc[w] = from
  /\ wpc' = [wpc EXCEPT ![w] = to]

Start(w) ==
  /\ WorkerGoto(w, "off", "start")
  /\ runs[w] < MaxRuns[w]
  /\ runs' = [runs EXCEPT ![w] = @ + 1]
  /\ UNCHANGED <<name, queue, mq_desc, opened, buffer, signals, crashes, printed,
                 dispatcher_vars>>

(* signal(SIGINT, cleanup_handler) *)
RegisterHandler(w) ==
  /\ WorkerGoto(w, "start", "unlink")
  /\ UNCHANGED <<name, queue, mq_desc, opened, buffer, runs, signals, crashes, printed,
                 dispatcher_vars>>

(* mq_unlink(QUEUE_NAME), its result ignored *)
UnlinkOld(w) ==
  /\ WorkerGoto(w, "unlink", "create")
  /\ Unlink
  /\ UNCHANGED <<queue, mq_desc, opened, buffer, runs, signals, crashes, printed,
                 dispatcher_vars>>

(* mq_open with O_CREAT and without O_EXCL: a new queue, or the one that   *)
(* another worker has created since                                        *)
CreateQueue(w) ==
  /\ WorkerGoto(w, "create", "assign")
  /\ IF name = NoQueue
       THEN queue' = Append(queue, << >>) /\ name' = Len(queue')
       ELSE queue' = queue /\ name' = name
  /\ opened' = [opened EXCEPT ![w] = name']
  /\ UNCHANGED <<mq_desc, buffer, runs, signals, crashes, printed, dispatcher_vars>>

(* Mutant: the name is deleted after mq_open, not before. *)
AssignAndUnlink(w) ==
  /\ WorkerGoto(w, "assign", "receive")
  /\ mq_desc' = [mq_desc EXCEPT ![w] = opened[w]]
  /\ Unlink
  /\ UNCHANGED <<queue, opened, buffer, runs, signals, crashes, printed, dispatcher_vars>>

(* The result of mq_open reaches the global variable. *)
AssignDescriptor(w) ==
  /\ WorkerGoto(w, "assign", "receive")
  /\ mq_desc' = [mq_desc EXCEPT ![w] = opened[w]]
  /\ UNCHANGED <<name, queue, opened, buffer, runs, signals, crashes, printed,
                 dispatcher_vars>>

(* Mutant: a received message stays in its queue. *)
ReceiveCopy(w) ==
  LET q == mq_desc[w]
  IN  /\ WorkerGoto(w, "receive", "print")
      /\ \E i \in DOMAIN queue[q] : IsNext(q, i) /\ buffer' = [buffer EXCEPT ![w] = queue[q][i]]
      /\ UNCHANGED <<name, queue, mq_desc, opened, runs, signals, crashes, printed,
                     dispatcher_vars>>

Receive(w) ==
  LET q == mq_desc[w]
  IN  /\ WorkerGoto(w, "receive", "print")
      /\ \E i \in DOMAIN queue[q] :
           /\ IsNext(q, i)
           /\ buffer' = [buffer EXCEPT ![w] = queue[q][i]]
           /\ queue' = [queue EXCEPT ![q] = Without(@, i)]
      /\ UNCHANGED <<name, mq_desc, opened, runs, signals, crashes, printed,
                     dispatcher_vars>>

(* The printf that stands for the work, and the sleep(1) after it *)
Process(w) ==
  /\ WorkerGoto(w, "print", "receive")
  /\ printed' = [printed EXCEPT ![buffer[w]] = @ + 1]
  /\ buffer' = [buffer EXCEPT ![w] = NoTask]
  /\ UNCHANGED <<name, queue, mq_desc, opened, runs, signals, crashes, dispatcher_vars>>

(* The process is gone: its descriptors are closed, its memory is lost. *)
ProcessEnds(w) ==
  /\ wpc' = [wpc EXCEPT ![w] = "off"]
  /\ mq_desc' = [mq_desc EXCEPT ![w] = 0]
  /\ opened' = [opened EXCEPT ![w] = NoQueue]
  /\ buffer' = [buffer EXCEPT ![w] = NoTask]

(* mq_open fails (no descriptor or no memory left): exit(EXIT_FAILURE) *)
CreateFails(w) ==
  /\ wpc[w] = "create"
  /\ ProcessEnds(w)
  /\ UNCHANGED <<name, queue, runs, signals, crashes, printed, dispatcher_vars>>

(* Ctrl+C: the default action before signal(), the handler after it; a     *)
(* signal that comes while the handler runs is never delivered.            *)
Interrupt(w) ==
  /\ signals < MaxSignals
  /\ signals' = signals + 1
  /\ \/ wpc[w] = "start" /\ ProcessEnds(w)
     \/ /\ wpc[w] \in {"unlink", "create", "assign", "receive", "print"}
        /\ wpc' = [wpc EXCEPT ![w] = "close"]
        /\ UNCHANGED <<mq_desc, opened, buffer>>
  /\ UNCHANGED <<name, queue, runs, crashes, printed, dispatcher_vars>>

(* mq_close(mq_desc): descriptor 0, the standard input, if it is not yet   *)
(* assigned                                                                *)
CloseQueue(w) ==
  /\ WorkerGoto(w, "close", "forget")
  /\ opened' = [opened EXCEPT ![w] = IF mq_desc[w] = 0 THEN @ ELSE NoQueue]
  /\ UNCHANGED <<name, queue, mq_desc, buffer, runs, signals, crashes, printed,
                 dispatcher_vars>>

(* Mutant: the handler forgets mq_unlink. *)
LeaveQueue(w) ==
  /\ wpc[w] = "forget"
  /\ ProcessEnds(w)
  /\ UNCHANGED <<name, queue, runs, signals, crashes, printed, dispatcher_vars>>

(* mq_unlink(QUEUE_NAME) of the handler, and exit(0) *)
ForgetQueue(w) ==
  /\ wpc[w] = "forget"
  /\ Unlink
  /\ ProcessEnds(w)
  /\ UNCHANGED <<queue, runs, signals, crashes, printed, dispatcher_vars>>

(* The worker is killed with a signal it cannot handle. *)
Crash(w) ==
  /\ wpc[w] # "off"
  /\ crashes < MaxCrashes
  /\ crashes' = crashes + 1
  /\ ProcessEnds(w)
  /\ UNCHANGED <<name, queue, runs, signals, printed, dispatcher_vars>>

WorkerStep(w) ==
  \/ RegisterHandler(w)
  \/ UnlinkOld(w)
  \/ CreateQueue(w)
  \/ AssignDescriptor(w)
  \/ Receive(w)
  \/ Process(w)
  \/ CloseQueue(w)
  \/ ForgetQueue(w)

-----------------------------------------------------------------------------
(***************************************************************************)
(* The dispatcher                                                          *)
(***************************************************************************)
OpenQueue(d) ==
  /\ dpc[d] = "start"
  /\ name # NoQueue
  /\ dpc' = [dpc EXCEPT ![d] = "send"]
  /\ sendto' = [sendto EXCEPT ![d] = name]
  /\ UNCHANGED <<name, queue, request, worker_vars>>

(* "Make sure task_worker is running" *)
OpenFails(d) ==
  /\ dpc[d] = "start"
  /\ name = NoQueue
  /\ dpc' = [dpc EXCEPT ![d] = "failed"]
  /\ UNCHANGED <<name, queue, request, sendto, worker_vars>>

(* Mutant: the queue is opened with O_NONBLOCK and EAGAIN is not noticed. *)
SendNonblocking(d) ==
  LET q == sendto[d]
  IN  /\ dpc[d] = "send"
      /\ Acceptable(d)
      /\ queue' = IF Len(queue[q]) < MAX_MSG_COUNT
                    THEN [queue EXCEPT ![q] = Append(@, d)] ELSE queue
      /\ dpc' = [dpc EXCEPT ![d] = "sent"]
      /\ UNCHANGED <<name, request, sendto, worker_vars>>

(* mq_send waits while the queue is full. *)
Send(d) ==
  LET q == sendto[d]
  IN  /\ dpc[d] = "send"
      /\ Acceptable(d)
      /\ Len(queue[q]) < MAX_MSG_COUNT
      /\ queue' = [queue EXCEPT ![q] = Append(@, d)]
      /\ dpc' = [dpc EXCEPT ![d] = "sent"]
      /\ UNCHANGED <<name, request, sendto, worker_vars>>

(* EINVAL or EMSGSIZE *)
SendFails(d) ==
  /\ dpc[d] = "send"
  /\ ~Acceptable(d)
  /\ dpc' = [dpc EXCEPT ![d] = "refused"]
  /\ UNCHANGED <<name, queue, request, sendto, worker_vars>>

(* mq_close and return, or exit(EXIT_FAILURE): the descriptor goes *)
Leave(d) ==
  /\ dpc[d] \in {"sent", "refused"}
  /\ dpc' = [dpc EXCEPT ![d] = IF @ = "sent" THEN "done" ELSE "failed"]
  /\ sendto' = [sendto EXCEPT ![d] = NoQueue]
  /\ UNCHANGED <<name, queue, request, worker_vars>>

DispatcherStep(d) == OpenQueue(d) \/ OpenFails(d) \/ Send(d) \/ SendFails(d) \/ Leave(d)

-----------------------------------------------------------------------------
Next ==
  \/ \E w \in Worker : Start(w) \/ WorkerStep(w) \/ CreateFails(w) \/ Interrupt(w) \/ Crash(w)
  \/ \E d \in Dispatcher : DispatcherStep(d)

Spec == Init /\ [][Next]_vars

(* Every process that can take a step takes one in the end; nothing makes  *)
(* anybody start a worker, or mq_open fail.                                *)
Fairness ==
  /\ \A w \in Worker : WF_vars(WorkerStep(w))
  /\ \A d \in Dispatcher : WF_vars(DispatcherStep(d))

FairSpec == Spec /\ Fairness

-----------------------------------------------------------------------------
(* When every worker has ended, and none of them by a crash, the name is   *)
(* gone too: the handler deletes it (line 33, "Without this step, the      *)
(* queue will exist forever"), wherever in its start or its work Ctrl+C    *)
(* finds the worker, and however two workers' starts and ends overlap.     *)
LastWorkerCleansUp ==
  crashes = 0 /\ (\A w \in Worker : wpc[w] = "off") => name = NoQueue

Listening(w) == wpc[w] \in {"receive", "print"}

(* Has only one worker been started so far, once or again and again? *)
Lone == \A v, w \in Worker : runs[v] > 0 /\ runs[w] > 0 => v = w

(* A single worker that listens, listens to the queue that has the name:   *)
(* dispatchers find it ("This function will fail if the worker has not run *)
(* and created the queue", task_dispatcher.c line 28), and every task      *)
(* submitted from now on reaches it, also after a crash has left an old    *)
(* queue with its tasks behind (line 61 removes it, lest the worker's      *)
(* descriptor and the name part).  False of two workers: the handler of    *)
(* one (line 33) and the start of another (line 61) delete the name that   *)
(* a third program uses.                                                   *)
ListensToName ==
  Lone => \A w \in Worker : Listening(w) => name = mq_desc[w]

(***************************************************************************)
(* The task queue keeps the promise of TaskPromise, in which each copy and *)
(* each print of a task counts.                                            *)
(***************************************************************************)
Verdict(d) ==
  CASE dpc[d] \in {"start", "send"}     -> "none"
    [] dpc[d] \in {"refused", "failed"} -> "refused"
    [] OTHER                            -> "accepted"

(* The places in all queues that exist *)
Spots == UNION {{q} \X DOMAIN queue[q] : q \in {p \in Queues : Exists(p)}}

CopiesWaiting(d) == Cardinality({s \in Spots : queue[s[1]][s[2]] = d})
CopiesTaken(d)   == Cardinality({w \in Worker : buffer[w] = d})

Promise == INSTANCE TaskPromise
             WITH Task    <- Dispatcher,
                  verdict <- [d \in Dispatcher |-> Verdict(d)],
                  waiting <- [d \in Dispatcher |-> CopiesWaiting(d)],
                  taken   <- [d \in Dispatcher |-> CopiesTaken(d)]

(* No restart, crash, overlap of workers or deleted name makes a task be   *)
(* printed twice, be in two workers' hands or in a hand and a queue at     *)
(* once, come back after it was lost, or be refused after it was accepted. *)
ImplementsPromise == Promise!Spec

(* Does some worker serve the queue that dispatcher d has open?            *)
Served(d) ==
  \E w \in Worker : wpc[w] \in {"assign", "receive", "print"} /\ opened[w] = sendto[d]

(* Has every worker that was started gone on since? *)
Staffed == \A w \in Worker : runs[w] > 0 => wpc[w] \notin {"off", "close", "forget"}

(* A dispatcher whose queue is served does not wait for ever while it is   *)
(* full, and the task that mq_send accepts is printed, whatever more       *)
(* urgent ones come (task_dispatcher.c line 43, task_worker.c lines 76 and *)
(* 77), unless a worker ends: also when the start of another worker has    *)
(* taken the name away from the queue, and with two workers at one queue.  *)
EveryTaskIsProcessed ==
  \A d \in Dispatcher :
    dpc[d] = "send" /\ Acceptable(d) /\ Served(d) ~> printed[d] > 0 \/ ~Staffed
=============================================================================
