# A verification project for the Linux programming exercises

The repository holds the exercises of a course in Linux system programming:
small C programs about processes, threads, signals, pipes, sockets, message
queues, shared memory and semaphores. Most are a page long, and all that is
hard about them is concurrency: who does what before whom, what a signal
meets, what a crash leaves behind. That is what this project models in TLA+,
checks with TLC and, for the programs that promise most, proves with TLAPS.

## 1. The system

| Program | State it keeps | Operations | What is hard |
|---|---|---|---|
| **Restaurant** (`Exercise_Lesson_11/IPC_Semaphore/restaurant_manager_final.c`): a manager, two chefs, three customers, one process each | shared memory with two trays, indices, counters and six semaphores; `child_pids` | a worker's round; the report loop; hiring; `cleanup` on SIGINT | five writers and one reader, two mutexes held at once, starvation, workers killed inside their critical section, a handler that returns |
| **Task queue** (`Exercise_Lesson_9`): `task_worker`, `task_dispatcher`, `send_tasks.sh` | the POSIX queue `/my_task_queue`, its name, open descriptors, the task in hand | start, receive, process, Ctrl+C, crash; open, send | the name is deleted under others' feet; old queues; a full queue; Ctrl+C during start |
| **Producer and consumer threads** (`Exercise_Lesson_4/producer_consumer.c`) | one value, one flag, mutex, condition variable | produce, consume, create, join | lost and spurious wakeups, overwriting |
| **Pipe** (`Exercise_Lesson_7/mypipe.c`) | descriptors of three processes, the pipe | fork, close, dup2, exec, waitpid | end of file and SIGPIPE depend on every copy of every end |
| **Signals between processes** (`Exercise_Lesson_5/signal_process_communicate.c`) | a counter, one pending bit | kill, handler, pause | merged signals, test-then-pause, registration |
| **Waiting for input** (`Exercise_Lesson_5/wait_signal_user_input.c`) | standard input, two handlers | select, read, echo | EINTR, end of file |
| **Shared memory product** (`Exercise_Lesson_10`) | an object with name, size and fields | create, size, write fields; open, read, unlink | nothing orders the two programs |
| **Counting signals** (`Exercise_Lesson_5/basic_signal.c`, `sigalrm_create_timer.c`) | a counter, one pending bit, an alarm | handler, alarm, pause | merged signals; an alarm that goes off inside its own handler |
| **Counter, reader-writer lock** (`Exercise_Lesson_4/race_condition_solved.c`, `rwlock_demo.c`) | a number, a lock, the threads | create, add, read, join, destroy | lost updates, readers beside writers, unchecked `pthread_create` |
| **Sockets** (`Exercise_Lesson_6`): TCP, UDP, Unix stream and Unix datagram, a server and a client each | ports, file names, queues, connections | bind, listen, accept, connect, send, receive, close, unlink | servers beside each other, files and ports left behind, the listen queue, SIGPIPE, lost datagrams |
| Basic threads (`Exercise_Lesson_4/basic_threads.c`), processes (`Exercise_Lesson_3`), stages 1 and 2 of the restaurant | - | each call once, in one order | - |
| Strings (`Exercise_Lesson_1`), file status (`Exercise_Lesson_2`) | - | sequential | - |

The programs of one lesson interact with each other and with nothing else. The
restaurant's processes share memory, the manager also signals and reaps them;
workers and dispatchers meet only through the queue's name and its messages;
the two shared memory programs only through the object's name and content;
a socket server and its clients through a port or a file name, by which they
find each other, and the queues behind it.

What makes each of them correct:

* Restaurant: mutual exclusion per tray, no place lost or invented, exact
  counters, consistent reports, circular trays, nobody starved; a closing that
  stops and reaps everybody and releases everything; what a dead worker has
  left half done is seen by nobody; workers do not depend on the manager.
* Task queue: each task refused, or accepted and then printed, at most once and
  from its only copy; a worker listens to the queue that dispatchers find; no
  queue left behind.
* Producer and consumer: every item handed over once, no lost wakeup, both
  threads end.
* Counter: every addition counted; a reader sees one value; the lock outlives
  its users.
* Pipe: `wc` counts everything, nobody hangs, no SIGPIPE without a failure.
* Signals: none counted twice, none lost but by a nap that was too short, the
  timer keeps time, all programs end; SIGTERM ends the input loop.
* Sockets: an answer answers what was asked; a name leads to the server that
  waits; no file stays; no client waits for ever but for a lost datagram.
* Product: printed whole and once; no fatal read; nothing left behind.

## 2. Modules

| Module | Models | Notes |
|---|---|---|
| `FoodTray` | what one tray promises | abstract; implemented twice by `Kitchen` |
| `Kitchen` | the shared memory, the five workers and the report loop | every access to shared memory is a step; `WorkerNext` is one worker's round, written once for all five since their bodies differ in tray, sign and index arithmetic only |
| `Restaurant` | hiring, SIGINT, `cleanup`, deaths, reuse of pids | EXTENDS `Kitchen`: the kitchen's actions happen while a worker lives |
| `TaskPromise` | what happens to a task: verdict, copies, prints | abstract |
| `TaskQueue` | worker, dispatcher, the kernel's queues | queues are objects that outlive their name |
| `LatestValueBox` | a box for one value | abstract |
| `Handoff` | the two threads and `main` | a nap may end at any time; `timely` remembers whether one ended early |
| `Pipe` | `mypipe.c` with `ls` and `wc` | data are counted chunks |
| `SignalChild` | parent and child | naps end at any time; `early` counts those that have ended too early |
| `WaitInput` | the input loop | the user and the senders of signals are actions |
| `SignalCounter` | the program that counts Ctrl+C and the one that counts alarms | the same but for what sends the signal |
| `SharedCounter` | the counter under a mutex and under a reader-writer lock | a mutex is the lock of a program without readers |
| `Sockets` | all eight socket programs | each is the sequence of its calls; each call is one action |
| `ShmProduct` | both programs, run again and again | at the same time or not; `orderly` remembers which |
| `Signals` | the signal programs, one at a time | EXTENDS `SignalChild`, INSTANCEs `WaitInput` and `SignalCounter`; `run` says which one a behaviour is of |
| `RestaurantProofs` (of `Kitchen`, too), `TaskQueueProofs`, `HandoffProofs`, `PipeProofs`, `SignalsProofs`, `SharedCounterProofs`, `SocketsProofs`, `ShmProductProofs` | theorems | one module for each module that has state, or for a composition |
| `MC*` | instances for TLC | |

State and code correspond by name where TLA+ allows it (`count`, `in`, `out`,
`mq_desc`, `data_ready`, `signal_count`, ...); program counters (`pc`, `wpc`,
`mgr`, `boss`, ...) stand for the position in the source, and
`PROJECT.json` gives the lines of every definition. Definitions whose comment
begins with "Mutant" are wrong variants of the definition that follows them;
no specification uses them. Each property has one that violates it, so that
each is known to depend on the code it is about.

### Restaurant

A worker's round is *slot* (`sem_wait` on empty or full), *lock*, *cell*,
*index*, *load*, *store*, *unlock*, *post*. `count++` is a load and a store.
The two arrays are adjacent in the struct, so `cells` is one function and the
store to `non_vegan_tray[TRAY_SIZE]` is the store to `vegan_tray[0]` that the
compiled program performs. `BitAnd` spells out the `&` of line 112.
The constant `TRAY_SIZE` is between 1 and 15 because `BitAnd` has four bits;
the program's value is 10.

`Restaurant` adds the manager's phase `boss`, and for each worker what its pid
stands for: not forked, alive, about to die, zombie, reaped, or reused by
another program. `CtrlC` signals the whole foreground group, workers included,
since they were forked before `signal()`; `KillInt` only the manager. The
handler runs between any two steps of the report loop, SIGINT is blocked while
it runs, and it returns into the loop. `cleanup`'s argument is the signal
number, so `munmap` gets an address that is not mapped.

### Task queue

`name` is what `/my_task_queue` leads to. Every `mq_open` that finds no name
creates an object; objects keep their messages while a descriptor is open.
SIGINT is possible at every point of a worker from its start on, also between
`mq_open` and the assignment of `mq_desc`; a crash is possible everywhere.
Each dispatcher has its request, a priority and whether the text fits into a
message; what `atoi` makes of a negative number is the `unsigned int` it wraps
to, and `Acceptable` compares it with `MQ_PRIO_MAX`. `printed` counts how often
a task has been printed. The mapping to `TaskPromise` counts copies: the places
of all existing queues that hold a task are its waiting copies, the workers
that have received it and not printed it its taken ones. A second copy of a
task anywhere, or a second print of it, is no step of `TaskPromise`. A queue
that nobody has open any more and nobody can find takes its copies along, as a
worker that ends takes the one in its hands (`Lose`), and nothing brings a copy
back.

### Sockets

The eight programs differ in the calls they make and in what a family's
sockets do, so `Sockets` has a table of programs (`TcpServer`,
`UnixDgramClient`, ...), `todo` for the calls a process has not made, and one
action per call. The other half is the kernel, modelled from how the programs
use it: `name` says which process an address leads to (a file name outlives
its socket, a port does not), `queue` holds what is to be accepted or read,
`hungup` the connections the server's side has closed, `lingering` the
TIME_WAIT in which a port is after its server closed first (the code does not
set SO_REUSEADDR). Messages are short and one `read` takes one; a process may
be killed, or have a call fail, between any two calls. A server answers one
client and ends, as in the code; those in its listen queue see the connection
closed.

### Counter

`counter++` and `shared_resource++` are a load and a store in the critical
section. `pthread_create` may fail, and since its result is not looked at,
`pthread_join` then gets whatever the `pthread_t` holds: it comes back with an
error or crashes the program.

### Threads, pipe, signals, input, product

These modules follow the sources step by step. Calls whose results are
ignored in the code succeed or fail as the kernel would have it and the
program goes on (`dup2` in `Pipe!Redirect`); calls whose failure is handled
have an action for it (`GiveUp`, `ExecFails`, `ForkFails`, `CreateFails`,
`OpenFails`, `SendFails`). In `WaitInput` a Ctrl+D is a piece of input that
ends one `read`; a closed pipe ends all that follow. In `ShmProduct` the user enters what is asked for;
`scanf` on text that is no number is left out.

## 3. Runs

All runs that pass explore the whole state space of their instance.

| Run | Question | Bounds, and why they are enough |
|---|---|---|
| `kitchen` | all safety of the kitchen, and deadlock | 2 places per tray: full, empty and in between occur, indices wrap, and customer 1's index takes its out-of-range value. All five workers |
| `kitchen_live` | starvation | 1 place: most contention |
| `kitchen_stray` | finding at line 112 | 2 places |
| `restaurant` | hiring, SIGINTs, closing, deaths, workers without a manager, reused pids; safety and liveness | 1 place is enough for every point of a worker's round, and so for every place where a signal can meet it; both chefs and customer 3, so that no tray is without a worker; 2 SIGINTs at any points, 1 pid reused |
| `restaurant_ctrl_c` | finding about closing | same crew, 1 SIGINT |
| `tasks` | the promise (one copy, one print); which queue a worker listens to; what is left behind; that every task sent to a worker is printed | one worker started twice and one once, 2 SIGINTs, 1 crash, so that old and nameless queues occur; 2 dispatchers at a queue of 1 message, so that one finds it full; two tasks of different priority, or one with a negative number and one too long |
| `handoff` | safety of the hand-over with any timing; everything arrives if no nap ended early | 4 items |
| `pipe` | everything about the pipe | 3 chunks through a pipe of 1, each call may fail |
| `signals` | the four signal programs: any timing, each loss owed to a nap that ended early, the limit reached | the parent sends 8 signals (5 in the program); 2 pieces of input and 2 signals for the input loop; a limit of 4 (3 and 10 in the programs) and 5 Ctrl+C, so that some can merge and 4 still be counted |
| `product` | programs run beside each other, one killed; whole products if run one at a time | 2 producers and a consumer, 4 runs: two products one after the other |
| `counter` | the final number and what readers see, and deadlock | 3 writers of 2 rounds, 2 readers, 1 failing `pthread_create`: writers meet writers, readers meet readers and writers, and a thread is missing among others |
| `sockets` | the four families: safety, and that clients end | 2 servers and 2 clients: a server beside another or after it, a client in the queue behind another, two with one file name. `Backlog` is 0 (3 in the sources) so that two clients fill the queue; 1 process killed at any point |

Two hazards meet in `handoff` and `signals`: the programs are right only
while every `sleep` is long enough, which no scheduler promises. The models
let a nap end at any time. In `Handoff` the history variable `timely` becomes
FALSE when one ends too early, and in `SignalChild` `early` counts those that
do. What holds in any case is stated without them (`NoLostWakeup`,
`PrintsOnlyNew`, `ImplementsBox`) or says what each short nap can cost
(`SignalsAccounted`: one signal, or the child, and never more); what depends on
the naps is stated with them (`Terminates`, `CountersEnd`). In the same way
`orderly` in `ShmProduct`, `Lone` and `Staffed` in `TaskQueue`, `merged` in
`SignalCounter`, and `met` and `lost` in `Sockets` say what is promised to
whom. `EveryTaskIsProcessed` speaks of each queue that some worker reads
(`Served`), also after another worker has deleted its name. It does not speak
of a full queue that no worker reads, where a dispatcher waits for ever, and it
excuses a task when a worker has ended (`Staffed`). `PrintsWholeProductsOnce` and
`NothingLeftBehind` are about programs run one at a time, because of two at
once neither is true: `BusErrorOnlyInWindow` is what remains.

`CHECK_DEADLOCK FALSE` stands in the configurations of programs that end or
really stop: the manager may wait for the mutex of a dead worker, the threads
for an item that never comes, the child for a signal, a datagram client for an
answer. The kitchen never stops and the counter programs stop only at their
end (`Ended`), and there deadlock is checked.

The signal programs know nothing of each other and are small, so one run takes
them all: in `Signals` the variable `run` is chosen at the beginning, the
chosen specification's actions and fairness apply, and the other two stand
still. Each property speaks of its own program.

### Fairness

* `Kitchen`: strong fairness of each process. A process has at most one step
  enabled. glibc's semaphores do not queue waiters, but each worker sleeps at
  least a second between rounds and the manager ten, so a waiter that is woken
  cannot lose the race for ever.
* `Restaurant`: weak fairness of the running processes and of deaths, strong
  fairness of the report loop. `OrphansWorkOn` needs no more than weak fairness
  of the workers: it promises that a worker gets through the round it is in.
* `TaskQueue`, `Pipe`, `SignalChild`: weak fairness of each process; nothing
  makes a user start a worker, a call fail or a signal arrive.
* `Handoff`: as above, with strong fairness for the mutex; spurious wakeups are
  never forced.
* `WaitInput`: weak fairness of the program, strong fairness of taking a
  signal, since at end of file the program never waits.
* `SignalCounter`: weak fairness of the program and of an alarm that is set;
  nobody has to press Ctrl+C.
* `Sockets`: weak fairness of each process that has been started. Nobody has to
  start a server, so a datagram to no server is lost and its sender waits; no
  datagram has to arrive.
* `SharedCounter`: none, only safety is stated.

## 4. What does not hold

Two runs expect a violation (`findings` in `PROJECT.json`):

1. `kitchen_stray`. Customer 1 computes its index with `&` where customer 3
   uses `%` (line 112). The index can become `TRAY_SIZE`, and then the first
   cell of the vegetarian tray is cleared, without its mutex.
2. `restaurant_ctrl_c`. "(Press Ctrl+C to close)": the handler returns into the
   report loop and the manager goes on.

Other disagreements of a comment with its program are in the models as they
are in the code; the properties above are stated so that they are true beside
them.

3. With the same `&` the customers clear other cells than those that hold the
   dishes, and a chef granted an empty seat stores over a dish.
4. `cleanup` gets the signal number for its pointer: `munmap` fails unnoticed,
   and the memory stays mapped (`ReleaseSpace`).
5. `child_pids` is never reset: a second Ctrl+C sends SIGKILL to pids that were
   reaped by the first and may be others' (`KillChild` of a "stranger"). Hence
   `FirstCleanupSparesStrangers` says "first".
6. Two task workers delete each other's queue name; a dispatcher is then told
   that no worker runs. Hence `ListensToName` is about a `Lone` worker.
7. Priorities above 31 are accepted, whatever line 42 of `task_dispatcher.c`
   says.
8. If a nap ends early, `producer_consumer.c` overwrites an item and its
   consumer waits for ever, and `signal_process_communicate.c` kills a child
   that has no handler yet, or loses a signal and leaves both processes
   waiting.
9. SIGINT makes `select` fail with EINTR, and `wait_signal_user_input.c`, which
   has just printed "Continuing..." (line 15), exits with code 1
   (`WaitInput!After`); at end of file its loop spins.
10. A consumer that opens the shared object before the producer's `ftruncate`
    dies of SIGBUS (`BusErrorOnlyInWindow` states when).
11. "The program will exit after the 3rd Ctrl + C" (`basic_signal.c:34`): two
    in quick succession are one. Hence `merged` in `LimitEnds`.
12. Two Unix servers remove each other's socket file, so that clients do not
    find the one that waits. Hence `met` in `ServerCanBeFound`.
13. All clients of the Unix datagram server bind the same file, and one gets
    the answer to another. Hence the exception in `AnswersEarned`.
14. A TCP server that is started again soon after it has ended fails in
    `bind`; a program that writes to a Unix stream whose other end is gone is
    killed by SIGPIPE and leaves its file behind; a UDP client whose datagram
    is lost waits for ever.

## 5. Theorems

Every invariant and every action property that a passing run checks is a
theorem, checked by TLAPS for every value of the constants that the named
assumptions allow, and so are the three refinements. The assumptions say no
more than the programs do:

| Assumption | What it says |
|---|---|
| `TraySizeAssumption` | `TRAY_SIZE` is in 1..15, the numbers `BitAnd` covers |
| `CrewAssumption`, `BoundsAssumption` | a non-empty crew without repetition; the bounds are numbers |
| `TaskQueueAssumption` | each request has an integer priority and either fits into a message or does not; the queue holds at least one message, and there is at least one priority; the value for "nobody" is no dispatcher |
| `HandoffAssumption`, `PipeAssumption`, `SignalsAssumption`, `LimitAssumption` | the items and the chunks are numbers (0 too), the pipe has at least one place, at least one signal is sent, the limit is positive |
| `CounterAssumption` | at least one writer and one round, any number of readers and of failed creations; the counter starts at an integer |
| `SocketsAssumption`, `ShmAssumption` | no process is a server and a client, the value for "nobody" is neither; no terminal runs a producer and a consumer at once; the bounds are numbers |

* **Kitchen.** `MutualExclusion`, `PlacesConserved` and `CountTracksDishes` are
  sums over the five workers: a semaphore plus the number of workers in a
  phase. They are not inductive alone: that `count--` cannot go below zero
  needs the tie between the counter and `full`, that tie needs that a worker
  about to store has loaded the current value, and that needs mutual
  exclusion. The invariant `IInv` is their conjunction with the types. From it
  follow reports as snapshots, `TraysAreFoodTrays` (the refinement) and
  `StrayStoresConfined`, which also uses that customer 1's index never exceeds
  `TRAY_SIZE`.
* **The vegetarian tray as a queue** (`VeganTrayQueues`). Inside a critical
  section the tray is not a queue: `QueueInv` says for each point between the
  store to the cell and the store of the counter what it is instead, in terms
  of the distance of a cell from `out`. That the chef's cell is free and the
  customer's is not comes from `IInv` (`RoomAndDish`); that the other tray's
  workers do not interfere from the confinement of the stray store. The
  arithmetic of `%` is in four lemmas of its own (`Wrap`, `CellAtDistance`,
  `InMovesOn`, `OutMovesOn`).
* **Restaurant.** `RestaurantImplementsKitchen`: every step of the larger
  specification is a step of the kitchen or leaves it alone, so what is proved
  of the kitchen holds here. `DeadHoldersKeepTraysShut` is what that means for a
  worker that dies with a mutex: it is the only holder, nobody but a holder
  writes the tray's index and counter, and none of the ways to go on - reports,
  other workers, a cleanup that releases everything, a second one - makes a
  second holder, so nobody sees the half-done update. `CleanupLeavesNoWorker`
  counts: in the waiting loop the number of children left is at most the number
  of waits left, and no child is left unsignalled. `FirstCleanupKillsNoStranger`
  and `ClosedTraysStayStill` rest on `ClosingInv`: nobody is reaped before the
  first cleanup has killed all it will kill, and after a cleanup there is no
  child in the report loop.
* **Task queue.** `Shape` ties descriptors to phases. `WillCleanUp` is why no
  queue is left: while the name is there and nobody has crashed, some worker is
  between its `mq_open` and the `mq_unlink` of its handler, although it need
  not be the one that created the queue. `KeepsName` is `ListensToName` from
  the `mq_open` on. `OnePlace` says that a task is in one place of one queue or
  in one worker's hands, that it is printed at most once, and that one that
  is printed is nowhere else. `CopiesCounted` turns this into the cardinalities
  of the mapping to `TaskPromise`: each is 0 or 1. `QuietLoses` shows that a
  step that moves no task can only make copies vanish, `LoudMoves` that each
  `Send`, `Receive` and `Process` is a step of `TaskPromise`
  (`TaskQueueKeepsPromise`).
* **Handoff.** The consumer sleeps only with the flag down or while the
  producer still has to signal; what is flagged is newer than what is printed;
  the mapping to `LatestValueBox`.
* **Pipe.** The invariant lists which descriptors each process has at each
  step; who can still write at end of file, and read at SIGPIPE, follows.
* **Signals.** The parent and the child (`NapsAccountForSignals`): the sum of
  counted, running and pending signals is at most the number sent and, while
  the child lives, lacks no more than the naps that ended too early. That it
  stays so when a signal meets a pending one needs `NapIsSpare`: if the child has
  something to do at the moment of a kill, the nap before it was too short and
  has not been charged with a signal yet. The timer: of alarm, pending bit and handler exactly one has the
  second that is under way, so no alarm can meet a pending one. Both are proved
  of the specification the run checks.
* **Counter.** The additions made are a set of pairs (writer, round); the
  counter is `START` plus its cardinality. A store adds the pair that is
  missing, because a writer that holds the lock holds it alone and its register
  is the counter. When `main` has joined all threads that exist, the set is all
  rounds of all writers that were created, and its cardinality a product.
* **Sockets.** Each process is the list of calls it has not made, and
  `AtItsPlace` says that the list is the end of its program, so that its length
  tells where it is. On this rest `NameInv` (a server that waits has its name
  or has met another; a socket file that is there has a process of its kind
  that was killed or still owes the `unlink`), `FreshFiles` (a Unix server that is about
  to bind finds no file, since it has just removed it, unless another has run
  beside it) and `AnswerInv`. For streams
  `StreamInv` adds that a client is in no queue and at no server before it has
  connected, and that a server sends only after it has read or the client is
  gone. For the Unix datagram programs, whose answers can go astray,
  `DatagramInv` says that a client's datagram or its answer is in at most one
  spot: a place in a queue, a server's hand, a client's answer; each step maps
  spots to former spots one to one.
* **Product.** `SizeInv`, whoever runs beside whom: an object without a size has
  a producer at its `ftruncate`, or somebody was killed; who could read one
  field can read the others. `OrderInv`, for programs run one at a time: how
  much of the product is in memory and in the consumer's hands at each step of
  the one program that runs, and that it is newer than all that is printed.

The type invariants are parts of the proved invariants (`TypeCorrect` of the
kitchen is stated as a theorem of its own). Where an invariant was stronger
than its property TLC has checked it first on the run's instance.

Only model-checked are the temporal properties: `ManagerKeepsReporting` and
`Customer3EatsBoth`, `CleanupEnds`, `ReportsUnlessHolderDies`, `OrphansWorkOn`,
`EveryTaskIsProcessed`, `Terminates`, `EverybodyEnds`, `CountersEnd`,
`TermEnds`, `EveryClientEnds`. They need fairness, that is `ENABLED`, which the
prover does not know; the same holds of the absence of deadlock in the kitchen
and the counter. `WaitInput` promises nothing but that it ends, and so has no
theorem.

## 6. Plan

1. (done) All components that are modelled at all, with their runs.
2. (done) The safety of every component as theorems, and the refinements.
3. What the temporal properties rest on and is no temporal formula itself: that
   a process that has not ended, and is not waiting for what the property
   excuses, can take a step, with the guards of its steps written out; and the
   quantities that fall with each step.

### Not modelled

* **Stages 1 and 2 of the restaurant**: earlier versions of the same program, one
  process that maps the memory, fills it in and waits for Enter. There is no
  second actor; the state they leave is the initial state of `Kitchen`.
* **`basic_threads.c`**: two threads that share nothing.
* **Processes** (`Exercise_Lesson_3`): `fork`, `exec`, `wait`, `sleep`, each once
  and in one order, between processes that share nothing. Zombies and reaping
  are in `Restaurant`, `exec` and its failure in `Pipe`.
* **String utilities** (`Exercise_Lesson_1`): sequential functions without state
  between calls; `main`'s buffers of 20 and 10 bytes keep the number that
  `str_to_int` narrows from `long` to `int` in range.
* **`filestat.c`**: prints what `lstat` returns.
* **Inside the C library**: stdio, and so `printf` inside signal handlers.
* **Wrong use and failing set-up**: text where `scanf` wants a number; a failing
  `mmap` of the manager, `pthread_mutex_init` or `socket()`, after which the
  program ends before anybody else can see it. A producer of the product whose
  `ftruncate` or `mmap` fails leaves what one leaves that is killed there.
* **Partial reads**: the messages of the socket programs are shorter than any
  buffer, and a `read` takes them whole.
