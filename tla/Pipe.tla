-------------------------------- MODULE Pipe --------------------------------
(***************************************************************************)
(* mypipe.c: a parent and two children that become "ls -l" and "wc -l",    *)
(* joined by a pipe.                                                       *)
(*                                                                         *)
(* What is hard is who has which end of the pipe open at what time: wc     *)
(* ends only when nobody at all can write any more, ls survives only while *)
(* somebody can read, and fork() gives every child a copy of both ends.    *)
(* The data are chunks without content, as many as ls writes.              *)
(***************************************************************************)
EXTENDS Integers

CONSTANTS
  CHUNKS,       \* how many chunks ls has to write
  CAPACITY      \* how many the pipe holds

ASSUME PipeAssumption == CHUNKS \in Nat /\ CAPACITY \in Nat \ {0}

VARIABLES
  main,         \* where the parent is
  child,        \* where each child is
  status,       \* how each child ended
  fds,          \* the descriptors of each process that lead to the pipe
  buffer,       \* the chunks in the pipe
  written, counted

vars == <<main, child, status, fds, buffer, written, counted>>

Child   == {"ls", "wc"}
Process == Child \union {"parent"}

(* pipefd[0] and pipefd[1]; the standard streams count when redirected *)
ReadEnd  == {"pipefd0", "stdin"}
WriteEnd == {"pipefd1", "stdout"}

Readers == {p \in Process : fds[p] \intersect ReadEnd # {}}
Writers == {p \in Process : fds[p] \intersect WriteEnd # {}}

(* The end a child closes, the one it uses, and the stream it uses it as *)
Unneeded(c) == IF c = "ls" THEN "pipefd0" ELSE "pipefd1"
End(c)      == IF c = "ls" THEN "pipefd1" ELSE "pipefd0"
Stream(c)   == IF c = "ls" THEN "stdout" ELSE "stdin"

MainStep  == {"pipe", "fork_ls", "fork_wc", "close_read", "close_write",
              "wait_ls", "wait_wc", "end", "exit"}
ChildStep == {"off", "close", "dup", "close_copy", "exec", "run", "zombie", "reaped"}
Status    == {"none", "ok", "failed", "sigpipe"}

Init ==
  /\ main = "pipe"
  /\ child = [c \in Child |-> "off"]
  /\ status = [c \in Child |-> "none"]
  /\ fds = [p \in Process |-> {}]
  /\ buffer = 0
  /\ written = 0
  /\ counted = 0

data == <<buffer, written, counted>>

-----------------------------------------------------------------------------
(***************************************************************************)
(* The parent                                                              *)
(***************************************************************************)
MainGoto(from, to) == main = from /\ main' = to

CreatePipe ==
  /\ MainGoto("pipe", "fork_ls")
  /\ fds' = [fds EXCEPT !["parent"] = {"pipefd0", "pipefd1"}]
  /\ UNCHANGED <<child, status, data>>

(* pipe() or one of the two fork() calls fails: exit(EXIT_FAILURE), and    *)
(* nobody waits for a child forked already                                 *)
GiveUp ==
  /\ main \in {"pipe", "fork_ls", "fork_wc"}
  /\ main' = "exit"
  /\ fds' = [fds EXCEPT !["parent"] = {}]
  /\ UNCHANGED <<child, status, data>>

Fork(c, from, to) ==
  /\ MainGoto(from, to)
  /\ child' = [child EXCEPT ![c] = "close"]
  /\ fds' = [fds EXCEPT ![c] = fds["parent"]]
  /\ UNCHANGED <<status, data>>

(* Mutant: the parent leaves its ends open. *)
LeaveOpen(fd, from, to) ==
  /\ MainGoto(from, to)
  /\ UNCHANGED <<child, status, fds, data>>

CloseEnd(fd, from, to) ==
  /\ MainGoto(from, to)
  /\ fds' = [fds EXCEPT !["parent"] = @ \ {fd}]
  /\ UNCHANGED <<child, status, data>>

(* waitpid(pid, NULL, 0) *)
WaitFor(c, from, to) ==
  /\ MainGoto(from, to)
  /\ child[c] = "zombie"
  /\ child' = [child EXCEPT ![c] = "reaped"]
  /\ UNCHANGED <<status, fds, data>>

(* Mutant: the read end is closed before the second fork. *)
CloseTooEarly ==
  \/ CreatePipe
  \/ Fork("ls", "fork_ls", "close_read")
  \/ CloseEnd("pipefd0", "close_read", "fork_wc")
  \/ Fork("wc", "fork_wc", "close_write")
  \/ CloseEnd("pipefd1", "close_write", "wait_ls")
  \/ WaitFor("ls", "wait_ls", "wait_wc")
  \/ WaitFor("wc", "wait_wc", "end")

Parent ==
  \/ CreatePipe
  \/ Fork("ls", "fork_ls", "fork_wc")
  \/ Fork("wc", "fork_wc", "close_read")
  \/ CloseEnd("pipefd0", "close_read", "close_write")
  \/ CloseEnd("pipefd1", "close_write", "wait_ls")
  \/ WaitFor("ls", "wait_ls", "wait_wc")
  \/ WaitFor("wc", "wait_wc", "end")

-----------------------------------------------------------------------------
(***************************************************************************)
(* A child, up to execlp()                                                 *)
(***************************************************************************)
ChildGoto(c, from, to) ==
  /\ child[c] = from
  /\ child' = [child EXCEPT ![c] = to]

CloseUnneeded(c) ==
  /\ ChildGoto(c, "close", "dup")
  /\ fds' = [fds EXCEPT ![c] = @ \ {Unneeded(c)}]
  /\ UNCHANGED <<main, status, data>>

(* Mutant: dup2 is forgotten. *)
RedirectNothing(c) ==
  /\ ChildGoto(c, "dup", "close_copy")
  /\ UNCHANGED <<main, status, fds, data>>

(* dup2, whose result nobody looks at *)
Redirect(c) ==
  /\ ChildGoto(c, "dup", "close_copy")
  /\ fds' = [fds EXCEPT ![c] = IF End(c) \in @ THEN @ \union {Stream(c)} ELSE @]
  /\ UNCHANGED <<main, status, data>>

CloseCopy(c) ==
  /\ ChildGoto(c, "close_copy", "exec")
  /\ fds' = [fds EXCEPT ![c] = @ \ {End(c)}]
  /\ UNCHANGED <<main, status, data>>

Exec(c) ==
  /\ ChildGoto(c, "exec", "run")
  /\ UNCHANGED <<main, status, fds, data>>

(* A process ends, and the kernel closes what it has open.  A child that   *)
(* has lost its parent stays "zombie" here; init reaps it.                 *)
Exit(c, how) ==
  /\ child' = [child EXCEPT ![c] = "zombie"]
  /\ status' = [status EXCEPT ![c] = how]
  /\ fds' = [fds EXCEPT ![c] = {}]
  /\ UNCHANGED <<main, data>>

ExecFails(c) == child[c] = "exec" /\ Exit(c, "failed")

Prepare(c) == CloseUnneeded(c) \/ Redirect(c) \/ CloseCopy(c) \/ Exec(c)

-----------------------------------------------------------------------------
(***************************************************************************)
(* ls and wc at work                                                       *)
(***************************************************************************)
Write ==
  /\ child["ls"] = "run"
  /\ written < CHUNKS
  /\ Readers # {}
  /\ buffer < CAPACITY
  /\ buffer' = buffer + 1
  /\ written' = written + 1
  /\ UNCHANGED <<main, child, status, fds, counted>>

(* SIGPIPE: a write nobody can read any more *)
BrokenPipe ==
  /\ child["ls"] = "run"
  /\ written < CHUNKS
  /\ Readers = {}
  /\ Exit("ls", "sigpipe")

LsEnds ==
  /\ child["ls"] = "run"
  /\ written = CHUNKS
  /\ Exit("ls", "ok")

Read ==
  /\ child["wc"] = "run"
  /\ buffer > 0
  /\ buffer' = buffer - 1
  /\ counted' = counted + 1
  /\ UNCHANGED <<main, child, status, fds, written>>

(* End of file: the pipe is empty and nobody can write any more; wc prints *)
(* its number and ends.                                                    *)
EndOfFile ==
  /\ child["wc"] = "run"
  /\ buffer = 0
  /\ Writers = {}
  /\ Exit("wc", "ok")

Ls == Prepare("ls") \/ Write \/ BrokenPipe \/ LsEnds
Wc == Prepare("wc") \/ Read \/ EndOfFile

Next == Parent \/ GiveUp \/ Ls \/ Wc \/ \E c \in Child : ExecFails(c)

Spec == Init /\ [][Next]_vars

(* The three processes run; nothing makes a call fail. *)
FairSpec == Spec /\ WF_vars(Parent) /\ WF_vars(Ls) /\ WF_vars(Wc)

-----------------------------------------------------------------------------
TypeOK ==
  /\ main \in MainStep
  /\ child \in [Child -> ChildStep]
  /\ status \in [Child -> Status]
  /\ fds \in [Process -> SUBSET (ReadEnd \union WriteEnd)]
  /\ buffer \in 0..CAPACITY
  /\ written \in 0..CHUNKS
  /\ counted \in 0..CHUNKS

(* The number wc prints is the number of chunks ls has written, and ls has *)
(* ended: wc does not take a pause of ls, or its not having begun, for the *)
(* end of the data, in whatever order the three processes close their ends *)
(* (lines 38 to 45, 69 to 76, 89 and 90).                                  *)
CountIsComplete ==
  status["wc"] = "ok" => status["ls"] # "none" /\ counted = written

(* ls loses its reader only when a call has failed: wc could not be forked *)
(* or its execlp failed.  That the parent still has the read end open when *)
(* it forks wc (line 57 before line 89) is what this rests on.             *)
PipeBreaksOnlyByFailure ==
  status["ls"] = "sigpipe" => main = "exit" \/ status["wc"] = "failed"

(* Everybody comes to an end, whichever calls fail: wc reads end of file   *)
(* since the parent and wc itself have closed the write end ("This is a    *)
(* VERY IMPORTANT step!", line 88), and a full pipe does not hold ls up    *)
(* for ever.                                                               *)
EverybodyEnds ==
  <>(/\ main \in {"end", "exit"}
     /\ \A c \in Child : child[c] \in {"off", "zombie", "reaped"})
=============================================================================
