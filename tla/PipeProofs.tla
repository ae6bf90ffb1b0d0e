----------------------------- MODULE PipeProofs -----------------------------
(***************************************************************************)
(* For every amount of data and every capacity of the pipe: wc's number is *)
(* complete, and ls loses its reader only when a call has failed.          *)
(*                                                                         *)
(* The invariant says which descriptors each process has at each step of   *)
(* its preparation; from that it follows who can still write or read when  *)
(* end of file or SIGPIPE is found.                                        *)
(***************************************************************************)
EXTENDS Pipe, TLAPS

Ended(c) == child[c] \in {"zombie", "reaped"}

(* What a child has open at each step of its way to execlp *)
ChildFds(c) ==
  /\ child[c] \in {"close", "dup"} => End(c) \in fds[c]
  /\ child[c] \in {"close_copy", "exec", "run"} => Stream(c) \in fds[c]
  /\ Ended(c) <=> status[c] # "none"

ParentFds ==
  /\ main \in {"fork_ls", "fork_wc"} => {"pipefd0", "pipefd1"} \subseteq fds["parent"]
  /\ main = "close_read" => "pipefd0" \in fds["parent"]

(* Which children have been forked *)
Forked ==
  /\ main \in {"pipe", "fork_ls"} => child["ls"] = "off"
  /\ main \in {"pipe", "fork_ls", "fork_wc"} => child["wc"] = "off"
  /\ child["wc"] # "off" => child["ls"] # "off"
  /\ child["ls"] = "off" => main \in {"pipe", "fork_ls", "exit"}
  /\ child["wc"] = "off" => main \in {"pipe", "fork_ls", "fork_wc", "exit"}

IInv ==
  /\ TypeOK
  /\ \A c \in Child : ChildFds(c)
  /\ ParentFds
  /\ Forked
  /\ counted + buffer = written
  /\ status["wc"] = "ok" => buffer = 0
  /\ status["wc"] # "sigpipe"
  /\ CountIsComplete
  /\ PipeBreaksOnlyByFailure

(* The data stay what they are in every step but Write and Read. *)
LEMMA StepPreserves == IInv /\ [Next]_vars => IInv'
  <1> SUFFICES ASSUME IInv, [Next]_vars PROVE IInv'
    OBVIOUS
  <1> USE PipeAssumption DEF IInv, TypeOK, MainStep, ChildStep, Status, Child, Process,
          ReadEnd, WriteEnd, ChildFds, Ended, ParentFds, Forked, End, Stream,
          CountIsComplete, PipeBreaksOnlyByFailure, data
  <1>1. CASE CreatePipe
    BY <1>1 DEF CreatePipe, MainGoto
  <1>2. CASE GiveUp
    BY <1>2 DEF GiveUp
  <1>3. CASE Fork("ls", "fork_ls", "fork_wc")
    <2>1. /\ TypeOK'
          /\ status["ls"] = "none" /\ status["wc"] = "none"
      BY <1>3 DEF Fork, MainGoto
    <2>2. (\A c \in Child : ChildFds(c))' /\ ParentFds' /\ Forked'
      BY <1>3, <2>1 DEF Fork, MainGoto
    <2>3. QED
      BY <1>3, <2>1, <2>2 DEF Fork, MainGoto
  <1>4. CASE Fork("wc", "fork_wc", "close_read")
    <2>1. /\ TypeOK'
          /\ status["wc"] = "none"
      BY <1>4 DEF Fork, MainGoto
    <2>2. /\ fds'["wc"] = fds["parent"] /\ fds'["ls"] = fds["ls"]
          /\ fds'["parent"] = fds["parent"] /\ "pipefd0" \in fds["parent"]
          /\ child'["wc"] = "close" /\ child'["ls"] = child["ls"]
          /\ main = "fork_wc" /\ main' = "close_read" /\ status' = status
      BY <1>4 DEF Fork, MainGoto
    <2>3. ChildFds("ls")' /\ ChildFds("wc")'
      BY <2>1, <2>2
    <2>4. ParentFds' /\ Forked'
      BY <2>2
    <2>5. QED
      BY <1>4, <2>1, <2>2, <2>3, <2>4 DEF Fork, MainGoto
  <1>5. CASE CloseEnd("pipefd0", "close_read", "close_write")
    BY <1>5 DEF CloseEnd, MainGoto
  <1>6. CASE CloseEnd("pipefd1", "close_write", "wait_ls")
    BY <1>6 DEF CloseEnd, MainGoto
  <1>7. CASE WaitFor("ls", "wait_ls", "wait_wc")
    BY <1>7 DEF WaitFor, MainGoto
  <1>8. CASE WaitFor("wc", "wait_wc", "end")
    BY <1>8 DEF WaitFor, MainGoto
  <1>9. ASSUME NEW c \in Child, Prepare(c) PROVE IInv'
    <2>1. CASE CloseUnneeded(c)
      BY <2>1 DEF CloseUnneeded, ChildGoto, Unneeded
    <2>2. CASE Redirect(c)
      BY <2>2 DEF Redirect, ChildGoto
    <2>3. CASE CloseCopy(c)
      BY <2>3 DEF CloseCopy, ChildGoto
    <2>4. CASE Exec(c)
      BY <2>4 DEF Exec, ChildGoto
    <2>5. QED
      BY <1>9, <2>1, <2>2, <2>3, <2>4 DEF Prepare
  <1>10. CASE Write
    BY <1>10 DEF Write
  <1>11. CASE BrokenPipe
    (* Nobody reads: the parent is past its close, and wc, if it was ever  *)
    (* forked, has ended, and not by end of file, since ls has not ended.  *)
    <2>1. \A p \in Process : fds[p] \intersect {"pipefd0", "stdin"} = {}
      BY <1>11 DEF BrokenPipe, Readers
    <2>2. main \notin {"fork_ls", "fork_wc", "close_read"}
      BY <2>1
    <2>3. child["wc"] \in {"off", "zombie", "reaped"}
      BY <2>1
    <2>4. main = "exit" \/ status["wc"] = "failed" \/ status["wc"] = "sigpipe"
      BY <1>11, <2>2, <2>3 DEF BrokenPipe
    <2>5. status["wc"] # "sigpipe"
      OBVIOUS
    <2>6. QED
      BY <1>11, <2>4, <2>5 DEF BrokenPipe, Exit
  <1>12. CASE LsEnds
    BY <1>12 DEF LsEnds, Exit
  <1>13. CASE Read
    BY <1>13 DEF Read
  <1>14. CASE EndOfFile
    (* Nobody writes: ls, which was forked before wc, has ended. *)
    <2>1. \A p \in Process : fds[p] \intersect {"pipefd1", "stdout"} = {}
      BY <1>14 DEF EndOfFile, Writers
    <2>2. status["ls"] # "none"
      BY <1>14, <2>1 DEF EndOfFile
    <2>3. QED
      BY <1>14, <2>2 DEF EndOfFile, Exit
  <1>15. ASSUME NEW c \in Child, ExecFails(c) PROVE IInv'
    BY <1>15 DEF ExecFails, Exit
  <1>16. CASE UNCHANGED vars
    BY <1>16 DEF vars, Readers, Writers
  <1>17. QED
    BY <1>1, <1>2, <1>3, <1>4, <1>5, <1>6, <1>7, <1>8, <1>9, <1>10, <1>11, <1>12, <1>13,
       <1>14, <1>15, <1>16 DEF Next, Parent, Ls, Wc

THEOREM PipeInvariance == Spec => []IInv
  <1>1. Init => IInv
    BY PipeAssumption DEF Init, IInv, TypeOK, MainStep, ChildStep, Status, Child, Process,
       ReadEnd, WriteEnd, ChildFds, Ended, ParentFds, Forked, CountIsComplete,
       PipeBreaksOnlyByFailure
  <1>2. QED
    BY <1>1, StepPreserves, PTL DEF Spec

(* wc's number is the number of chunks ls wrote, and ls has ended. *)
THEOREM WcCountsAll == Spec => []CountIsComplete
  BY PipeInvariance, PTL DEF IInv

(* ls dies of SIGPIPE only when a call of the parent or of wc has failed. *)
THEOREM LsKeepsItsReader == Spec => []PipeBreaksOnlyByFailure
  BY PipeInvariance, PTL DEF IInv
=============================================================================
