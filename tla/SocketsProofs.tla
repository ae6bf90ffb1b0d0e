--------------------------- MODULE SocketsProofs ----------------------------
(***************************************************************************)
(* For any number of servers and clients, every length of the listen queue *)
(* and any number of processes that are killed: answers are earned, names  *)
(* lead to the server that waits, and no socket file is left behind.       *)
(***************************************************************************)
EXTENDS Sockets, SequenceTheorems, TLAPS

Program(p) ==
  IF p \in Server THEN ServerProgram[family] ELSE ClientProgram[family]

(* How many calls a process has left: where it is in its program *)
Left(p) == Len(todo[p])

Fate == {"new", "running", "done", "failed", "killed"}

SystemCall ==
  {"unlink", "bind", "listen", "accept", "connect", "read", "send",
   "recvfrom", "sendto", "close_connection", "close"}

(* Sockets, names and what is on its way *)
Shape ==
  /\ sock \in [Process -> {"none", "open", "listening"}]
  /\ name \in [Address -> Process \union {None}]
  /\ queue \in [Process -> Seq(Client)]
  /\ peer \in [Server -> Client \union {None}]
  /\ unread \subseteq Client /\ hungup \subseteq Client /\ lost \subseteq Client
  /\ lingering \in BOOLEAN

PastShape ==
  /\ answer \in [Client -> Client \union {None}]
  /\ taken \subseteq Client /\ met \subseteq Server /\ kills \in Nat

TypeOK ==
  /\ family \in Family
  /\ todo \in [Process -> Seq(SystemCall)]
  /\ fate \in [Process -> Fate]
  /\ Shape /\ PastShape

USE DEF Shape, PastShape

(* What is left to do is the end of the program. *)
AtItsPlace ==
  \A p \in Process :
    /\ Left(p) <= Len(Program(p))
    /\ fate[p] = "new" => Left(p) = Len(Program(p))
    /\ \A i \in 1..Left(p) : todo[p][i] = Program(p)[Len(Program(p)) - Left(p) + i]

-----------------------------------------------------------------------------
(***************************************************************************)
(* Names.  A server has its socket from bind() to close(), and the program *)
(* for a file name owes the unlink() after that.                           *)
(***************************************************************************)
Bound(s) ==
  \/ family = "tcp" /\ Left(s) \in 1..6
  \/ family = "udp" /\ Left(s) \in 1..3
  \/ family = "unix_stream" /\ Left(s) \in 2..7
  \/ family = "unix_dgram" /\ Left(s) \in 2..4

OwesUnlink(p) ==
  IF p \in Server THEN Left(p) \in 1..(IF family = "unix_stream" THEN 7 ELSE 4)
                  ELSE Left(p) \in 1..4 /\ family = "unix_dgram"

NamesAreOwn ==
  name["server"] \in Server \union {None} /\ name["client"] \in Client \union {None}
BoundAreOpen ==
  \A s \in Server : sock[s] # "none" <=> Running(s) /\ Bound(s)
TwoHaveMet ==
  \A s, t \in Server : s # t /\ Running(s) /\ Running(t) => s \in met
PortsInv ==
  /\ name["client"] = None
  /\ \A s \in Server : sock[s] # "none" <=> name["server"] = s
FilesInv ==
  /\ \A s \in Server : sock[s] # "none" /\ s \notin met => name["server"] = s
  /\ \A a \in Address : name[a] # None =>
       \E p \in Process : Own(p) = a /\ (fate[p] = "killed" \/ (Running(p) /\ OwesUnlink(p)))

NameInv ==
  /\ NamesAreOwn /\ BoundAreOpen /\ TwoHaveMet
  /\ IF IsUnix THEN FilesInv ELSE PortsInv

-----------------------------------------------------------------------------
(***************************************************************************)
(* Answers                                                                 *)
(***************************************************************************)
AcceptLeft  == IF family = "tcp" THEN 5 ELSE 6
SendLeft    == IF family = "tcp" THEN 3 ELSE 4
ConnectLeft == IF family = "tcp" THEN 4 ELSE 3
SendToLeft  == IF family = "udp" THEN 3 ELSE 4

(* A client that has connected never opens a socket again. *)
QueuedHaveConnected ==
  \A s \in Server, c \in Client : c \in ToSet(queue[s]) => Left(c) < ConnectLeft
PeersHaveConnected ==
  \A s \in Server, c \in Client : peer[s] = c => Left(c) < ConnectLeft
AcceptedIsServed ==
  \A s \in Server : Running(s) /\ Left(s) < AcceptLeft => peer[s] # None
ReadBeforeSend ==
  \A s \in Server :
    Running(s) /\ Left(s) = SendLeft => peer[s] \in taken \/ sock[peer[s]] = "none"

StreamInv ==
  QueuedHaveConnected /\ PeersHaveConnected /\ AcceptedIsServed /\ ReadBeforeSend

(* A server that has received a datagram and not answered it *)
Holding(s) == Running(s) /\ Left(s) = (IF family = "udp" THEN 2 ELSE 3)

QueuedAnswersEarned ==
  \A c, d \in Client :
    d \in ToSet(queue[c]) => d \in taken /\ (family # "unix_dgram" => d = c)
ReadAnswersEarned ==
  \A c \in Client : answer[c] # None =>
    answer[c] \in taken /\ (family # "unix_dgram" => answer[c] = c)
HeldIsTaken ==
  ~IsStream => \A s \in Server : Holding(s) => peer[s] \in taken

AnswerInv == QueuedAnswersEarned /\ ReadAnswersEarned /\ HeldIsTaken

(***************************************************************************)
(* The datagram of a client, or the answer to it, is in one spot at most:  *)
(* a place in a queue, a server's hands, a client's answer.                *)
(***************************************************************************)
Spot == [kind : {"queue", "hand", "answer"}, of : Process, at : Nat]

In(x, c) ==
  \/ x.kind = "queue" /\ x.at \in DOMAIN queue[x.of] /\ queue[x.of][x.at] = c
  \/ x.kind = "hand" /\ x.at = 0 /\ x.of \in Server /\ Holding(x.of) /\ peer[x.of] = c
  \/ x.kind = "answer" /\ x.at = 0 /\ x.of \in Client /\ answer[x.of] = c

DatagramInv ==
  \A c \in Client :
    /\ \A x \in Spot : In(x, c) => Left(c) < SendToLeft
    /\ \A x, y \in Spot : In(x, c) /\ In(y, c) => x = y

IInv ==
  /\ TypeOK /\ AtItsPlace /\ NameInv /\ AnswerInv
  /\ IsStream => StreamInv
  /\ family = "unix_dgram" => DatagramInv

-----------------------------------------------------------------------------
(***************************************************************************)
(* Where a process is when it makes a call                                 *)
(***************************************************************************)
LEMMA ProgramsAreCalls ==
  ASSUME TypeOK, NEW p \in Process
  PROVE  Program(p) \in Seq(SystemCall) /\ Len(Program(p)) \in Nat
  <1>1. family \in {"tcp", "udp", "unix_stream", "unix_dgram"}
    BY SocketsAssumption DEF TypeOK
  <1>2. TcpServer \in Seq(SystemCall) /\ UdpServer \in Seq(SystemCall)
    BY DEF SystemCall, TcpServer, UdpServer
  <1>3. UnixStreamServer \in Seq(SystemCall) /\ UnixDgramServer \in Seq(SystemCall)
    BY DEF SystemCall, UnixStreamServer, UnixDgramServer
  <1>4. TcpClient \in Seq(SystemCall) /\ UdpClient \in Seq(SystemCall)
    BY DEF SystemCall, TcpClient, UdpClient
  <1>5. UnixStreamClient \in Seq(SystemCall) /\ UnixDgramClient \in Seq(SystemCall)
    BY DEF SystemCall, UnixStreamClient, UnixDgramClient
  <1>6. Program(p) \in Seq(SystemCall)
    BY <1>1, <1>2, <1>3, <1>4, <1>5 DEF Program, ServerProgram, ClientProgram
  <1>7. QED
    BY <1>6, LenProperties

LEMMA NextCall ==
  ASSUME TypeOK, AtItsPlace, NEW p \in Process, NEW call, At(p, call)
  PROVE  /\ Running(p) /\ Left(p) \in 1..Len(Program(p))
         /\ Program(p)[Len(Program(p)) - Left(p) + 1] = call
         /\ Tail(todo[p]) \in Seq(SystemCall) /\ Len(Tail(todo[p])) = Left(p) - 1
         /\ \A i \in 1..(Left(p) - 1) : Tail(todo[p])[i] = todo[p][i + 1]
  <1>1. todo[p] \in Seq(SystemCall) /\ todo[p] # << >> /\ Head(todo[p]) = call /\ Running(p)
    BY DEF At, TypeOK
  <1>2. Left(p) \in Nat \ {0} /\ todo[p][1] = call
    <2>1. Left(p) \in Nat /\ Left(p) # 0
      BY <1>1, LenProperties, EmptySeq DEF Left
    <2>2. Head(todo[p]) = todo[p][1]
      BY <1>1
    <2>3. QED
      BY <1>1, <2>1, <2>2
  <1>3. Tail(todo[p]) \in Seq(SystemCall) /\ Len(Tail(todo[p])) = Left(p) - 1
    BY <1>1, HeadTailProperties DEF Left
  <1>4. \A i \in 1..(Left(p) - 1) : Tail(todo[p])[i] = todo[p][i + 1]
    BY <1>1, <1>3, HeadTailProperties DEF Left
  <1>5. Left(p) <= Len(Program(p)) /\ Len(Program(p)) \in Nat
    BY ProgramsAreCalls DEF AtItsPlace
  <1>6. Program(p)[Len(Program(p)) - Left(p) + 1] = call
    BY <1>2, <1>5 DEF AtItsPlace
  <1>7. QED
    BY <1>1, <1>2, <1>3, <1>4, <1>5, <1>6

(* How many calls a server has left when it makes one *)
LEMMA ServerCalls ==
  ASSUME TypeOK, AtItsPlace, NEW s \in Server
  PROVE  /\ At(s, "unlink") => \/ family = "unix_stream" /\ Left(s) \in {1, 9}
                               \/ family = "unix_dgram" /\ Left(s) \in {1, 6}
         /\ At(s, "bind") => \/ family = "tcp" /\ Left(s) = 7
                             \/ family = "udp" /\ Left(s) = 4
                             \/ family = "unix_stream" /\ Left(s) = 8
                             \/ family = "unix_dgram" /\ Left(s) = 5
         /\ At(s, "listen") => IsStream /\ Left(s) = AcceptLeft + 1
         /\ At(s, "accept") => IsStream /\ Left(s) = AcceptLeft
         /\ At(s, "read")   => IsStream /\ Left(s) = SendLeft + 1
         /\ At(s, "send")   => IsStream /\ Left(s) = SendLeft
         /\ At(s, "close_connection") => IsStream /\ Left(s) = SendLeft - 1
         /\ At(s, "close")  => Left(s) = IF IsUnix THEN 2 ELSE 1
         /\ At(s, "recvfrom") => ~IsStream /\ Left(s) = (IF IsUnix THEN 4 ELSE 3)
         /\ At(s, "sendto")   => ~IsStream /\ Left(s) = (IF IsUnix THEN 3 ELSE 2)
  <1> DEFINE n == Left(s)
  <1>1. s \in Process /\ family \in {"tcp", "udp", "unix_stream", "unix_dgram"}
    BY SocketsAssumption DEF Process, TypeOK
  <1>2. Program(s) = CASE family = "tcp" -> TcpServer
                       [] family = "udp" -> UdpServer
                       [] family = "unix_stream" -> UnixStreamServer
                       [] family = "unix_dgram" -> UnixDgramServer
    BY <1>1 DEF Program, ServerProgram
  <1>3. \A call : At(s, call) => /\ n \in 1..Len(Program(s))
                                 /\ Program(s)[Len(Program(s)) - n + 1] = call
    BY <1>1, NextCall
  <1> HIDE DEF n
  <1> USE DEF IsStream, IsUnix, AcceptLeft, SendLeft
  <1>4. CASE family = "tcp"
    <2>1. Program(s) = TcpServer
      BY <1>2, <1>4
    <2>2. \A call : At(s, call) =>
            n \in 1..7 /\ call = <<"close", "close_connection", "send", "read", "accept",
                                   "listen", "bind">>[n]
      BY <1>3, <2>1 DEF TcpServer
    <2>3. QED
      BY <1>4, <2>2 DEF n
  <1>5. CASE family = "udp"
    <2>1. Program(s) = UdpServer
      BY <1>2, <1>5
    <2>2. \A call : At(s, call) =>
            n \in 1..4 /\ call = <<"close", "sendto", "recvfrom", "bind">>[n]
      BY <1>3, <2>1 DEF UdpServer
    <2>3. QED
      BY <1>5, <2>2 DEF n
  <1>6. CASE family = "unix_stream"
    <2>1. Program(s) = UnixStreamServer
      BY <1>2, <1>6
    <2>2. \A call : At(s, call) =>
            n \in 1..9 /\ call = <<"unlink", "close", "close_connection", "send", "read",
                                   "accept", "listen", "bind", "unlink">>[n]
      BY <1>3, <2>1 DEF UnixStreamServer
    <2>3. QED
      BY <1>6, <2>2 DEF n
  <1>7. CASE family = "unix_dgram"
    <2>1. Program(s) = UnixDgramServer
      BY <1>2, <1>7
    <2>2. \A call : At(s, call) =>
            n \in 1..6 /\ call = <<"unlink", "close", "sendto", "recvfrom", "bind", "unlink">>[n]
      BY <1>3, <2>1 DEF UnixDgramServer
    <2>3. QED
      BY <1>7, <2>2 DEF n
  <1>8. QED
    BY <1>1, <1>4, <1>5, <1>6, <1>7

LEMMA ClientCalls ==
  ASSUME TypeOK, AtItsPlace, NEW c \in Client
  PROVE  /\ At(c, "unlink") => family = "unix_dgram" /\ Left(c) \in {1, 6}
         /\ At(c, "bind") => family = "unix_dgram" /\ Left(c) = 5
         /\ At(c, "connect") => IsStream /\ Left(c) = ConnectLeft
         /\ At(c, "send") => IsStream /\ Left(c) = ConnectLeft - 1
         /\ At(c, "read") => IsStream /\ Left(c) = ConnectLeft - 2
         /\ At(c, "close") => \/ family \in {"tcp", "udp"} /\ Left(c) = 1
                              \/ family = "unix_dgram" /\ Left(c) = 2
         /\ At(c, "sendto") => ~IsStream /\ Left(c) = SendToLeft
         /\ At(c, "recvfrom") => ~IsStream /\ Left(c) = SendToLeft - 1
         /\ ~At(c, "listen") /\ ~At(c, "accept") /\ ~At(c, "close_connection")
  <1> DEFINE n == Left(c)
  <1>1. /\ c \in Process /\ c \notin Server
        /\ family \in {"tcp", "udp", "unix_stream", "unix_dgram"}
    BY SocketsAssumption DEF Process, TypeOK
  <1>2. Program(c) = CASE family = "tcp" -> TcpClient
                       [] family = "udp" -> UdpClient
                       [] family = "unix_stream" -> UnixStreamClient
                       [] family = "unix_dgram" -> UnixDgramClient
    BY <1>1 DEF Program, ClientProgram
  <1>3. \A call : At(c, call) => /\ n \in 1..Len(Program(c))
                                 /\ Program(c)[Len(Program(c)) - n + 1] = call
    BY <1>1, NextCall
  <1> HIDE DEF n
  <1> USE DEF IsStream, ConnectLeft, SendToLeft
  <1>4. CASE family = "tcp"
    <2>1. Program(c) = TcpClient
      BY <1>2, <1>4
    <2>2. \A call : At(c, call) =>
            n \in 1..4 /\ call = <<"close", "read", "send", "connect">>[n]
      BY <1>3, <2>1 DEF TcpClient
    <2>3. \A call : At(c, call) => \/ n = 1 /\ call = "close"
                                   \/ n = 2 /\ call = "read"
                                   \/ n = 3 /\ call = "send"
                                   \/ n = 4 /\ call = "connect"
      BY <2>2
    <2>4. QED
      BY <1>4, <2>3 DEF n
  <1>5. CASE family = "udp"
    <2>1. Program(c) = UdpClient
      BY <1>2, <1>5
    <2>2. \A call : At(c, call) =>
            n \in 1..3 /\ call = <<"close", "recvfrom", "sendto">>[n]
      BY <1>3, <2>1 DEF UdpClient
    <2>3. \A call : At(c, call) => \/ n = 1 /\ call = "close"
                                   \/ n = 2 /\ call = "recvfrom"
                                   \/ n = 3 /\ call = "sendto"
      BY <2>2
    <2>4. QED
      BY <1>5, <2>3 DEF n
  <1>6. CASE family = "unix_stream"
    <2>1. Program(c) = UnixStreamClient
      BY <1>2, <1>6
    <2>2. \A call : At(c, call) =>
            n \in 1..3 /\ call = <<"read", "send", "connect">>[n]
      BY <1>3, <2>1 DEF UnixStreamClient
    <2>3. QED
      BY <1>6, <2>2 DEF n
  <1>7. CASE family = "unix_dgram"
    <2>1. Program(c) = UnixDgramClient
      BY <1>2, <1>7
    <2>2. \A call : At(c, call) =>
            n \in 1..6 /\ call = <<"unlink", "close", "recvfrom", "sendto", "bind", "unlink">>[n]
      BY <1>3, <2>1 DEF UnixDgramClient
    <2>3. QED
      BY <1>7, <2>2 DEF n
  <1>8. QED
    BY <1>1, <1>4, <1>5, <1>6, <1>7

(* Where a process begins *)
LEMMA ProgramLengths ==
  ASSUME TypeOK, NEW p \in Process
  PROVE  /\ family = "tcp" => Len(Program(p)) = IF p \in Server THEN 7 ELSE 4
         /\ family = "udp" => Len(Program(p)) = IF p \in Server THEN 4 ELSE 3
         /\ family = "unix_stream" => Len(Program(p)) = IF p \in Server THEN 9 ELSE 3
         /\ family = "unix_dgram" => Len(Program(p)) = 6
  <1> USE DEF Program, ServerProgram, ClientProgram
  <1>1. CASE family = "tcp"
    BY <1>1 DEF TcpServer, TcpClient
  <1>2. CASE family = "udp"
    BY <1>2 DEF UdpServer, UdpClient
  <1>3. CASE family = "unix_stream"
    BY <1>3 DEF UnixStreamServer, UnixStreamClient
  <1>4. CASE family = "unix_dgram"
    BY <1>4 DEF UnixDgramServer, UnixDgramClient
  <1>5. QED
    BY <1>1, <1>2, <1>3, <1>4

-----------------------------------------------------------------------------
(***************************************************************************)
(* What a step does to the processes: one of them makes a call, ends or    *)
(* starts                                                                  *)
(***************************************************************************)
Keeping(p) == \A q \in Process \ {p} : Left(q)' = Left(q) /\ fate'[q] = fate[q]

LEMMA LeftIsNat ==
  ASSUME TypeOK
  PROVE  \A p \in Process : Left(p) \in Nat /\ (todo[p] = << >> <=> Left(p) = 0)
  BY LenProperties, EmptySeq DEF TypeOK, Left

LEMMA CallMoves ==
  ASSUME TypeOK, AtItsPlace, NEW p \in Process, NEW call, Call(p, call)
  PROVE  /\ Running(p) /\ family' = family /\ fate' = fate
         /\ Left(p) # 0 /\ Left(p)' = Left(p) - 1 /\ Keeping(p)
         /\ todo' \in [Process -> Seq(SystemCall)] /\ AtItsPlace'
  <1>1. At(p, call) /\ todo' = [todo EXCEPT ![p] = Tail(@)] /\ fate' = fate /\ family' = family
    BY DEF Call, Continue
  <1>2. /\ Running(p) /\ Left(p) \in 1..Len(Program(p))
        /\ Tail(todo[p]) \in Seq(SystemCall) /\ Len(Tail(todo[p])) = Left(p) - 1
        /\ \A i \in 1..(Left(p) - 1) : Tail(todo[p])[i] = todo[p][i + 1]
    BY <1>1, NextCall
  <1>3. todo' \in [Process -> Seq(SystemCall)] /\ Left(p)' = Left(p) - 1 /\ Keeping(p)
    BY <1>1, <1>2 DEF TypeOK, Left, Keeping
  <1>4. \A q \in Process : Program(q)' = Program(q) /\ Len(Program(q)) \in Nat
    BY <1>1, ProgramsAreCalls DEF Program
  <1>5. ASSUME NEW q \in Process
        PROVE  /\ Left(q)' <= Len(Program(q))'
               /\ fate'[q] = "new" => Left(q)' = Len(Program(q))'
               /\ \A i \in 1..Left(q)' :
                    todo'[q][i] = Program(q)'[Len(Program(q))' - Left(q)' + i]
    <2>1. CASE q # p
      <3>1. todo'[q] = todo[q] /\ fate'[q] = fate[q] /\ Left(q)' = Left(q)
        BY <1>1, <2>1 DEF TypeOK, Left
      <3>2. QED
        BY <3>1, <1>4 DEF AtItsPlace
    <2>2. CASE q = p
      <3>1. todo'[p] = Tail(todo[p]) /\ fate'[p] # "new"
        BY <1>1, <1>2 DEF TypeOK, Running
      <3>2. ASSUME NEW i \in 1..(Left(p) - 1)
            PROVE  Tail(todo[p])[i] = Program(p)[Len(Program(p)) - (Left(p) - 1) + i]
        <4>1. Tail(todo[p])[i] = todo[p][i + 1] /\ i + 1 \in 1..Left(p)
          BY <1>2
        <4>2. todo[p][i + 1] = Program(p)[Len(Program(p)) - Left(p) + (i + 1)]
          BY <4>1 DEF AtItsPlace
        <4>3. Len(Program(p)) - Left(p) + (i + 1) = Len(Program(p)) - (Left(p) - 1) + i
          BY <1>2, <1>4
        <4>4. QED
          BY <4>1, <4>2, <4>3
      <3>3. \A i \in 1..Left(p)' : todo'[p][i] = Program(p)'[Len(Program(p))' - Left(p)' + i]
        BY <3>1, <3>2, <1>3, <1>4
      <3>4. Left(p)' <= Len(Program(p))'
        BY <1>2, <1>3, <1>4
      <3>5. QED
        BY <3>1, <3>3, <3>4, <2>2
    <2>3. QED
      BY <2>1, <2>2
  <1>6. AtItsPlace'
    BY <1>5 DEF AtItsPlace
  <1>7. QED
    BY <1>1, <1>2, <1>3, <1>6

LEMMA EndMoves ==
  ASSUME TypeOK, AtItsPlace, NEW p \in Process, NEW f \in {"done", "failed", "killed"},
         End(p, f)
  PROVE  /\ family' = family /\ fate' = [fate EXCEPT ![p] = f]
         /\ Left(p)' = 0 /\ Keeping(p) /\ fate' \in [Process -> Fate]
         /\ todo' \in [Process -> Seq(SystemCall)] /\ AtItsPlace'
  <1>1. /\ todo' = [todo EXCEPT ![p] = << >>] /\ fate' = [fate EXCEPT ![p] = f]
        /\ family' = family
    BY DEF End
  <1>2. /\ todo' \in [Process -> Seq(SystemCall)] /\ fate' \in [Process -> Fate]
        /\ Left(p)' = 0 /\ Keeping(p)
    BY <1>1, EmptySeq DEF TypeOK, Left, Keeping, Fate
  <1>3. \A q \in Process : Program(q)' = Program(q) /\ Len(Program(q)) \in Nat
    BY <1>1, ProgramsAreCalls DEF Program
  <1>4. ASSUME NEW q \in Process
        PROVE  /\ Left(q)' <= Len(Program(q))'
               /\ fate'[q] = "new" => Left(q)' = Len(Program(q))'
               /\ \A i \in 1..Left(q)' :
                    todo'[q][i] = Program(q)'[Len(Program(q))' - Left(q)' + i]
    <2>1. CASE q # p
      <3>1. todo'[q] = todo[q] /\ fate'[q] = fate[q] /\ Left(q)' = Left(q)
        BY <1>1, <2>1 DEF TypeOK, Left
      <3>2. QED
        BY <3>1, <1>3 DEF AtItsPlace
    <2>2. CASE q = p
      <3>1. fate'[q] # "new" /\ Left(q)' = 0 /\ Len(Program(q))' >= 0
        BY <1>1, <1>2, <1>3, <2>2 DEF TypeOK
      <3>2. QED
        BY <3>1, <1>3
    <2>3. QED
      BY <2>1, <2>2
  <1>5. AtItsPlace'
    BY <1>4 DEF AtItsPlace
  <1>6. QED
    BY <1>1, <1>2, <1>5

LEMMA StartMoves ==
  ASSUME TypeOK, AtItsPlace, NEW p \in Process, Start(p)
  PROVE  /\ family' = family /\ fate' = [fate EXCEPT ![p] = "running"]
         /\ fate' \in [Process -> Fate] /\ todo' = todo /\ AtItsPlace'
         /\ \A q \in Process : Left(q)' = Left(q)
         /\ fate[p] = "new" /\ Left(p) = Len(Program(p))
  <1>1. /\ family' = family /\ fate' = [fate EXCEPT ![p] = "running"]
        /\ todo' = todo /\ fate[p] = "new"
    BY DEF Start
  <1>2. fate' \in [Process -> Fate] /\ \A q \in Process : Left(q)' = Left(q)
    BY <1>1 DEF TypeOK, Fate, Left
  <1>3. \A q \in Process : Program(q)' = Program(q)
    BY <1>1 DEF Program
  <1>4. \A q \in Process : fate'[q] = "new" => fate[q] = "new"
    BY <1>1 DEF TypeOK
  <1>5. AtItsPlace' /\ Left(p) = Len(Program(p))
    BY <1>1, <1>2, <1>3, <1>4 DEF AtItsPlace
  <1>6. QED
    BY <1>1, <1>2, <1>5

-----------------------------------------------------------------------------
(***************************************************************************)
(* The ends of processes                                                   *)
(***************************************************************************)
BindsInVain(p) == At(p, "bind") /\ ~Free(Own(p))

Ends(p) ==
  /\ Running(p)
  /\ \/ End(p, "killed")
     \/ End(p, "done") /\ todo[p] = << >>
     \/ End(p, "failed") /\ (BindsInVain(p) \/ (p \in Client /\ At(p, "connect")))
  /\ UNCHANGED <<answer, taken, met>> /\ kills' \in {kills, kills + 1}

LEMMA WaysToEnd ==
  ASSUME NEW p \in Process,
         Return(p) \/ BindFails(p) \/ (p \in Client /\ ConnectFails(p)) \/ Kill(p)
  PROVE  Ends(p)
  BY DEF Return, BindFails, ConnectFails, Kill, At, Ends, BindsInVain, past

LEMMA ReleaseTypes ==
  ASSUME TypeOK, NEW p \in Process, Release(p)
  PROVE  /\ sock' \in [Process -> {"none", "open", "listening"}]
         /\ name' \in [Address -> Process \union {None}]
         /\ queue' \in [Process -> Seq(Client)]
         /\ peer' = peer /\ unread' = unread
         /\ hungup' \subseteq Client /\ lost' \subseteq Client /\ lingering' \in BOOLEAN
  <1>1. ToSet(queue[p]) \subseteq Client
    BY DEF TypeOK, ToSet
  <1>2. p \in Server => {peer[p]} \ {None} \subseteq Client
    BY DEF TypeOK
  <1>3. sock' \in [Process -> {"none", "open", "listening"}]
    BY DEF Release, TypeOK
  <1>4. name' \in [Address -> Process \union {None}]
    BY DEF Release, TypeOK
  <1>5. queue' \in [Process -> Seq(Client)]
    BY DEF Release, TypeOK
  <1>6. lost' \subseteq Client
    BY <1>1, <1>2 DEF Release, TypeOK, InHand
  <1>7. hungup' \subseteq Client /\ lingering' \in BOOLEAN
    BY <1>1, <1>2 DEF Release, HangUp, TypeOK
  <1>8. QED
    BY <1>3, <1>4, <1>5, <1>6, <1>7 DEF Release

LEMMA EndTypes ==
  ASSUME TypeOK, AtItsPlace, NEW p \in Process, Ends(p)
  PROVE  /\ family' = family /\ todo' \in [Process -> Seq(SystemCall)]
         /\ fate' \in [Process -> Fate] /\ AtItsPlace' /\ Shape'
  <1>1. PICK f \in {"done", "failed", "killed"} : End(p, f)
    BY DEF Ends
  <1>2. Release(p)
    BY <1>1 DEF End
  <1>3. /\ family' = family /\ todo' \in [Process -> Seq(SystemCall)]
        /\ fate' \in [Process -> Fate] /\ AtItsPlace'
    BY <1>1, EndMoves
  <1>4. Shape'
    BY <1>2, ReleaseTypes DEF Shape, TypeOK
  <1>5. QED
    BY <1>3, <1>4

(* A server that reads or writes has somebody to serve. *)
LEMMA PeerIsClient ==
  ASSUME IInv, NEW s \in Server
  PROVE  /\ At(s, "read") \/ At(s, "send") \/ At(s, "close_connection") => peer[s] \in Client
         /\ At(s, "send") => peer[s] \in taken \/ sock[peer[s]] = "none"
         /\ At(s, "sendto") => Holding(s) /\ peer[s] \in taken
  <1>1. /\ family \in {"tcp", "udp", "unix_stream", "unix_dgram"}
        /\ peer[s] \in Client \union {None}
    BY SocketsAssumption DEF IInv, TypeOK
  <1>2. /\ At(s, "read") => IsStream /\ Left(s) = SendLeft + 1
        /\ At(s, "send") => IsStream /\ Left(s) = SendLeft
        /\ At(s, "close_connection") => IsStream /\ Left(s) = SendLeft - 1
        /\ At(s, "sendto") => ~IsStream /\ Left(s) = (IF IsUnix THEN 3 ELSE 2)
    BY ServerCalls DEF IInv
  <1>3. \A call : At(s, call) => Running(s)
    BY DEF At
  <1>4. At(s, "read") \/ At(s, "send") \/ At(s, "close_connection") => peer[s] # None
    BY <1>1, <1>2, <1>3 DEF IInv, StreamInv, AcceptedIsServed, SendLeft, AcceptLeft
  <1>5. At(s, "send") => peer[s] \in taken \/ sock[peer[s]] = "none"
    BY <1>2, <1>3 DEF IInv, StreamInv, ReadBeforeSend
  <1>6. At(s, "sendto") => Holding(s) /\ peer[s] \in taken
    BY <1>1, <1>2, <1>3 DEF IInv, AnswerInv, HeldIsTaken, Holding, IsStream, IsUnix
  <1>7. QED
    BY <1>1, <1>4, <1>5, <1>6

-----------------------------------------------------------------------------
(***************************************************************************)
(* The steps, with the calls that may end their process split in two       *)
(***************************************************************************)
ClientSends(c) ==
  /\ Call(c, "send")
  /\ unread' \in {unread, unread \union {c}}
  /\ UNCHANGED <<sock, name, queue, peer, hungup, lingering, lost, past>>

Answers(s) ==
  /\ Call(s, "send")
  /\ sock[peer[s]] # "none"
  /\ queue' = [queue EXCEPT ![peer[s]] = Append(@, peer[s])]
  /\ UNCHANGED <<sock, name, peer, unread, hungup, lingering, lost, past>>

AnswersNobody(s) == Call(s, "send") /\ UNCHANGED <<sock, name, links, past>>

LEMMA StepCases ==
  ASSUME Next
  PROVE  \/ LingeringEnds
         \/ \E p \in Process : \/ Start(p) \/ Unlink(p) \/ Bind(p) \/ Close(p)
                               \/ Ends(p)
         \/ \E s \in Server : \/ Listen(s) \/ Accept(s) \/ ServerRead(s) \/ Answers(s)
                              \/ AnswersNobody(s) \/ CloseConnection(s)
                              \/ ServerReceive(s) \/ ServerSendTo(s)
         \/ \E c \in Client : \/ Connect(c) \/ ClientSends(c) \/ ClientRead(c)
                              \/ ClientSendTo(c) \/ ClientReceive(c)
  <1>1. CASE LingeringEnds
    BY <1>1
  <1>2. ASSUME NEW p \in Process, Start(p) \/ Unlink(p) \/ Bind(p) \/ Close(p)
        PROVE  \E q \in Process : Start(q) \/ Unlink(q) \/ Bind(q) \/ Close(q)
    BY <1>2
  <1>3. ASSUME NEW p \in Process,
               Return(p) \/ BindFails(p) \/ (p \in Client /\ ConnectFails(p)) \/ Kill(p)
        PROVE  Ends(p)
    BY <1>3, WaysToEnd
  <1>4. ASSUME NEW s \in Server, ServerSend(s)
        PROVE  Answers(s) \/ AnswersNobody(s) \/ Ends(s)
    <2>1. CASE sock[peer[s]] # "none"
      BY <1>4, <2>1 DEF ServerSend, Answers
    <2>2. CASE sock[peer[s]] = "none" /\ IsUnix
      BY <1>4, <2>2 DEF ServerSend, Ends, At, past
    <2>3. CASE sock[peer[s]] = "none" /\ ~IsUnix
      BY <1>4, <2>3 DEF ServerSend, AnswersNobody
    <2>4. QED
      BY <2>1, <2>2, <2>3
  <1>5. ASSUME NEW c \in Client, ClientSend(c)
        PROVE  ClientSends(c) \/ Ends(c)
    <2>1. CASE IsUnix /\ c \in hungup
      BY <1>5, <2>1 DEF ClientSend, Ends, At, past
    <2>2. CASE ~(IsUnix /\ c \in hungup)
      BY <1>5, <2>2 DEF ClientSend, ClientSends
    <2>3. QED
      BY <2>1, <2>2
  <1>6. CASE \E p \in Process : Start(p) \/ Step(p) \/ Kill(p)
    <2>1. PICK p \in Process : Start(p) \/ Step(p) \/ Kill(p)
      BY <1>6
    <2>2. CASE Start(p) \/ Unlink(p) \/ Bind(p) \/ Close(p)
      BY <2>2
    <2>3. CASE BindFails(p) \/ Return(p) \/ Kill(p) \/ (p \in Client /\ ConnectFails(p))
      BY <1>3, <2>3
    <2>4. CASE p \in Server /\ ServerStep(p)
      BY <1>4, <2>4 DEF ServerStep, Process
    <2>5. CASE p \in Client /\ ClientStep(p)
      BY <1>3, <1>5, <2>5 DEF ClientStep, Process
    <2>6. QED
      BY <2>1, <2>2, <2>3, <2>4, <2>5 DEF Step
  <1>7. QED
    BY <1>1, <1>6 DEF Next

LEMMA DeliverTypes ==
  ASSUME TypeOK, NEW p \in Process \union {None}, NEW c \in Client, Deliver(p, c)
  PROVE  queue' \in [Process -> Seq(Client)] /\ lost' \subseteq Client
  <1>1. lost' \subseteq Client
    BY DEF Deliver, TypeOK
  <1>2. CASE queue' = queue
    BY <1>1, <1>2 DEF TypeOK
  <1>3. CASE Open(p) /\ queue' = [queue EXCEPT ![p] = Append(@, c)]
    <2>1. p \in Process /\ Append(queue[p], c) \in Seq(Client)
      BY <1>3, AppendProperties DEF Open, TypeOK
    <2>2. QED
      BY <1>1, <1>3, <2>1 DEF TypeOK
  <1>4. QED
    BY <1>1, <1>2, <1>3 DEF Deliver

LEMMA TypePreserved ==
  ASSUME IInv, [Next]_vars
  PROVE  TypeOK' /\ AtItsPlace' /\ family' = family
  <1> USE DEF vars, links, past
  <1>0. TypeOK /\ AtItsPlace /\ Server \subseteq Process /\ Client \subseteq Process
    BY DEF IInv, Process
  <1> DEFINE Processes == /\ family' = family /\ todo' \in [Process -> Seq(SystemCall)]
                          /\ fate' \in [Process -> Fate] /\ AtItsPlace'
  <1>1. ASSUME NEW p \in Process, NEW call, Call(p, call)
        PROVE  Processes
    BY <1>0, <1>1, CallMoves DEF TypeOK
  <1>2. ASSUME Processes, Shape', PastShape'
        PROVE  TypeOK' /\ AtItsPlace' /\ family' = family
    BY <1>0, <1>2 DEF TypeOK
  <1> HIDE DEF Processes
  <1>3. ASSUME NEW p \in Process, Start(p)
        PROVE  Processes /\ Shape' /\ PastShape'
    <2>1. Processes
      BY <1>0, <1>3, StartMoves DEF Processes, TypeOK
    <2>2. met' \subseteq Server
      BY <1>0, <1>3 DEF Start, TypeOK
    <2>3. QED
      BY <1>0, <1>3, <2>1, <2>2 DEF Start, TypeOK
  <1>4. ASSUME NEW p \in Process, Ends(p)
        PROVE  Processes /\ Shape' /\ PastShape'
    <2>1. Processes /\ Shape'
      BY <1>0, <1>4, EndTypes DEF Processes
    <2>2. PastShape'
      BY <1>0, <1>4 DEF TypeOK, Ends
    <2>3. QED
      BY <2>1, <2>2
  <1>5. ASSUME NEW p \in Process, Unlink(p) \/ Bind(p)
        PROVE  Processes /\ Shape' /\ PastShape'
    <2>1. Processes
      BY <1>1, <1>5 DEF Unlink, Bind
    <2>2. name' \in [Address -> Process \union {None}]
      BY <1>0, <1>5 DEF Unlink, Bind, TypeOK
    <2>3. sock' \in [Process -> {"none", "open", "listening"}]
      BY <1>0, <1>5 DEF Unlink, Bind, TypeOK
    <2>4. UNCHANGED <<links, past>>
      BY <1>5 DEF Unlink, Bind
    <2>5. QED
      BY <1>0, <2>1, <2>2, <2>3, <2>4 DEF TypeOK
  <1>6. ASSUME NEW p \in Process, Close(p)
        PROVE  Processes /\ Shape' /\ PastShape'
    <2>1. Processes /\ Release(p) /\ UNCHANGED past
      BY <1>1, <1>6 DEF Close
    <2>2. Shape'
      BY <1>0, <2>1, ReleaseTypes DEF TypeOK
    <2>3. QED
      BY <1>0, <2>1, <2>2 DEF TypeOK
  <1>7. ASSUME NEW s \in Server, Listen(s) \/ AnswersNobody(s)
        PROVE  Processes /\ Shape' /\ PastShape'
    <2>1. Processes
      BY <1>0, <1>1, <1>7 DEF Listen, AnswersNobody
    <2>2. QED
      BY <1>0, <1>7, <2>1 DEF Listen, AnswersNobody, TypeOK
  <1>8. ASSUME NEW s \in Server, Accept(s) \/ ServerReceive(s)
        PROVE  Processes /\ Shape' /\ PastShape'
    <2>1. Processes
      BY <1>0, <1>1, <1>8 DEF Accept, ServerReceive
    <2>2. Head(queue[s]) \in Client /\ Tail(queue[s]) \in Seq(Client)
      BY <1>0, <1>8, HeadTailProperties DEF Accept, ServerReceive, TypeOK
    <2>3. peer' \in [Server -> Client \union {None}] /\ queue' \in [Process -> Seq(Client)]
      <3>1. /\ peer' = [peer EXCEPT ![s] = Head(queue[s])]
            /\ queue' = [queue EXCEPT ![s] = Tail(@)]
        BY <1>8 DEF Accept, ServerReceive
      <3>2. QED
        BY <1>0, <2>2, <3>1 DEF TypeOK
    <2>4. taken' \subseteq Client
      BY <1>0, <1>8, <2>2 DEF Accept, ServerReceive, TypeOK
    <2>5. QED
      BY <1>0, <1>8, <2>1, <2>3, <2>4 DEF Accept, ServerReceive, TypeOK
  <1>9. ASSUME NEW s \in Server, ServerRead(s) \/ CloseConnection(s)
        PROVE  Processes /\ Shape' /\ PastShape'
    <2>1. Processes
      BY <1>0, <1>1, <1>9 DEF ServerRead, CloseConnection
    <2>2. peer[s] \in Client
      BY <1>9, PeerIsClient DEF ServerRead, CloseConnection, Call
    <2>3. QED
      BY <1>0, <1>9, <2>1, <2>2 DEF ServerRead, CloseConnection, TypeOK
  <1>10. ASSUME NEW s \in Server, Answers(s)
         PROVE  Processes /\ Shape' /\ PastShape'
    <2>1. Processes
      BY <1>0, <1>1, <1>10 DEF Answers
    <2>2. peer[s] \in Client
      BY <1>10, PeerIsClient DEF Answers, Call
    <2>3. Append(queue[peer[s]], peer[s]) \in Seq(Client)
      BY <1>0, <2>2, AppendProperties DEF TypeOK
    <2>4. queue' \in [Process -> Seq(Client)]
      BY <1>0, <1>10, <2>2, <2>3 DEF Answers, TypeOK
    <2>5. QED
      BY <1>0, <1>10, <2>1, <2>4 DEF Answers, TypeOK
  <1>11. ASSUME NEW s \in Server, ServerSendTo(s)
         PROVE  Processes /\ Shape' /\ PastShape'
    <2>1. Processes
      BY <1>0, <1>1, <1>11 DEF ServerSendTo
    <2>2. peer[s] \in Client
      BY <1>0, <1>11, PeerIsClient DEF ServerSendTo, Call, TypeOK
    <2>3. (IF IsUnix THEN name["client"] ELSE peer[s]) \in Process \union {None}
      BY <1>0, <2>2 DEF TypeOK, Address
    <2>4. queue' \in [Process -> Seq(Client)] /\ lost' \subseteq Client
      BY <1>0, <1>11, <2>2, <2>3, DeliverTypes DEF ServerSendTo
    <2>5. QED
      BY <1>0, <1>11, <2>1, <2>4 DEF ServerSendTo, TypeOK
  <1>12. ASSUME NEW c \in Client, Connect(c)
         PROVE  Processes /\ Shape' /\ PastShape'
    <2>1. Processes
      BY <1>0, <1>1, <1>12 DEF Connect
    <2>2. name["server"] \in Process
      BY <1>0, <1>12 DEF Connect, Listener, TypeOK, Address
    <2>3. Append(queue[name["server"]], c) \in Seq(Client)
      BY <1>0, <2>2, AppendProperties DEF TypeOK
    <2>4. queue' \in [Process -> Seq(Client)]
      BY <1>0, <1>12, <2>2, <2>3 DEF Connect, TypeOK
    <2>5. QED
      BY <1>0, <1>12, <2>1, <2>4 DEF Connect, TypeOK
  <1>13. ASSUME NEW c \in Client, ClientSends(c)
         PROVE  Processes /\ Shape' /\ PastShape'
    <2>1. Processes
      BY <1>0, <1>1, <1>13 DEF ClientSends
    <2>2. QED
      BY <1>0, <1>13, <2>1 DEF ClientSends, TypeOK
  <1>14. ASSUME NEW c \in Client, ClientRead(c) \/ ClientReceive(c)
         PROVE  Processes /\ Shape' /\ PastShape'
    <2>1. Processes
      BY <1>0, <1>1, <1>14 DEF ClientRead, ClientReceive
    <2>2. queue[c] # << >> => Head(queue[c]) \in Client /\ Tail(queue[c]) \in Seq(Client)
      BY <1>0, HeadTailProperties DEF TypeOK
    <2>3. << >> \in Seq(Client)
      BY EmptySeq
    <2>4. CASE ClientRead(c)
      <3>1. (IF queue[c] = << >> THEN None ELSE Head(queue[c])) \in Client \union {None}
        BY <2>2
      <3>2. answer' \in [Client -> Client \union {None}] /\ queue' \in [Process -> Seq(Client)]
        BY <1>0, <2>4, <2>3, <3>1 DEF ClientRead, TypeOK
      <3>3. QED
        BY <1>0, <2>4, <2>1, <3>2 DEF ClientRead, TypeOK
    <2>5. CASE ClientReceive(c)
      <3>1. answer' \in [Client -> Client \union {None}] /\ queue' \in [Process -> Seq(Client)]
        BY <1>0, <2>5, <2>2 DEF ClientReceive, TypeOK
      <3>2. QED
        BY <1>0, <2>5, <2>1, <3>1 DEF ClientReceive, TypeOK
    <2>6. QED
      BY <1>14, <2>4, <2>5
  <1>15. ASSUME NEW c \in Client, ClientSendTo(c)
         PROVE  Processes /\ Shape' /\ PastShape'
    <2>1. Processes
      BY <1>0, <1>1, <1>15 DEF ClientSendTo
    <2>2. name["server"] \in Process \union {None}
      BY <1>0 DEF TypeOK, Address
    <2>3. queue' \in [Process -> Seq(Client)] /\ lost' \subseteq Client
      BY <1>0, <1>15, <2>2, DeliverTypes DEF ClientSendTo
    <2>4. QED
      BY <1>0, <1>15, <2>1, <2>3 DEF ClientSendTo, TypeOK
  <1>16. CASE LingeringEnds \/ UNCHANGED vars
    <2>1. UNCHANGED <<family, todo, fate>>
      BY <1>16 DEF LingeringEnds
    <2>2. AtItsPlace'
      BY <1>0, <2>1 DEF AtItsPlace, Left, Program
    <2>3. QED
      BY <1>0, <1>16, <2>1, <2>2 DEF LingeringEnds, TypeOK
  <1>17. CASE Next
    BY <1>2, <1>3, <1>4, <1>5, <1>6, <1>7, <1>8, <1>9, <1>10, <1>11, <1>12, <1>13, <1>14,
       <1>15, <1>16, <1>17, StepCases
  <1>18. QED
    BY <1>16, <1>17

-----------------------------------------------------------------------------
(***************************************************************************)
(* Names                                                                   *)
(***************************************************************************)
LEMMA QuietCalls ==
  ASSUME TypeOK, AtItsPlace, NEW p \in Process,
         NEW call \in SystemCall \ {"unlink", "bind", "close"}, At(p, call),
         p \in Server => call # "connect"
  PROVE  /\ p \in Server => /\ Bound(p)
                             /\ \/ family = "tcp" /\ Left(p) - 1 \in 1..6
                                \/ family = "udp" /\ Left(p) - 1 \in 1..3
                                \/ family = "unix_stream" /\ Left(p) - 1 \in 2..7
                                \/ family = "unix_dgram" /\ Left(p) - 1 \in 2..4
         /\ IsUnix /\ OwesUnlink(p) => Left(p) > 1
  <1>1. family \in {"tcp", "udp", "unix_stream", "unix_dgram"}
    BY SocketsAssumption DEF TypeOK
  <1> USE DEF IsUnix, IsStream, SystemCall
  <1>2. CASE p \in Server
    <2>1. /\ call = "listen" => IsStream /\ Left(p) = AcceptLeft + 1
          /\ call = "accept" => IsStream /\ Left(p) = AcceptLeft
          /\ call = "read"   => IsStream /\ Left(p) = SendLeft + 1
          /\ call = "send"   => IsStream /\ Left(p) = SendLeft
          /\ call = "close_connection" => IsStream /\ Left(p) = SendLeft - 1
          /\ call = "recvfrom" => ~IsStream /\ Left(p) = (IF IsUnix THEN 4 ELSE 3)
          /\ call = "sendto"   => ~IsStream /\ Left(p) = (IF IsUnix THEN 3 ELSE 2)
      BY <1>2, ServerCalls
    <2>2. \/ family = "tcp" /\ Left(p) \in 2..6
          \/ family = "udp" /\ Left(p) \in 2..3
          \/ family = "unix_stream" /\ Left(p) \in 3..7
          \/ family = "unix_dgram" /\ Left(p) \in 3..4
      BY <1>1, <1>2, <2>1 DEF AcceptLeft, SendLeft
    <2>3. QED
      BY <1>2, <2>2 DEF Bound
  <1>3. CASE p \in Client /\ p \notin Server
    <2>1. /\ ~At(p, "listen")
          /\ call = "connect" => IsStream
          /\ call = "send" => IsStream
          /\ call = "read" => IsStream
          /\ call = "sendto" => ~IsStream /\ Left(p) = SendToLeft
          /\ call = "recvfrom" => ~IsStream /\ Left(p) = SendToLeft - 1
          /\ ~At(p, "accept") /\ ~At(p, "close_connection")
      BY <1>3, ClientCalls
    <2>2. QED
      BY <1>1, <1>3, <2>1 DEF OwesUnlink, SendToLeft
  <1>4. QED
    BY <1>2, <1>3 DEF Process

LEMMA NamesOfQuietCall ==
  ASSUME IInv, NEW p \in Process,
         NEW call \in SystemCall \ {"unlink", "bind", "close"}, Call(p, call),
         p \in Server => call # "connect",
         name' = name, met' = met,
         \A s \in Server : sock'[s] # "none" <=> sock[s] # "none"
  PROVE  NameInv'
  <1>1. TypeOK /\ AtItsPlace /\ NameInv /\ Server \subseteq Process
    BY DEF IInv, Process
  <1>2. /\ Running(p) /\ family' = family /\ fate' = fate
        /\ Left(p)' = Left(p) - 1 /\ \A q \in Process \ {p} : Left(q)' = Left(q)
        /\ \A q \in Process : Left(q) \in Nat
    BY <1>1, CallMoves, LeftIsNat DEF Keeping
  <1>3. /\ p \in Server => Bound(p) /\ Bound(p)'
        /\ IsUnix /\ OwesUnlink(p) => Left(p) > 1
    BY <1>1, <1>2, QuietCalls DEF Call, Bound
  <1>4. \A s \in Server : Bound(s)' <=> Bound(s)
    BY <1>1, <1>2, <1>3 DEF Bound
  <1>5. IsUnix' = IsUnix /\ \A q \in Process : Running(q)' = Running(q)
    BY <1>2 DEF IsUnix, Running
  <1>6. IsUnix => \A q \in Process : OwesUnlink(q) => OwesUnlink(q)'
    BY <1>2, <1>3 DEF OwesUnlink
  <1>7. NamesAreOwn' /\ TwoHaveMet'
    BY <1>1, <1>2, <1>5 DEF NameInv, NamesAreOwn, TwoHaveMet
  <1>8. BoundAreOpen'
    BY <1>1, <1>4, <1>5 DEF NameInv, BoundAreOpen
  <1>9. IF IsUnix THEN FilesInv' ELSE PortsInv'
    <2>1. CASE IsUnix
      BY <1>1, <1>2, <1>5, <1>6, <2>1 DEF NameInv, FilesInv, Own
    <2>2. CASE ~IsUnix
      BY <1>1, <2>2 DEF NameInv, PortsInv
    <2>3. QED
      BY <2>1, <2>2
  <1>10. QED
    BY <1>5, <1>7, <1>8, <1>9 DEF NameInv

LEMMA NamesOfUnlink ==
  ASSUME IInv, NEW p \in Process, Unlink(p)
  PROVE  NameInv'
  <1>1. TypeOK /\ AtItsPlace /\ NameInv /\ Server \subseteq Process /\ Client \subseteq Process
    BY DEF IInv, Process
  <1>2. /\ Running(p) /\ family' = family /\ fate' = fate
        /\ Left(p)' = Left(p) - 1 /\ \A q \in Process \ {p} : Left(q)' = Left(q)
        /\ \A q \in Process : Left(q) \in Nat
    BY <1>1, CallMoves, LeftIsNat DEF Unlink, Keeping
  <1>3. name' = [name EXCEPT ![Own(p)] = None] /\ sock' = sock /\ met' = met
    BY DEF Unlink, past
  <1>4. /\ IsUnix
        /\ p \in Server => /\ family = "unix_stream" => Left(p) \in {1, 9}
                           /\ family = "unix_dgram" => Left(p) \in {1, 6}
    BY <1>1, ServerCalls, ClientCalls DEF Unlink, Call, IsUnix, Process
  <1>5. IsUnix' = IsUnix /\ \A q \in Process : Running(q)' = Running(q)
    BY <1>2 DEF IsUnix, Running
  <1>6. /\ \A s \in Server : Bound(s)' <=> Bound(s)
        /\ p \in Server => ~Bound(p)
    BY <1>1, <1>2, <1>4 DEF Bound, IsUnix
  <1>7. name \in [Address -> Process \union {None}] /\ Own(p) \in Address
    BY <1>1 DEF TypeOK, Own, Address
  <1>8. NamesAreOwn' /\ TwoHaveMet'
    BY <1>1, <1>2, <1>3, <1>5, <1>7 DEF NameInv, NamesAreOwn, TwoHaveMet, Address
  <1>9. BoundAreOpen'
    BY <1>1, <1>3, <1>5, <1>6 DEF NameInv, BoundAreOpen
  <1>10. ASSUME NEW s \in Server, sock'[s] # "none", s \notin met'
         PROVE  name'["server"] = s
    <2>1. Running(s) /\ Bound(s) /\ name["server"] = s
      BY <1>1, <1>3, <1>4, <1>10 DEF NameInv, FilesInv, BoundAreOpen
    <2>2. s # p /\ p \notin Server
      BY <1>1, <1>2, <1>3, <1>6, <1>10, <2>1 DEF NameInv, TwoHaveMet
    <2>3. QED
      BY <1>3, <1>7, <2>1, <2>2 DEF Own
  <1>11. ASSUME NEW a \in Address, name'[a] # None
         PROVE  \E q \in Process :
                  Own(q) = a /\ (fate'[q] = "killed" \/ (Running(q)' /\ OwesUnlink(q)'))
    <2>1. a # Own(p) /\ name[a] # None
      BY <1>3, <1>7, <1>11
    <2>2. PICK q \in Process :
            Own(q) = a /\ (fate[q] = "killed" \/ (Running(q) /\ OwesUnlink(q)))
      BY <1>1, <1>4, <2>1 DEF NameInv, FilesInv
    <2>3. OwesUnlink(q)' = OwesUnlink(q)
      BY <1>2, <2>1, <2>2 DEF OwesUnlink
    <2>4. QED
      BY <1>2, <1>5, <2>2, <2>3
  <1>12. FilesInv'
    BY <1>10, <1>11 DEF FilesInv, Own
  <1>13. QED
    BY <1>4, <1>5, <1>8, <1>9, <1>12 DEF NameInv

LEMMA NamesOfBind ==
  ASSUME IInv, NEW p \in Process, Bind(p)
  PROVE  NameInv'
  <1>1. TypeOK /\ AtItsPlace /\ NameInv /\ Server \subseteq Process /\ Client \subseteq Process
    BY DEF IInv, Process
  <1>2. /\ Running(p) /\ family' = family /\ fate' = fate
        /\ Left(p)' = Left(p) - 1 /\ \A q \in Process \ {p} : Left(q)' = Left(q)
        /\ \A q \in Process : Left(q) \in Nat
    BY <1>1, CallMoves, LeftIsNat DEF Bind, Keeping
  <1>3. /\ name' = [name EXCEPT ![Own(p)] = p] /\ sock' = [sock EXCEPT ![p] = "open"]
        /\ met' = met /\ name[Own(p)] = None
    BY DEF Bind, Free, past
  <1>4. /\ p \in Server => \/ family = "tcp" /\ Left(p) = 7
                           \/ family = "udp" /\ Left(p) = 4
                           \/ family = "unix_stream" /\ Left(p) = 8
                           \/ family = "unix_dgram" /\ Left(p) = 5
        /\ p \notin Server => p \in Client /\ family = "unix_dgram" /\ Left(p) = 5
    BY <1>1, ServerCalls, ClientCalls DEF Bind, Call, Process
  <1>5. IsUnix' = IsUnix /\ \A q \in Process : Running(q)' = Running(q)
    BY <1>2 DEF IsUnix, Running
  <1>6. /\ \A s \in Server \ {p} : Bound(s)' <=> Bound(s)
        /\ p \in Server => ~Bound(p) /\ Bound(p)'
        /\ IsUnix => OwesUnlink(p)'
    BY <1>1, <1>2, <1>4 DEF Bound, IsUnix, OwesUnlink
  <1>7. /\ name \in [Address -> Process \union {None}] /\ Own(p) \in Address
        /\ sock \in [Process -> {"none", "open", "listening"}]
    BY <1>1 DEF TypeOK, Own, Address
  <1>8. NamesAreOwn' /\ TwoHaveMet'
    BY <1>1, <1>2, <1>3, <1>4, <1>5, <1>7 DEF NameInv, NamesAreOwn, TwoHaveMet, Address, Own
  <1>9. BoundAreOpen'
    BY <1>1, <1>2, <1>3, <1>5, <1>6, <1>7 DEF NameInv, BoundAreOpen
  <1>10. ASSUME IsUnix, NEW s \in Server, sock'[s] # "none", s \notin met'
         PROVE  name'["server"] = s
    <2>1. CASE s = p
      BY <1>3, <1>7, <2>1 DEF Own
    <2>2. CASE s # p
      <3>1. Running(s) /\ name["server"] = s
        BY <1>1, <1>3, <1>7, <1>10, <2>2 DEF NameInv, FilesInv, BoundAreOpen
      <3>2. p \notin Server
        BY <1>1, <1>2, <1>3, <1>10, <2>2, <3>1 DEF NameInv, TwoHaveMet
      <3>3. QED
        BY <1>3, <1>7, <3>1, <3>2 DEF Own
    <2>3. QED
      BY <2>1, <2>2
  <1>11. ASSUME IsUnix, NEW a \in Address, name'[a] # None
         PROVE  \E q \in Process :
                  Own(q) = a /\ (fate'[q] = "killed" \/ (Running(q)' /\ OwesUnlink(q)'))
    <2>1. CASE a = Own(p)
      BY <1>2, <1>5, <1>6, <1>11, <2>1
    <2>2. CASE a # Own(p)
      <3>1. name[a] # None
        BY <1>3, <1>7, <1>11, <2>2
      <3>2. PICK q \in Process :
              Own(q) = a /\ (fate[q] = "killed" \/ (Running(q) /\ OwesUnlink(q)))
        BY <1>1, <1>11, <3>1 DEF NameInv, FilesInv
      <3>3. OwesUnlink(q)' = OwesUnlink(q)
        BY <1>2, <2>2, <3>2 DEF OwesUnlink
      <3>4. QED
        BY <1>2, <1>5, <3>2, <3>3
    <2>3. QED
      BY <2>1, <2>2
  <1>12. IsUnix => FilesInv'
    BY <1>10, <1>11 DEF FilesInv, Own
  <1>13. ~IsUnix => PortsInv'
    BY <1>1, <1>3, <1>4, <1>7, SocketsAssumption DEF NameInv, PortsInv, Own, IsUnix, Address
  <1>14. QED
    BY <1>5, <1>8, <1>9, <1>12, <1>13 DEF NameInv

LEMMA NamesOfClose ==
  ASSUME IInv, NEW p \in Process, Close(p)
  PROVE  NameInv'
  <1>1. TypeOK /\ AtItsPlace /\ NameInv /\ Server \subseteq Process /\ Client \subseteq Process
    BY DEF IInv, Process
  <1>2. /\ Running(p) /\ family' = family /\ fate' = fate
        /\ Left(p)' = Left(p) - 1 /\ \A q \in Process \ {p} : Left(q)' = Left(q)
        /\ \A q \in Process : Left(q) \in Nat
    BY <1>1, CallMoves, LeftIsNat DEF Close, Keeping
  <1>3. /\ sock' = [sock EXCEPT ![p] = "none"] /\ met' = met
        /\ name' = IF IsUnix THEN name
                             ELSE [a \in Address |-> IF name[a] = p THEN None ELSE name[a]]
    BY DEF Close, Release, past
  <1>4. /\ p \in Server => Left(p) = IF IsUnix THEN 2 ELSE 1
        /\ p \notin Server => p \in Client /\ (family = "unix_dgram" => Left(p) = 2)
    BY <1>1, ServerCalls, ClientCalls DEF Close, Call, Process
  <1>5. IsUnix' = IsUnix /\ \A q \in Process : Running(q)' = Running(q)
    BY <1>2 DEF IsUnix, Running
  <1>6. /\ \A s \in Server \ {p} : Bound(s)' <=> Bound(s)
        /\ p \in Server => ~Bound(p)'
    BY <1>1, <1>2, <1>4 DEF Bound, IsUnix
  <1>7. IsUnix => \A q \in Process : OwesUnlink(q) => OwesUnlink(q)'
    BY <1>2, <1>4 DEF OwesUnlink, IsUnix
  <1>8. /\ name \in [Address -> Process \union {None}]
        /\ sock \in [Process -> {"none", "open", "listening"}]
    BY <1>1 DEF TypeOK
  <1>9. NamesAreOwn' /\ TwoHaveMet'
    BY <1>1, <1>2, <1>3, <1>5, <1>8 DEF NameInv, NamesAreOwn, TwoHaveMet, Address
  <1>10. BoundAreOpen'
    BY <1>1, <1>2, <1>3, <1>5, <1>6, <1>8 DEF NameInv, BoundAreOpen
  <1>11. IsUnix => FilesInv'
    BY <1>1, <1>2, <1>3, <1>5, <1>7, <1>8 DEF NameInv, FilesInv, Own
  <1>12. ~IsUnix => PortsInv'
    BY <1>1, <1>3, <1>8, SocketsAssumption DEF NameInv, PortsInv, Address
  <1>13. QED
    BY <1>5, <1>9, <1>10, <1>11, <1>12 DEF NameInv

LEMMA NamesOfEnd ==
  ASSUME IInv, NEW p \in Process, Ends(p)
  PROVE  NameInv'
  <1>1. TypeOK /\ AtItsPlace /\ NameInv /\ Server \subseteq Process /\ Client \subseteq Process
    BY DEF IInv, Process
  <1>2. PICK f \in {"done", "failed", "killed"} :
          /\ End(p, f) /\ Running(p) /\ met' = met
          /\ f = "done" => todo[p] = << >>
          /\ f = "failed" => At(p, "bind") \/ (p \in Client /\ At(p, "connect"))
    BY DEF Ends, BindsInVain
  <1>3. /\ family' = family /\ fate' = [fate EXCEPT ![p] = f]
        /\ \A q \in Process \ {p} : Left(q)' = Left(q)
        /\ \A q \in Process : Left(q) \in Nat
        /\ fate \in [Process -> Fate]
    BY <1>1, <1>2, EndMoves, LeftIsNat DEF Keeping, TypeOK
  <1>4. /\ sock' = [sock EXCEPT ![p] = "none"]
        /\ name' = IF IsUnix THEN name
                             ELSE [a \in Address |-> IF name[a] = p THEN None ELSE name[a]]
    BY <1>2 DEF End, Release
  <1>5. IsUnix /\ f # "killed" => ~OwesUnlink(p)
    <2>1. f = "done" => Left(p) = 0
      BY <1>1, <1>2, LeftIsNat
    <2>2. f = "failed" /\ p \in Server => \/ family \in {"tcp", "udp"}
                                          \/ family = "unix_stream" /\ Left(p) = 8
                                          \/ family = "unix_dgram" /\ Left(p) = 5
      BY <1>1, <1>2, ServerCalls, SocketsAssumption
    <2>3. f = "failed" /\ p \in Client => IsStream \/ Left(p) = 5
      BY <1>1, <1>2, ClientCalls
    <2>4. QED
      BY <1>1, <2>1, <2>2, <2>3 DEF OwesUnlink, IsUnix, IsStream, Process
  <1>6. /\ IsUnix' = IsUnix /\ ~Running(p)'
        /\ \A q \in Process \ {p} : Running(q)' = Running(q)
    BY <1>3 DEF IsUnix, Running
  <1>7. \A s \in Server \ {p} : Bound(s)' <=> Bound(s)
    BY <1>1, <1>3 DEF Bound
  <1>8. \A q \in Process \ {p} : OwesUnlink(q)' = OwesUnlink(q)
    BY <1>3 DEF OwesUnlink
  <1>9. /\ name \in [Address -> Process \union {None}]
        /\ sock \in [Process -> {"none", "open", "listening"}]
    BY <1>1 DEF TypeOK
  <1>10. NamesAreOwn' /\ TwoHaveMet'
    BY <1>1, <1>2, <1>4, <1>6, <1>9 DEF NameInv, NamesAreOwn, TwoHaveMet, Address
  <1>11. BoundAreOpen'
    BY <1>1, <1>4, <1>6, <1>7, <1>9 DEF NameInv, BoundAreOpen
  <1>12. ASSUME IsUnix, NEW a \in Address, name'[a] # None
         PROVE  \E q \in Process :
                  Own(q) = a /\ (fate'[q] = "killed" \/ (Running(q)' /\ OwesUnlink(q)'))
    <2>1. PICK q \in Process :
            Own(q) = a /\ (fate[q] = "killed" \/ (Running(q) /\ OwesUnlink(q)))
      BY <1>1, <1>4, <1>12 DEF NameInv, FilesInv
    <2>2. CASE q = p
      <3>1. f = "killed"
        BY <1>2, <1>5, <1>12, <2>1, <2>2 DEF Running
      <3>2. fate'[p] = "killed"
        BY <1>3, <3>1
      <3>3. QED
        BY <2>1, <2>2, <3>2
    <2>3. CASE q # p
      BY <1>3, <1>6, <1>8, <2>1, <2>3
    <2>4. QED
      BY <2>2, <2>3
  <1>13. IsUnix => FilesInv'
    <2>1. IsUnix => \A s \in Server : sock'[s] # "none" /\ s \notin met' => name'["server"] = s
      BY <1>1, <1>2, <1>4, <1>9 DEF NameInv, FilesInv
    <2>2. QED
      BY <1>12, <2>1 DEF FilesInv, Own
  <1>14. ~IsUnix => PortsInv'
    BY <1>1, <1>4, <1>9, SocketsAssumption DEF NameInv, PortsInv, Address
  <1>15. QED
    BY <1>6, <1>10, <1>11, <1>13, <1>14 DEF NameInv

LEMMA NamesOfStart ==
  ASSUME IInv, NEW p \in Process, Start(p)
  PROVE  NameInv'
  <1>1. TypeOK /\ AtItsPlace /\ NameInv /\ Server \subseteq Process /\ Client \subseteq Process
    BY DEF IInv, Process
  <1>2. /\ family' = family /\ fate' = [fate EXCEPT ![p] = "running"]
        /\ \A q \in Process : Left(q)' = Left(q)
        /\ fate[p] = "new" /\ Left(p) = Len(Program(p))
        /\ fate \in [Process -> Fate]
    BY <1>1, StartMoves DEF TypeOK
  <1>3. sock' = sock /\ name' = name
    BY DEF Start
  <1>4. /\ IsUnix' = IsUnix /\ Running(p)' /\ ~Running(p)
        /\ \A q \in Process \ {p} : Running(q)' = Running(q)
    BY <1>2 DEF IsUnix, Running
  <1>5. \A s \in Server : Bound(s)' <=> Bound(s)
    BY <1>1, <1>2 DEF Bound
  <1>6. p \in Server => ~Bound(p)
    <2>1. /\ family = "tcp" /\ p \in Server => Left(p) = 7
          /\ family = "udp" /\ p \in Server => Left(p) = 4
          /\ family = "unix_stream" /\ p \in Server => Left(p) = 9
          /\ family = "unix_dgram" => Left(p) = 6
      BY <1>1, <1>2, ProgramLengths
    <2>2. QED
      BY <2>1 DEF Bound
  <1>7. /\ met \subseteq met'
        /\ \A s \in Server \ {p} : p \in Server /\ Running(s) => s \in met' /\ p \in met'
    BY DEF Start
  <1>8. NamesAreOwn'
    BY <1>1, <1>3 DEF NameInv, NamesAreOwn
  <1>9. TwoHaveMet'
    BY <1>1, <1>4, <1>7 DEF NameInv, TwoHaveMet
  <1>10. BoundAreOpen'
    BY <1>1, <1>3, <1>4, <1>5, <1>6 DEF NameInv, BoundAreOpen
  <1>11. \A q \in Process : /\ OwesUnlink(q)' = OwesUnlink(q)
                            /\ fate[q] = "killed" => fate'[q] = "killed"
    BY <1>2 DEF OwesUnlink
  <1>12. IsUnix => FilesInv'
    BY <1>1, <1>3, <1>4, <1>7, <1>11 DEF NameInv, FilesInv, Own
  <1>13. ~IsUnix => PortsInv'
    BY <1>1, <1>3 DEF NameInv, PortsInv
  <1>14. QED
    BY <1>4, <1>8, <1>9, <1>10, <1>12, <1>13 DEF NameInv

LEMMA NamesPreserved ==
  ASSUME IInv, [Next]_vars
  PROVE  NameInv'
  <1>1. TypeOK /\ AtItsPlace /\ NameInv /\ Server \subseteq Process /\ Client \subseteq Process
    BY DEF IInv, Process
  <1>2. sock \in [Process -> {"none", "open", "listening"}]
    BY <1>1 DEF TypeOK
  <1> DEFINE Quiet(p, call) ==
        /\ call \in SystemCall \ {"unlink", "bind", "close"} /\ Call(p, call)
        /\ p \in Server => call # "connect"
        /\ name' = name /\ met' = met
        /\ \A s \in Server : sock'[s] # "none" <=> sock[s] # "none"
  <1>3. \A p \in Process : \A call : Quiet(p, call) => NameInv'
    BY NamesOfQuietCall
  <1>4. ASSUME NEW s \in Server, Listen(s)
        PROVE  NameInv'
    <2>1. sock[s] # "none"
      <3>1. Running(s) /\ Bound(s)
        BY <1>1, <1>4, QuietCalls DEF Listen, Call, At, SystemCall
      <3>2. QED
        BY <1>1, <3>1 DEF NameInv, BoundAreOpen
    <2>2. sock' = [sock EXCEPT ![s] = "listening"]
      BY <1>4 DEF Listen
    <2>3. \A t \in Server : sock'[t] # "none" <=> sock[t] # "none"
      BY <1>1, <1>2, <2>1, <2>2
    <2>4. Quiet(s, "listen")
      BY <1>4, <2>3 DEF Listen, SystemCall, past
    <2>5. QED
      BY <1>1, <1>3, <2>4
  <1>5. ASSUME NEW s \in Server,
               \/ Accept(s) \/ ServerRead(s) \/ Answers(s) \/ AnswersNobody(s)
               \/ CloseConnection(s) \/ ServerReceive(s) \/ ServerSendTo(s)
        PROVE  NameInv'
    <2>1. UNCHANGED <<name, met, sock>>
      BY <1>5 DEF Accept, ServerRead, Answers, AnswersNobody, CloseConnection, ServerReceive,
                  ServerSendTo, past
    <2>2. \E call \in {"accept", "read", "send", "close_connection", "recvfrom", "sendto"} :
            Call(s, call)
      BY <1>5 DEF Accept, ServerRead, Answers, AnswersNobody, CloseConnection, ServerReceive,
                  ServerSendTo
    <2>3. \E call : Quiet(s, call)
      BY <2>1, <2>2 DEF SystemCall
    <2>4. QED
      BY <1>1, <1>3, <2>3
  <1>6. ASSUME NEW c \in Client,
               \/ Connect(c) \/ ClientSends(c) \/ ClientRead(c)
               \/ ClientSendTo(c) \/ ClientReceive(c)
        PROVE  NameInv'
    <2>1. UNCHANGED <<name, met>> /\ sock' \in {sock, [sock EXCEPT ![c] = "open"]}
      BY <1>6 DEF Connect, ClientSends, ClientRead, ClientSendTo, ClientReceive, past
    <2>2. c \notin Server
      BY SocketsAssumption
    <2>3. \A s \in Server : sock'[s] # "none" <=> sock[s] # "none"
      BY <1>1, <1>2, <2>1, <2>2
    <2>4. \E call \in {"connect", "send", "read", "sendto", "recvfrom"} : Call(c, call)
      BY <1>6 DEF Connect, ClientSends, ClientRead, ClientSendTo, ClientReceive
    <2>5. \E call : Quiet(c, call)
      BY <2>1, <2>2, <2>3, <2>4 DEF SystemCall
    <2>6. QED
      BY <1>1, <1>3, <2>5
  <1> HIDE DEF Quiet
  <1>7. CASE LingeringEnds \/ UNCHANGED vars
    <2>1. UNCHANGED <<family, todo, fate, sock, name, met>>
      BY <1>7 DEF LingeringEnds, vars, past
    <2>2. QED
      BY <1>1, <2>1 DEF NameInv, NamesAreOwn, BoundAreOpen, TwoHaveMet, FilesInv, PortsInv,
                        IsUnix, Running, Bound, OwesUnlink, Left, Own
  <1>8. CASE Next
    BY <1>4, <1>5, <1>6, <1>7, <1>8, StepCases, NamesOfUnlink, NamesOfBind, NamesOfClose,
       NamesOfEnd, NamesOfStart
  <1>9. QED
    BY <1>7, <1>8

-----------------------------------------------------------------------------
(***************************************************************************)
(* Streams                                                                 *)
(***************************************************************************)
LEMMA TailMembers ==
  ASSUME NEW S, NEW q \in Seq(S), q # << >>
  PROVE  /\ Tail(q) \in Seq(S) /\ Head(q) = q[1] /\ 1 \in DOMAIN q
         /\ \A i \in DOMAIN Tail(q) : i + 1 \in DOMAIN q /\ Tail(q)[i] = q[i + 1]
         /\ \A i \in DOMAIN q : i # 1 => i - 1 \in DOMAIN Tail(q) /\ Tail(q)[i - 1] = q[i]
  <1>1. Tail(q) \in Seq(S) /\ Len(Tail(q)) = Len(q) - 1
    BY HeadTailProperties
  <1>2. \A i \in 1..Len(Tail(q)) : Tail(q)[i] = q[i + 1]
    BY HeadTailProperties
  <1>3. Len(q) \in Nat /\ Len(q) # 0 /\ DOMAIN q = 1..Len(q)
    BY LenProperties, EmptySeq
  <1>4. DOMAIN Tail(q) = 1..(Len(q) - 1)
    BY <1>1, LenProperties
  <1>5. Head(q) = q[1]
    OBVIOUS
  <1>6. QED
    BY <1>1, <1>2, <1>3, <1>4, <1>5

LEMMA AppendMembers ==
  ASSUME NEW S, NEW q \in Seq(S), NEW e \in S
  PROVE  /\ Append(q, e) \in Seq(S)
         /\ DOMAIN Append(q, e) = DOMAIN q \union {Len(q) + 1} /\ Len(q) + 1 \notin DOMAIN q
         /\ \A i \in DOMAIN q : Append(q, e)[i] = q[i]
         /\ Append(q, e)[Len(q) + 1] = e
  <1>1. /\ Append(q, e) \in Seq(S) /\ Len(Append(q, e)) = Len(q) + 1
        /\ \A i \in 1..Len(q) : Append(q, e)[i] = q[i]
        /\ Append(q, e)[Len(q) + 1] = e
    BY AppendProperties
  <1>2. Len(q) \in Nat /\ DOMAIN q = 1..Len(q)
    BY LenProperties
  <1>3. DOMAIN Append(q, e) = 1..(Len(q) + 1)
    BY <1>1, LenProperties
  <1>4. QED
    BY <1>1, <1>2, <1>3

LEMMA StreamQuiet ==
  ASSUME IInv, IsStream, NEW p \in Process, NEW call, Call(p, call),
         p \in Server => Left(p) # AcceptLeft /\ Left(p) # SendLeft + 1,
         \A s \in Server : queue'[s] = queue[s] \/ queue'[s] = << >>,
         peer' = peer, taken \subseteq taken',
         \A c \in Client : sock[c] = "none" => sock'[c] = "none"
  PROVE  StreamInv'
  <1>1. /\ TypeOK /\ AtItsPlace /\ StreamInv /\ Server \subseteq Process
        /\ Client \subseteq Process /\ None \notin Client
    BY SocketsAssumption DEF IInv, Process
  <1>2. /\ family' = family /\ fate' = fate /\ Left(p) # 0
        /\ Left(p)' = Left(p) - 1 /\ \A q \in Process \ {p} : Left(q)' = Left(q)
        /\ \A q \in Process : Left(q) \in Nat
    BY <1>1, CallMoves, LeftIsNat DEF Keeping
  <1>3. /\ ConnectLeft' = ConnectLeft /\ AcceptLeft' = AcceptLeft /\ SendLeft' = SendLeft
        /\ AcceptLeft \in Nat /\ SendLeft \in Nat /\ ConnectLeft \in Nat
        /\ SendLeft < AcceptLeft
        /\ \A q \in Process : Running(q)' = Running(q)
    BY <1>2 DEF ConnectLeft, AcceptLeft, SendLeft, Running
  <1>4. \A s \in Server : queue[s] \in Seq(Client) /\ peer[s] \in Client \union {None}
    BY <1>1 DEF TypeOK
  <1>5. QueuedHaveConnected'
    <2>1. \A s \in Server : ToSet(queue'[s]) \subseteq ToSet(queue[s])
      BY EmptySeq DEF ToSet
    <2>2. QED
      BY <1>1, <1>2, <1>3, <2>1 DEF StreamInv, QueuedHaveConnected
  <1>6. PeersHaveConnected'
    BY <1>1, <1>2, <1>3, <1>4 DEF StreamInv, PeersHaveConnected
  <1>7. AcceptedIsServed'
    BY <1>1, <1>2, <1>3 DEF StreamInv, AcceptedIsServed
  <1>8. ReadBeforeSend'
    <2>1. ASSUME NEW s \in Server, Running(s)', Left(s)' = SendLeft
          PROVE  peer[s] \in taken' \/ sock'[peer[s]] = "none"
      <3>1. Left(s) = SendLeft /\ Running(s)
        BY <1>1, <1>2, <1>3, <2>1
      <3>2. peer[s] \in Client
        BY <1>1, <1>3, <1>4, <3>1 DEF StreamInv, AcceptedIsServed
      <3>3. QED
        BY <1>1, <3>1, <3>2 DEF StreamInv, ReadBeforeSend
    <2>2. QED
      BY <1>3, <2>1 DEF ReadBeforeSend
  <1>9. QED
    BY <1>5, <1>6, <1>7, <1>8 DEF StreamInv

LEMMA StreamAccept ==
  ASSUME IInv, IsStream, NEW s \in Server, Accept(s)
  PROVE  StreamInv'
  <1>1. /\ TypeOK /\ AtItsPlace /\ StreamInv /\ Server \subseteq Process
        /\ Client \subseteq Process /\ None \notin Client /\ Server \intersect Client = {}
    BY SocketsAssumption DEF IInv, Process
  <1>2. /\ family' = family /\ fate' = fate
        /\ Left(s)' = Left(s) - 1 /\ \A q \in Process \ {s} : Left(q)' = Left(q)
        /\ \A q \in Process : Left(q) \in Nat
    BY <1>1, CallMoves, LeftIsNat DEF Keeping, Accept
  <1>3. /\ ConnectLeft' = ConnectLeft /\ AcceptLeft' = AcceptLeft /\ SendLeft' = SendLeft
        /\ AcceptLeft \in Nat /\ SendLeft \in Nat /\ ConnectLeft \in Nat
        /\ SendLeft + 1 < AcceptLeft
        /\ \A q \in Process : Running(q)' = Running(q)
    BY <1>2 DEF ConnectLeft, AcceptLeft, SendLeft, Running
  <1>4. /\ queue \in [Process -> Seq(Client)] /\ peer \in [Server -> Client \union {None}]
        /\ sock \in [Process -> {"none", "open", "listening"}]
    BY <1>1 DEF TypeOK
  <1>5. \A d \in Client : Left(d) \in Nat /\ Left(d)' \in Int /\ Left(d)' <= Left(d)
    BY <1>1, <1>2
  <1>6. /\ queue[s] # << >> /\ peer' = [peer EXCEPT ![s] = Head(queue[s])]
        /\ queue' = [queue EXCEPT ![s] = Tail(@)] /\ sock' = sock /\ taken' = taken
    BY DEF Accept, past
  <1>7. Left(s) = AcceptLeft
    BY <1>1, ServerCalls DEF Accept, Call
  <1>8. /\ Head(queue[s]) \in ToSet(queue[s]) /\ ToSet(Tail(queue[s])) \subseteq ToSet(queue[s])
        /\ Head(queue[s]) \in Client
    <2>1. queue[s] \in Seq(Client)
      BY <1>1, <1>4
    <2>2. QED
      BY <1>6, <2>1, TailMembers, HeadTailProperties DEF ToSet
  <1>9. QueuedHaveConnected'
    <2>1. \A t \in Server : ToSet(queue'[t]) \subseteq ToSet(queue[t])
      BY <1>1, <1>4, <1>6, <1>8
    <2>2. \A t \in Server, c \in Client : c \in ToSet(queue[t]) => Left(c) < ConnectLeft
      BY <1>1 DEF StreamInv, QueuedHaveConnected
    <2>3. \A t \in Server, c \in Client : c \in ToSet(queue'[t]) => Left(c)' < ConnectLeft
      BY <1>3, <1>5, <2>1, <2>2
    <2>4. QED
      BY <1>3, <2>3 DEF QueuedHaveConnected
  <1>10. PeersHaveConnected'
    <2>1. \A t \in Server, c \in Client :
            c \in ToSet(queue[t]) \/ peer[t] = c => Left(c) < ConnectLeft
      BY <1>1 DEF StreamInv, QueuedHaveConnected, PeersHaveConnected
    <2>2. \A t \in Server, c \in Client : peer'[t] = c => peer[t] = c \/ c \in ToSet(queue[t])
      BY <1>4, <1>6, <1>8
    <2>3. \A t \in Server, c \in Client : peer'[t] = c => Left(c)' < ConnectLeft
      BY <1>3, <1>5, <2>1, <2>2
    <2>4. QED
      BY <1>3, <2>3 DEF PeersHaveConnected
  <1>11. AcceptedIsServed'
    <2>1. ASSUME NEW t \in Server, Running(t), Left(t)' < AcceptLeft
          PROVE  peer'[t] # None
      <3>1. CASE t = s
        BY <1>1, <1>4, <1>6, <1>8, <3>1
      <3>2. CASE t # s
        BY <1>1, <1>2, <1>4, <1>6, <2>1, <3>2 DEF StreamInv, AcceptedIsServed
      <3>3. QED
        BY <3>1, <3>2
    <2>2. QED
      BY <1>1, <1>3, <2>1 DEF AcceptedIsServed
  <1>12. ReadBeforeSend'
    <2>1. ASSUME NEW t \in Server, Running(t), Left(t)' = SendLeft
          PROVE  peer'[t] \in taken \/ sock[peer'[t]] = "none"
      <3>1. t # s
        BY <1>2, <1>3, <1>7, <2>1
      <3>2. QED
        BY <1>1, <1>2, <1>4, <1>6, <2>1, <3>1 DEF StreamInv, ReadBeforeSend
    <2>2. QED
      BY <1>1, <1>3, <1>6, <2>1 DEF ReadBeforeSend
  <1>13. QED
    BY <1>9, <1>10, <1>11, <1>12 DEF StreamInv

LEMMA StreamRead ==
  ASSUME IInv, IsStream, NEW s \in Server, ServerRead(s)
  PROVE  StreamInv'
  <1>1. /\ TypeOK /\ AtItsPlace /\ StreamInv /\ Server \subseteq Process
        /\ Client \subseteq Process /\ None \notin Client /\ Server \intersect Client = {}
    BY SocketsAssumption DEF IInv, Process
  <1>2. /\ family' = family /\ fate' = fate
        /\ Left(s)' = Left(s) - 1 /\ \A q \in Process \ {s} : Left(q)' = Left(q)
        /\ \A q \in Process : Left(q) \in Nat
    BY <1>1, CallMoves, LeftIsNat DEF Keeping, ServerRead
  <1>3. /\ ConnectLeft' = ConnectLeft /\ AcceptLeft' = AcceptLeft /\ SendLeft' = SendLeft
        /\ AcceptLeft \in Nat /\ SendLeft \in Nat /\ ConnectLeft \in Nat
        /\ SendLeft + 1 < AcceptLeft
        /\ \A q \in Process : Running(q)' = Running(q)
    BY <1>2 DEF ConnectLeft, AcceptLeft, SendLeft, Running
  <1>4. /\ queue \in [Process -> Seq(Client)] /\ peer \in [Server -> Client \union {None}]
        /\ sock \in [Process -> {"none", "open", "listening"}]
    BY <1>1 DEF TypeOK
  <1>5. \A d \in Client : Left(d) \in Nat /\ Left(d)' \in Int /\ Left(d)' <= Left(d)
    BY <1>1, <1>2
  <1>6. /\ peer[s] \in unread \/ sock[peer[s]] = "none"
        /\ taken' = taken \union ({peer[s]} \intersect unread)
        /\ peer' = peer /\ queue' = queue /\ sock' = sock
    BY DEF ServerRead
  <1>7. Left(s) = SendLeft + 1
    BY <1>1, ServerCalls DEF ServerRead, Call
  <1>8. QueuedHaveConnected' /\ PeersHaveConnected'
    <2>1. \A t \in Server, c \in Client :
            c \in ToSet(queue[t]) \/ peer[t] = c => Left(c) < ConnectLeft
      BY <1>1 DEF StreamInv, QueuedHaveConnected, PeersHaveConnected
    <2>2. \A t \in Server, c \in Client :
            c \in ToSet(queue[t]) \/ peer[t] = c => Left(c)' < ConnectLeft
      BY <1>3, <1>5, <2>1
    <2>3. QED
      BY <1>3, <1>6, <2>2 DEF QueuedHaveConnected, PeersHaveConnected
  <1>9. AcceptedIsServed'
    BY <1>1, <1>2, <1>3, <1>6, <1>7 DEF StreamInv, AcceptedIsServed
  <1>10. ReadBeforeSend'
    <2>1. ASSUME NEW t \in Server, Running(t), Left(t)' = SendLeft
          PROVE  peer[t] \in taken' \/ sock[peer[t]] = "none"
      <3>1. CASE t = s
        BY <1>6, <3>1
      <3>2. CASE t # s
        BY <1>1, <1>2, <1>6, <2>1, <3>2 DEF StreamInv, ReadBeforeSend
      <3>3. QED
        BY <3>1, <3>2
    <2>2. QED
      BY <1>1, <1>3, <1>6, <2>1 DEF ReadBeforeSend
  <1>11. QED
    BY <1>8, <1>9, <1>10 DEF StreamInv

LEMMA StreamConnect ==
  ASSUME IInv, IsStream, NEW c \in Client, Connect(c)
  PROVE  StreamInv'
  <1>1. /\ TypeOK /\ AtItsPlace /\ StreamInv /\ Server \subseteq Process
        /\ Client \subseteq Process /\ None \notin Client /\ Server \intersect Client = {}
    BY SocketsAssumption DEF IInv, Process
  <1>2. /\ family' = family /\ fate' = fate
        /\ Left(c)' = Left(c) - 1 /\ \A q \in Process \ {c} : Left(q)' = Left(q)
        /\ \A q \in Process : Left(q) \in Nat
    BY <1>1, CallMoves, LeftIsNat DEF Keeping, Connect
  <1>3. /\ ConnectLeft' = ConnectLeft /\ AcceptLeft' = AcceptLeft /\ SendLeft' = SendLeft
        /\ AcceptLeft \in Nat /\ SendLeft \in Nat /\ ConnectLeft \in Nat
        /\ SendLeft + 1 < AcceptLeft
        /\ \A q \in Process : Running(q)' = Running(q)
    BY <1>2 DEF ConnectLeft, AcceptLeft, SendLeft, Running
  <1>4. /\ queue \in [Process -> Seq(Client)] /\ peer \in [Server -> Client \union {None}]
        /\ sock \in [Process -> {"none", "open", "listening"}]
    BY <1>1 DEF TypeOK
  <1>5. \A d \in Client : Left(d) \in Nat /\ Left(d)' \in Int /\ Left(d)' <= Left(d)
    BY <1>1, <1>2
  <1>6. /\ queue' = [queue EXCEPT ![name["server"]] = Append(@, c)]
        /\ sock' = [sock EXCEPT ![c] = "open"] /\ peer' = peer /\ taken' = taken
    BY DEF Connect, past
  <1>7. Left(c) = ConnectLeft
    BY <1>1, ClientCalls DEF Connect, Call
  <1>8. QueuedHaveConnected'
    <2>1. \A t \in Server : ToSet(queue'[t]) \subseteq ToSet(queue[t]) \union {c}
      <3>1. \A t \in Server : ToSet(Append(queue[t], c)) \subseteq ToSet(queue[t]) \union {c}
        BY <1>1, <1>4, AppendMembers DEF ToSet
      <3>2. QED
        BY <1>1, <1>4, <1>6, <3>1
    <2>2. \A t \in Server, d \in Client : d \in ToSet(queue[t]) => Left(d) < ConnectLeft
      BY <1>1 DEF StreamInv, QueuedHaveConnected
    <2>3. \A t \in Server, d \in Client : d \in ToSet(queue'[t]) => Left(d)' < ConnectLeft
      BY <1>2, <1>3, <1>5, <1>7, <2>1, <2>2
    <2>4. QED
      BY <1>3, <2>3 DEF QueuedHaveConnected
  <1>9. \A t \in Server, d \in Client : peer[t] = d => Left(d) < ConnectLeft
    BY <1>1 DEF StreamInv, PeersHaveConnected
  <1>10. PeersHaveConnected'
    <2>1. \A t \in Server, d \in Client : peer[t] = d => Left(d)' < ConnectLeft
      BY <1>3, <1>5, <1>9
    <2>2. QED
      BY <1>3, <1>6, <2>1 DEF PeersHaveConnected
  <1>11. \A t \in Server : Left(t)' = Left(t)
    BY <1>1, <1>2
  <1>12. AcceptedIsServed'
    BY <1>1, <1>3, <1>6, <1>11 DEF StreamInv, AcceptedIsServed
  <1>13. ReadBeforeSend'
    <2>1. ASSUME NEW t \in Server, Running(t), Left(t) = SendLeft
          PROVE  peer[t] \in taken \/ sock'[peer[t]] = "none"
      <3>1. peer[t] \in Client
        BY <1>1, <1>3, <1>4, <2>1 DEF StreamInv, AcceptedIsServed
      <3>2. peer[t] # c
        BY <1>3, <1>7, <1>9
      <3>3. QED
        BY <1>1, <1>4, <1>6, <2>1, <3>1, <3>2 DEF StreamInv, ReadBeforeSend
    <2>2. QED
      BY <1>1, <1>3, <1>6, <1>11, <2>1 DEF ReadBeforeSend
  <1>14. QED
    BY <1>8, <1>10, <1>12, <1>13 DEF StreamInv

LEMMA StreamEnd ==
  ASSUME IInv, IsStream, NEW p \in Process, Ends(p)
  PROVE  StreamInv'
  <1>1. /\ TypeOK /\ AtItsPlace /\ StreamInv /\ Server \subseteq Process
        /\ Client \subseteq Process /\ None \notin Client
    BY SocketsAssumption DEF IInv, Process
  <1>2. PICK f \in {"done", "failed", "killed"} : End(p, f) /\ taken' = taken
    BY DEF Ends
  <1>3. /\ family' = family /\ fate' = [fate EXCEPT ![p] = f]
        /\ Left(p)' = 0 /\ \A q \in Process \ {p} : Left(q)' = Left(q)
        /\ \A q \in Process : Left(q) \in Nat
        /\ fate \in [Process -> Fate]
    BY <1>1, <1>2, EndMoves, LeftIsNat DEF Keeping, TypeOK
  <1>4. /\ sock' = [sock EXCEPT ![p] = "none"] /\ queue' = [queue EXCEPT ![p] = << >>]
        /\ peer' = peer
    BY <1>2 DEF End, Release
  <1>5. /\ ConnectLeft' = ConnectLeft /\ AcceptLeft' = AcceptLeft /\ SendLeft' = SendLeft
        /\ AcceptLeft \in Nat /\ SendLeft \in Nat /\ ConnectLeft \in Nat
        /\ SendLeft < AcceptLeft
        /\ ~Running(p)' /\ \A q \in Process \ {p} : Running(q)' = Running(q)
    BY <1>3 DEF ConnectLeft, AcceptLeft, SendLeft, Running
  <1>6. /\ queue \in [Process -> Seq(Client)] /\ peer \in [Server -> Client \union {None}]
        /\ sock \in [Process -> {"none", "open", "listening"}]
    BY <1>1 DEF TypeOK
  <1>7. \A d \in Client : Left(d) \in Nat /\ Left(d)' \in Int /\ Left(d)' <= Left(d)
    BY <1>1, <1>3
  <1>8. QueuedHaveConnected' /\ PeersHaveConnected'
    <2>1. ToSet(<< >>) = {}
      BY EmptySeq DEF ToSet
    <2>2. \A t \in Server : ToSet(queue'[t]) \subseteq ToSet(queue[t])
      BY <1>1, <1>4, <1>6, <2>1
    <2>3. \A t \in Server, c \in Client :
            c \in ToSet(queue[t]) \/ peer[t] = c => Left(c) < ConnectLeft
      BY <1>1 DEF StreamInv, QueuedHaveConnected, PeersHaveConnected
    <2>4. \A t \in Server, c \in Client :
            c \in ToSet(queue'[t]) \/ peer[t] = c => Left(c)' < ConnectLeft
      BY <1>5, <1>7, <2>2, <2>3
    <2>5. QED
      BY <1>4, <1>5, <2>4 DEF QueuedHaveConnected, PeersHaveConnected
  <1>9. AcceptedIsServed'
    BY <1>1, <1>3, <1>4, <1>5 DEF StreamInv, AcceptedIsServed
  <1>10. ReadBeforeSend'
    <2>1. ASSUME NEW t \in Server, Running(t)', Left(t)' = SendLeft
          PROVE  peer[t] \in taken \/ sock'[peer[t]] = "none"
      <3>1. Running(t) /\ Left(t) = SendLeft
        BY <1>1, <1>3, <1>5, <2>1
      <3>2. peer[t] \in Client /\ (peer[t] \in taken \/ sock[peer[t]] = "none")
        BY <1>1, <1>5, <1>6, <3>1 DEF StreamInv, AcceptedIsServed, ReadBeforeSend
      <3>3. QED
        BY <1>1, <1>4, <1>6, <3>2
    <2>2. QED
      BY <1>2, <1>4, <1>5, <2>1 DEF ReadBeforeSend
  <1>11. QED
    BY <1>8, <1>9, <1>10 DEF StreamInv

LEMMA StreamStart ==
  ASSUME IInv, IsStream, NEW p \in Process, Start(p)
  PROVE  StreamInv'
  <1>1. /\ TypeOK /\ AtItsPlace /\ StreamInv /\ Server \subseteq Process
        /\ Client \subseteq Process
    BY DEF IInv, Process
  <1>2. /\ family' = family /\ fate' = [fate EXCEPT ![p] = "running"]
        /\ \A q \in Process : Left(q)' = Left(q)
        /\ Left(p) = Len(Program(p))
    BY <1>1, StartMoves
  <1>3. UNCHANGED <<sock, queue, peer, taken>>
    BY DEF Start, links
  <1>4. /\ ConnectLeft' = ConnectLeft /\ AcceptLeft' = AcceptLeft /\ SendLeft' = SendLeft
        /\ \A q \in Process \ {p} : Running(q)' = Running(q)
    BY <1>2 DEF ConnectLeft, AcceptLeft, SendLeft, Running
  <1>5. p \in Server => Left(p) > AcceptLeft /\ Left(p) # SendLeft
    <2>1. p \in Server => /\ family = "tcp" => Left(p) = 7
                          /\ family = "unix_stream" => Left(p) = 9
      BY <1>1, <1>2, ProgramLengths
    <2>2. QED
      BY <2>1 DEF IsStream, AcceptLeft, SendLeft
  <1>6. /\ QueuedHaveConnected' /\ PeersHaveConnected'
    BY <1>1, <1>2, <1>3, <1>4 DEF StreamInv, QueuedHaveConnected, PeersHaveConnected
  <1>7. AcceptedIsServed'
    <2>1. AcceptLeft \in Nat /\ \A q \in Process : Left(q) \in Nat
      BY <1>1, LeftIsNat DEF AcceptLeft
    <2>2. QED
      BY <1>1, <1>2, <1>3, <1>4, <1>5, <2>1 DEF StreamInv, AcceptedIsServed
  <1>8. ReadBeforeSend'
    BY <1>1, <1>2, <1>3, <1>4, <1>5 DEF StreamInv, ReadBeforeSend
  <1>9. QED
    BY <1>6, <1>7, <1>8 DEF StreamInv

LEMMA StreamPreserved ==
  ASSUME IInv, IsStream, [Next]_vars
  PROVE  StreamInv'
  <1>1. /\ TypeOK /\ AtItsPlace /\ Server \subseteq Process /\ Client \subseteq Process
        /\ Server \intersect Client = {} /\ StreamInv
    BY SocketsAssumption DEF IInv, Process
  <1>2. /\ queue \in [Process -> Seq(Client)]
        /\ sock \in [Process -> {"none", "open", "listening"}]
    BY <1>1 DEF TypeOK
  <1> DEFINE Quiet(p, call) ==
        /\ Call(p, call)
        /\ p \in Server => Left(p) # AcceptLeft /\ Left(p) # SendLeft + 1
        /\ \A s \in Server : queue'[s] = queue[s] \/ queue'[s] = << >>
        /\ peer' = peer /\ taken \subseteq taken'
        /\ \A c \in Client : sock[c] = "none" => sock'[c] = "none"
  <1>3. \A p \in Process : \A call : Quiet(p, call) => StreamInv'
    BY StreamQuiet
  <1>4. ASSUME NEW p \in Process,
               NEW call \in {"unlink", "bind", "close", "listen", "send", "close_connection"},
               Call(p, call)
        PROVE  p \in Server => Left(p) # AcceptLeft /\ Left(p) # SendLeft + 1
    <2>1. SUFFICES ASSUME p \in Server
                   PROVE  Left(p) # AcceptLeft /\ Left(p) # SendLeft + 1
      OBVIOUS
    <2>2. /\ At(p, "unlink") => family = "unix_stream" /\ Left(p) \in {1, 9}
          /\ At(p, "bind") => \/ family = "tcp" /\ Left(p) = 7
                              \/ family = "unix_stream" /\ Left(p) = 8
          /\ At(p, "listen") => Left(p) = AcceptLeft + 1
          /\ At(p, "send")   => Left(p) = SendLeft
          /\ At(p, "close_connection") => Left(p) = SendLeft - 1
          /\ At(p, "close")  => Left(p) = IF IsUnix THEN 2 ELSE 1
      BY <1>1, <2>1, ServerCalls DEF IsStream
    <2>3. QED
      BY <1>4, <2>1, <2>2 DEF Call, AcceptLeft, SendLeft, IsStream, IsUnix
  <1>5. ASSUME NEW p \in Process, Unlink(p)
        PROVE  StreamInv'
    <2>1. Quiet(p, "unlink")
      BY <1>4, <1>5 DEF Unlink, links, past
    <2>2. QED
      BY <1>3, <2>1
  <1>6. ASSUME NEW p \in Process, Bind(p)
        PROVE  StreamInv'
    <2>1. p \in Server
      BY <1>1, <1>6, ClientCalls DEF Bind, Call, Process, IsStream
    <2>2. Quiet(p, "bind")
      BY <1>1, <1>2, <1>4, <1>6, <2>1 DEF Bind, links, past
    <2>3. QED
      BY <1>3, <2>2
  <1>7. ASSUME NEW p \in Process, Close(p)
        PROVE  StreamInv'
    <2>1. Quiet(p, "close")
      BY <1>1, <1>2, <1>4, <1>7 DEF Close, Release, past
    <2>2. QED
      BY <1>3, <2>1
  <1>8. ASSUME NEW s \in Server, Listen(s)
        PROVE  StreamInv'
    <2>1. Quiet(s, "listen")
      BY <1>1, <1>2, <1>4, <1>8 DEF Listen, links, past
    <2>2. QED
      BY <1>1, <1>3, <2>1
  <1>9. ASSUME NEW s \in Server, AnswersNobody(s) \/ Answers(s)
        PROVE  StreamInv'
    <2>1. Answers(s) => peer[s] \in Client
      BY PeerIsClient DEF Answers, Call
    <2>2. UNCHANGED <<sock, peer, taken>> /\ \A t \in Server : queue'[t] = queue[t]
      BY <1>1, <1>2, <1>9, <2>1 DEF Answers, AnswersNobody, links, past
    <2>3. Quiet(s, "send")
      BY <1>1, <1>4, <1>9, <2>2 DEF Answers, AnswersNobody
    <2>4. QED
      BY <1>1, <1>3, <2>3
  <1>10. ASSUME NEW s \in Server, CloseConnection(s)
         PROVE  StreamInv'
    <2>1. Quiet(s, "close_connection")
      BY <1>1, <1>4, <1>10 DEF CloseConnection, past
    <2>2. QED
      BY <1>1, <1>3, <2>1
  <1>11. ASSUME NEW c \in Client, ClientSends(c) \/ ClientRead(c)
         PROVE  StreamInv'
    <2>1. UNCHANGED <<sock, peer, taken>> /\ \A t \in Server : queue'[t] = queue[t]
      BY <1>1, <1>2, <1>11 DEF ClientSends, ClientRead, past
    <2>2. \E call : Quiet(c, call)
      BY <1>1, <1>11, <2>1 DEF ClientSends, ClientRead
    <2>3. QED
      BY <1>1, <1>3, <2>2
  <1> HIDE DEF Quiet
  <1>12. /\ \A s \in Server : ~ServerReceive(s) /\ ~ServerSendTo(s)
         /\ \A c \in Client : ~ClientReceive(c) /\ ~ClientSendTo(c)
    BY <1>1, ServerCalls, ClientCalls
       DEF ServerReceive, ServerSendTo, ClientReceive, ClientSendTo, Call
  <1>13. CASE LingeringEnds \/ UNCHANGED vars
    <2>1. UNCHANGED <<family, todo, fate, sock, queue, peer, taken>>
      BY <1>13 DEF LingeringEnds, vars, links, past
    <2>2. QED
      BY <1>1, <2>1 DEF StreamInv, QueuedHaveConnected, PeersHaveConnected, AcceptedIsServed,
                        ReadBeforeSend, Left, Running, ConnectLeft, AcceptLeft, SendLeft
  <1>14. CASE Next
    BY <1>5, <1>6, <1>7, <1>8, <1>9, <1>10, <1>11, <1>12, <1>13, <1>14, StepCases, StreamEnd,
       StreamStart, StreamAccept, StreamRead, StreamConnect
  <1>15. QED
    BY <1>13, <1>14

-----------------------------------------------------------------------------
(***************************************************************************)
(* Answers                                                                 *)
(***************************************************************************)
(* A server has a datagram to answer only when it has just received it, or *)
(* had it before.                                                          *)
LEMMA HoldingSteps ==
  ASSUME IInv, ~IsStream, [Next]_vars
  PROVE  \A s \in Server :
           Holding(s)' => ServerReceive(s) \/ (Holding(s) /\ peer'[s] = peer[s])
  <1>1. /\ TypeOK /\ AtItsPlace /\ Server \subseteq Process /\ Client \subseteq Process
        /\ Server \intersect Client = {} /\ family \in {"udp", "unix_dgram"}
    BY SocketsAssumption DEF IInv, Process, TypeOK, IsStream
  <1> DEFINE Goal == \A s \in Server :
                       Holding(s)' => ServerReceive(s) \/ (Holding(s) /\ peer'[s] = peer[s])
             Same(S) == /\ family' = family /\ peer' = peer
                        /\ \A s \in S : Left(s)' = Left(s) /\ fate'[s] = fate[s]
  <1>2. ASSUME NEW p \in Process, NEW call, Call(p, call)
        PROVE  /\ family' = family /\ Left(p)' = Left(p) - 1 /\ Left(p) \in Nat
               /\ \A q \in Process \ {p} : Left(q)' = Left(q) /\ fate'[q] = fate[q]
    BY <1>1, <1>2, CallMoves, LeftIsNat DEF Keeping
  <1>3. ASSUME NEW p, Same(Server \ {p}), p \in Server => ~Holding(p)'
        PROVE  Goal
    <2>1. ASSUME NEW s \in Server, Holding(s)'
          PROVE  Holding(s) /\ peer'[s] = peer[s]
      <3>1. s # p
        BY <1>3, <2>1
      <3>2. family' = family /\ Left(s)' = Left(s) /\ fate'[s] = fate[s] /\ peer' = peer
        BY <1>3, <3>1
      <3>3. QED
        BY <2>1, <3>2 DEF Holding, Running
    <2>2. QED
      BY <2>1
  <1>4. ASSUME NEW p \in Process, NEW call \in {"unlink", "bind", "close", "sendto"},
               Call(p, call), p \in Server
        PROVE  ~Holding(p)'
    <2>1. Left(p)' = Left(p) - 1 /\ Left(p) \in Nat /\ family' = family
      BY <1>2, <1>4
    <2>2. /\ At(p, "unlink") => family = "unix_dgram" /\ Left(p) \in {1, 6}
          /\ At(p, "bind") => \/ family = "udp" /\ Left(p) = 4
                              \/ family = "unix_dgram" /\ Left(p) = 5
          /\ At(p, "close")  => Left(p) = IF IsUnix THEN 2 ELSE 1
          /\ At(p, "sendto") => Left(p) = (IF IsUnix THEN 3 ELSE 2)
      BY <1>1, <1>4, ServerCalls DEF IsStream
    <2>3. Left(p)' # IF family = "udp" THEN 2 ELSE 3
      BY <1>1, <1>4, <2>1, <2>2 DEF Call, IsUnix
    <2>4. QED
      BY <2>1, <2>3 DEF Holding
  <1> HIDE DEF Goal
  <1>5. ASSUME NEW p \in Process, Unlink(p) \/ Bind(p) \/ Close(p)
        PROVE  Goal
    <2>1. peer' = peer /\ (Call(p, "unlink") \/ Call(p, "bind") \/ Call(p, "close"))
      BY <1>5 DEF Unlink, Bind, Close, Release, links
    <2>2. Same(Server \ {p}) /\ (p \in Server => ~Holding(p)')
      BY <1>1, <1>2, <1>4, <2>1
    <2>3. QED
      BY <1>3, <2>2
  <1>6. ASSUME NEW s \in Server, ServerSendTo(s)
        PROVE  Goal
    <2>1. Same(Server \ {s}) /\ ~Holding(s)'
      BY <1>1, <1>2, <1>4, <1>6 DEF ServerSendTo
    <2>2. QED
      BY <1>3, <2>1
  <1>7. ASSUME NEW s \in Server, ServerReceive(s)
        PROVE  Goal
    <2>1. family' = family /\ \A t \in Server \ {s} : Left(t)' = Left(t) /\ fate'[t] = fate[t]
      BY <1>1, <1>2, <1>7 DEF ServerReceive
    <2>2. \A t \in Server \ {s} : peer'[t] = peer[t]
      BY <1>1, <1>7 DEF ServerReceive, TypeOK
    <2>3. QED
      BY <1>7, <2>1, <2>2 DEF Goal, Holding, Running
  <1>8. ASSUME NEW c \in Client, ClientSendTo(c) \/ ClientReceive(c)
        PROVE  Goal
    <2>1. peer' = peer /\ \E call : Call(c, call)
      BY <1>8 DEF ClientSendTo, ClientReceive
    <2>2. Same(Server \ {c}) /\ c \notin Server
      BY <1>1, <1>2, <2>1
    <2>3. QED
      BY <1>3, <2>2
  <1>9. ASSUME NEW p \in Process, Ends(p)
        PROVE  Goal
    <2>1. PICK f \in {"done", "failed", "killed"} : End(p, f)
      BY <1>9 DEF Ends
    <2>2. /\ family' = family /\ fate' = [fate EXCEPT ![p] = f]
          /\ \A q \in Process \ {p} : Left(q)' = Left(q) /\ fate'[q] = fate[q]
          /\ peer' = peer /\ fate \in [Process -> Fate]
      BY <1>1, <2>1, EndMoves DEF Keeping, End, Release, TypeOK
    <2>3. Same(Server \ {p}) /\ ~Holding(p)'
      BY <1>1, <2>2 DEF Holding, Running
    <2>4. QED
      BY <1>3, <2>3
  <1>10. ASSUME NEW p \in Process, Start(p)
         PROVE  Goal
    <2>1. /\ family' = family /\ fate' = [fate EXCEPT ![p] = "running"] /\ peer' = peer
          /\ \A q \in Process : Left(q)' = Left(q)
          /\ Left(p) = Len(Program(p))
      BY <1>1, <1>10, StartMoves DEF Start, links
    <2>2. p \in Server => /\ family = "udp" => Left(p) = 4
                          /\ family = "unix_dgram" => Left(p) = 6
      BY <1>1, <2>1, ProgramLengths
    <2>3. ASSUME p \in Server
          PROVE  ~Holding(p)'
      <3>1. family' = family /\ Left(p)' # IF family = "udp" THEN 2 ELSE 3
        BY <1>1, <2>1, <2>2, <2>3
      <3>2. QED
        BY <3>1 DEF Holding
    <2>4. Same(Server \ {p})
      BY <1>1, <2>1
    <2>5. QED
      BY <1>3, <2>3, <2>4
  <1>11. ASSUME LingeringEnds \/ UNCHANGED vars
         PROVE  Goal
    <2>1. UNCHANGED <<family, todo, fate, peer>>
      BY <1>11 DEF LingeringEnds, vars, links
    <2>2. QED
      BY <2>1 DEF Goal, Holding, Running, Left
  <1>12. /\ \A s \in Server : /\ ~Listen(s) /\ ~Accept(s) /\ ~ServerRead(s) /\ ~Answers(s)
                              /\ ~AnswersNobody(s) /\ ~CloseConnection(s)
         /\ \A c \in Client : ~Connect(c) /\ ~ClientSends(c) /\ ~ClientRead(c)
    BY <1>1, ServerCalls, ClientCalls
       DEF Listen, Accept, ServerRead, Answers, AnswersNobody, CloseConnection, Connect,
           ClientSends, ClientRead, Call
  <1>13. ASSUME Next
         PROVE  Goal
    BY <1>5, <1>6, <1>7, <1>8, <1>9, <1>10, <1>11, <1>12, <1>13, StepCases
  <1>14. QED
    BY <1>11, <1>13 DEF Goal

(* What comes into a client's queue is an answer, and what it reads comes  *)
(* out of it.                                                              *)
Earned(c, d) == d \in taken /\ (family # "unix_dgram" => d = c)
QueuesGrowByAnswers ==
  \A c, d \in Client : d \in ToSet(queue'[c]) => d \in ToSet(queue[c]) \/ Earned(c, d)
AnswersComeFromQueues ==
  \A c \in Client : answer'[c] # None => answer'[c] \in {answer[c]} \union ToSet(queue[c])

LEMMA AnswerSteps ==
  ASSUME IInv, [Next]_vars
  PROVE  QueuesGrowByAnswers /\ AnswersComeFromQueues /\ taken \subseteq taken'
  <1>1. /\ TypeOK /\ AtItsPlace /\ Server \subseteq Process /\ Client \subseteq Process
        /\ Server \intersect Client = {} /\ None \notin Client
    BY SocketsAssumption DEF IInv, Process
  <1>2. /\ queue \in [Process -> Seq(Client)] /\ answer \in [Client -> Client \union {None}]
        /\ peer \in [Server -> Client \union {None}]
    BY <1>1 DEF TypeOK
  <1>3. name["server"] \in Server \union {None} /\ name["client"] \in Client \union {None}
    BY DEF IInv, NameInv, NamesAreOwn
  <1>4. ToSet(<< >>) = {}
    BY EmptySeq DEF ToSet
  <1> DEFINE Goal == QueuesGrowByAnswers /\ AnswersComeFromQueues /\ taken \subseteq taken'
             OldQueues == \A c \in Client : queue'[c] = queue[c] \/ queue'[c] = << >>
  <1>5. ASSUME OldQueues, answer' = answer, taken \subseteq taken'
        PROVE  Goal
    BY <1>4, <1>5 DEF QueuesGrowByAnswers, AnswersComeFromQueues
  <1>6. ASSUME QueuesGrowByAnswers, answer' = answer, taken' = taken
        PROVE  Goal
    BY <1>6 DEF AnswersComeFromQueues
  <1> HIDE DEF Goal
  <1>7. ASSUME NEW p \in Process, Start(p) \/ Unlink(p) \/ Bind(p)
        PROVE  Goal
    <2>1. queue' = queue /\ answer' = answer /\ taken' = taken
      BY <1>7 DEF Start, Unlink, Bind, links, past
    <2>2. QED
      BY <1>5, <2>1
  <1>8. ASSUME NEW p \in Process, Close(p) \/ Ends(p)
        PROVE  Goal
    <2>1. queue' = [queue EXCEPT ![p] = << >>] /\ answer' = answer /\ taken' = taken
      BY <1>8 DEF Close, Ends, End, Release, past
    <2>2. OldQueues
      BY <1>1, <1>2, <2>1
    <2>3. QED
      BY <1>5, <2>1, <2>2
  <1>9. ASSUME NEW s \in Server,
               Listen(s) \/ ServerRead(s) \/ AnswersNobody(s) \/ CloseConnection(s)
        PROVE  Goal
    <2>1. queue' = queue /\ answer' = answer /\ taken \subseteq taken'
      BY <1>9 DEF Listen, ServerRead, AnswersNobody, CloseConnection, links, past
    <2>2. QED
      BY <1>5, <2>1
  <1>10. ASSUME NEW s \in Server, Accept(s) \/ ServerReceive(s)
         PROVE  Goal
    <2>1. queue' = [queue EXCEPT ![s] = Tail(@)] /\ answer' = answer /\ taken \subseteq taken'
      BY <1>10 DEF Accept, ServerReceive, past
    <2>2. OldQueues
      BY <1>1, <1>2, <2>1
    <2>3. QED
      BY <1>5, <2>1, <2>2
  <1>11. ASSUME NEW a \in Client, NEW b \in Client, Earned(a, b),
                queue' = [queue EXCEPT ![a] = Append(@, b)]
         PROVE  QueuesGrowByAnswers
    <2>1. ToSet(Append(queue[a], b)) \subseteq ToSet(queue[a]) \union {b}
      BY <1>1, <1>2, AppendMembers DEF ToSet
    <2>2. QED
      BY <1>1, <1>2, <1>11, <2>1 DEF QueuesGrowByAnswers
  <1>12. ASSUME NEW s \in Server, Answers(s)
         PROVE  Goal
    <2>1. At(s, "send") /\ sock[peer[s]] # "none" /\ answer' = answer /\ taken' = taken
      BY <1>12 DEF Answers, Call, past
    <2>2. peer[s] \in Client /\ Earned(peer[s], peer[s])
      BY <2>1, PeerIsClient DEF Earned
    <2>3. QueuesGrowByAnswers
      BY <1>11, <1>12, <2>2 DEF Answers
    <2>4. QED
      BY <1>6, <2>1, <2>3
  <1>13. ASSUME NEW s \in Server, ServerSendTo(s)
         PROVE  Goal
    <2> DEFINE to == IF IsUnix THEN name["client"] ELSE peer[s]
    <2>1. answer' = answer /\ taken' = taken /\ Deliver(to, peer[s])
      BY <1>13 DEF ServerSendTo, past
    <2>2. peer[s] \in taken /\ peer[s] \in Client
      BY <1>1, <1>13, PeerIsClient DEF ServerSendTo, Call, TypeOK
    <2>3. to \in Client \union {None} /\ (family # "unix_dgram" => to = peer[s])
      <3>1. ~IsStream
        BY <1>1, <1>13, ServerCalls DEF ServerSendTo, Call
      <3>2. QED
        BY <1>3, <2>2, <3>1 DEF IsStream, IsUnix
    <2> HIDE DEF to
    <2>4. CASE queue' = queue
      BY <1>5, <2>1, <2>4
    <2>5. CASE Open(to) /\ queue' = [queue EXCEPT ![to] = Append(@, peer[s])]
      <3>1. to \in Client /\ Earned(to, peer[s])
        BY <2>2, <2>3, <2>5 DEF Open, Earned
      <3>2. QueuesGrowByAnswers
        BY <1>11, <2>2, <2>5, <3>1
      <3>3. QED
        BY <1>6, <2>1, <3>2
    <2>6. QED
      BY <2>1, <2>4, <2>5 DEF Deliver
  <1>14. ASSUME NEW c \in Client, Connect(c) \/ ClientSendTo(c)
         PROVE  Goal
    <2>1. answer' = answer /\ taken' = taken
      BY <1>14 DEF Connect, ClientSendTo, past
    <2>2. queue' \in {queue, [queue EXCEPT ![name["server"]] = Append(@, c)]}
      BY <1>14 DEF Connect, ClientSendTo, Deliver
    <2>3. OldQueues
      BY <1>1, <1>2, <1>3, <2>2
    <2>4. QED
      BY <1>5, <2>1, <2>3
  <1>15. ASSUME NEW c \in Client, ClientSends(c)
         PROVE  Goal
    <2>1. queue' = queue /\ answer' = answer /\ taken' = taken
      BY <1>15 DEF ClientSends, past
    <2>2. QED
      BY <1>5, <2>1
  <1>16. ASSUME NEW c \in Client, ClientRead(c) \/ ClientReceive(c)
         PROVE  Goal
    <2>1. taken' = taken
      BY <1>16 DEF ClientRead, ClientReceive
    <2>2. /\ answer' \in {[answer EXCEPT ![c] = None], [answer EXCEPT ![c] = Head(queue[c])]}
          /\ answer' = [answer EXCEPT ![c] = Head(queue[c])]
               => queue[c] # << >> \/ answer'[c] = None
      BY <1>2, <1>16 DEF ClientRead, ClientReceive
    <2>3. queue[c] # << >> => Head(queue[c]) \in ToSet(queue[c])
      BY <1>1, <1>2, TailMembers DEF ToSet
    <2>4. AnswersComeFromQueues
      BY <1>2, <2>2, <2>3 DEF AnswersComeFromQueues
    <2>5. \A d \in Client : ToSet(queue'[d]) \subseteq ToSet(queue[d])
      <3>1. CASE queue' = [queue EXCEPT ![c] = << >>]
        BY <1>1, <1>2, <1>4, <3>1
      <3>2. CASE queue[c] # << >> /\ queue' = [queue EXCEPT ![c] = Tail(@)]
        <4>1. ToSet(Tail(queue[c])) \subseteq ToSet(queue[c])
          BY <1>1, <1>2, <3>2, TailMembers DEF ToSet
        <4>2. QED
          BY <1>1, <1>2, <3>2, <4>1
      <3>3. QED
        BY <1>16, <3>1, <3>2 DEF ClientRead, ClientReceive
    <2>6. QED
      BY <2>1, <2>4, <2>5 DEF Goal, QueuesGrowByAnswers
  <1>17. ASSUME LingeringEnds \/ UNCHANGED vars
         PROVE  Goal
    <2>1. queue' = queue /\ answer' = answer /\ taken' = taken
      BY <1>17 DEF LingeringEnds, vars, links, past
    <2>2. QED
      BY <1>5, <2>1
  <1>18. ASSUME Next
         PROVE  Goal
    BY <1>7, <1>8, <1>9, <1>10, <1>12, <1>13, <1>14, <1>15, <1>16, <1>17, <1>18, StepCases
  <1>19. QED
    BY <1>17, <1>18 DEF Goal

LEMMA AnswersPreserved ==
  ASSUME IInv, [Next]_vars
  PROVE  AnswerInv'
  <1>1. /\ TypeOK /\ AnswerInv /\ family' = family /\ TypeOK' /\ None \notin Client
        /\ IsStream' = IsStream
    BY TypePreserved, SocketsAssumption DEF IInv, IsStream
  <1>2. QueuesGrowByAnswers /\ AnswersComeFromQueues /\ taken \subseteq taken'
    BY AnswerSteps
  <1>3. QueuedAnswersEarned'
    BY <1>1, <1>2 DEF AnswerInv, QueuedAnswersEarned, QueuesGrowByAnswers, Earned
  <1>4. ReadAnswersEarned'
    BY <1>1, <1>2 DEF AnswerInv, ReadAnswersEarned, QueuedAnswersEarned, AnswersComeFromQueues,
                      TypeOK
  <1>5. ASSUME ~IsStream, NEW s \in Server, Holding(s)'
        PROVE  peer'[s] \in taken'
    <2>1. CASE ServerReceive(s)
      BY <1>1, <2>1 DEF ServerReceive, TypeOK
    <2>2. CASE Holding(s) /\ peer'[s] = peer[s]
      BY <1>1, <1>2, <1>5, <2>2 DEF AnswerInv, HeldIsTaken
    <2>3. QED
      BY <1>5, <2>1, <2>2, HoldingSteps
  <1>6. QED
    BY <1>1, <1>3, <1>4, <1>5 DEF AnswerInv, HeldIsTaken

-----------------------------------------------------------------------------
(***************************************************************************)
(* Unix datagrams.  Each step moves what it moves from one spot to another *)
(* one that nothing else moves to: m tells for each spot where the         *)
(* datagram in it was before.  A client whose datagram is new had none.    *)
(***************************************************************************)
LEMMA LeftFalls ==
  ASSUME IInv, [Next]_vars
  PROVE  \A p \in Process : Left(p) \in Nat /\ Left(p)' \in Nat /\ Left(p)' <= Left(p)
  <1>1. TypeOK /\ AtItsPlace /\ Server \subseteq Process /\ Client \subseteq Process
    BY DEF IInv, Process
  <1>2. \A p \in Process : Left(p) \in Nat /\ Left(p)' \in Nat
    <2>1. TypeOK'
      BY TypePreserved
    <2>2. QED
      BY <1>1, <2>1, LenProperties DEF TypeOK, Left
  <1> DEFINE Goal == \A p \in Process : Left(p)' <= Left(p)
  <1>3. ASSUME NEW p \in Process, NEW call, Call(p, call)
        PROVE  Goal
    BY <1>1, <1>2, <1>3, CallMoves DEF Keeping
  <1>4. ASSUME NEW p \in Process, Ends(p)
        PROVE  Goal
    <2>1. PICK f \in {"done", "failed", "killed"} : End(p, f)
      BY <1>4 DEF Ends
    <2>2. Left(p)' = 0 /\ \A q \in Process \ {p} : Left(q)' = Left(q)
      BY <1>1, <2>1, EndMoves DEF Keeping
    <2>3. QED
      BY <1>2, <2>2
  <1>5. ASSUME UNCHANGED todo
        PROVE  Goal
    BY <1>2, <1>5 DEF Left
  <1> HIDE DEF Goal
  <1>6. CASE Next
    <2>1. \/ \E p \in Process : \E call : Call(p, call)
          \/ \E p \in Process : Ends(p)
          \/ UNCHANGED todo
      BY <1>1, <1>6, StepCases
         DEF LingeringEnds, Start, Unlink, Bind, Close, Listen, Accept, ServerRead, Answers,
             AnswersNobody, CloseConnection, ServerReceive, ServerSendTo, Connect, ClientSends,
             ClientRead, ClientSendTo, ClientReceive
    <2>2. Goal
      BY <1>3, <1>4, <1>5, <2>1
    <2>3. QED
      BY <1>2, <2>2 DEF Goal
  <1>7. CASE UNCHANGED vars
    BY <1>2, <1>5, <1>7 DEF Goal, vars
  <1>8. QED
    BY <1>6, <1>7

LEMMA DatagramsMove ==
  ASSUME IInv, family = "unix_dgram", [Next]_vars,
         NEW m \in [Spot -> Spot], NEW new, NEW z,
         \A y \in Spot, c \in Client : In(y, c)' => In(m[y], c) \/ (c = new /\ y = z),
         \A x, y \in Spot, c \in Client : In(x, c)' /\ In(y, c)' /\ m[x] = m[y] => x = y,
         \A c \in Client : c = new => Left(c) = SendToLeft /\ Left(c)' < Left(c)
  PROVE  DatagramInv'
  <1>1. DatagramInv /\ family' = family /\ SendToLeft' = SendToLeft /\ SendToLeft = 4
    BY TypePreserved DEF IInv, SendToLeft
  <1>2. \A c \in Client : Left(c) \in Nat /\ Left(c)' \in Nat /\ Left(c)' <= Left(c)
    BY LeftFalls DEF Process
  <1>3. ASSUME NEW c \in Client, NEW y \in Spot, In(y, c)'
        PROVE  Left(c)' < SendToLeft
    <2>1. CASE c = new
      BY <1>1, <1>2, <2>1
    <2>2. CASE c # new
      <3>1. m[y] \in Spot /\ In(m[y], c)
        BY <1>3, <2>2
      <3>2. Left(c) < SendToLeft
        BY <1>1, <3>1 DEF DatagramInv
      <3>3. QED
        BY <1>1, <1>2, <3>2
    <2>3. QED
      BY <2>1, <2>2
  <1>4. ASSUME NEW c \in Client, NEW x \in Spot, NEW y \in Spot, In(x, c)', In(y, c)'
        PROVE  x = y
    <2>1. CASE c = new
      <3>1. \A w \in Spot : ~In(w, c)
        BY <1>1, <1>2, <2>1 DEF DatagramInv
      <3>2. x = z /\ y = z
        BY <1>4, <3>1
      <3>3. QED
        BY <3>2
    <2>2. CASE c # new
      <3>1. m[x] \in Spot /\ m[y] \in Spot /\ In(m[x], c) /\ In(m[y], c)
        BY <1>4, <2>2
      <3>2. m[x] = m[y]
        BY <1>1, <3>1 DEF DatagramInv
      <3>3. QED
        BY <1>4, <3>2
    <2>3. QED
      BY <2>1, <2>2
  <1>5. QED
    BY <1>1, <1>3, <1>4 DEF DatagramInv

(* A step that moves no datagram may lose some. *)
LEMMA DatagramsStay ==
  ASSUME IInv, family = "unix_dgram", [Next]_vars,
         \A y \in Spot, c \in Client : In(y, c)' => In(y, c)
  PROVE  DatagramInv'
  <1> DEFINE m == [y \in Spot |-> y]
  <1>1. m \in [Spot -> Spot] /\ \A y \in Spot : m[y] = y
    OBVIOUS
  <1> HIDE DEF m
  <1>2. None \notin Client
    BY SocketsAssumption
  <1>3. \A y \in Spot, c \in Client : In(y, c)' => In(m[y], c) \/ (c = None /\ y = None)
    BY <1>1
  <1>4. \A x, y \in Spot, c \in Client : In(x, c)' /\ In(y, c)' /\ m[x] = m[y] => x = y
    BY <1>1
  <1>5. \A c \in Client : c = None => Left(c) = SendToLeft /\ Left(c)' < Left(c)
    BY <1>2
  <1>6. QED
    BY <1>1, <1>3, <1>4, <1>5, DatagramsMove

LEMMA DatagramsQuiet ==
  ASSUME IInv, family = "unix_dgram", [Next]_vars,
         \A p \in Process : queue'[p] = queue[p] \/ queue'[p] = << >>,
         answer' = answer, \A s \in Server : ~ServerReceive(s)
  PROVE  DatagramInv'
  <1>1. \A s \in Server : Holding(s)' => Holding(s) /\ peer'[s] = peer[s]
    BY HoldingSteps DEF IsStream
  <1>2. ASSUME NEW y \in Spot, NEW c \in Client, In(y, c)'
        PROVE  In(y, c)
    <2>1. CASE y.kind = "queue" /\ y.at \in DOMAIN queue'[y.of] /\ queue'[y.of][y.at] = c
      <3>1. y.of \in Process /\ queue'[y.of] # << >>
        BY <2>1, EmptySeq DEF Spot
      <3>2. QED
        BY <2>1, <3>1 DEF In
    <2>2. CASE y.kind = "hand" /\ y.at = 0 /\ y.of \in Server /\ Holding(y.of)' /\ peer'[y.of] = c
      BY <1>1, <2>2 DEF In
    <2>3. CASE y.kind = "answer" /\ y.at = 0 /\ y.of \in Client /\ answer'[y.of] = c
      BY <2>3 DEF In
    <2>4. QED
      BY <1>2, <2>1, <2>2, <2>3 DEF In
  <1>3. QED
    BY <1>2, DatagramsStay

(* The head of a process's queue goes to its hands or becomes its answer.  *)
LEMMA HeadTaken ==
  ASSUME IInv, family = "unix_dgram", [Next]_vars, NEW p \in Process,
         NEW k \in {"hand", "answer"},
         queue[p] # << >>, queue' = [queue EXCEPT ![p] = Tail(@)],
         \A y \in Spot, c \in Client :
           y.kind = k /\ y.of = p /\ In(y, c)' => y.at = 0 /\ c = Head(queue[p]),
         \A y \in Spot, c \in Client :
           /\ y.kind \in {"hand", "answer"} /\ ~(y.kind = k /\ y.of = p) /\ In(y, c)'
           => In(y, c)
  PROVE  DatagramInv'
  <1> DEFINE m == [y \in Spot |->
                    IF y.kind = k /\ y.of = p
                      THEN [kind |-> "queue", of |-> p, at |-> 1]
                      ELSE IF y.kind = "queue" /\ y.of = p
                             THEN [kind |-> "queue", of |-> p, at |-> y.at + 1]
                             ELSE y]
  <1>1. None \notin Client
    BY SocketsAssumption
  <1>2. queue \in [Process -> Seq(Client)]
    BY DEF IInv, TypeOK
  <1>3. /\ Head(queue[p]) = queue[p][1] /\ 1 \in DOMAIN queue[p]
        /\ \A i \in DOMAIN Tail(queue[p]) :
             i + 1 \in DOMAIN queue[p] /\ Tail(queue[p])[i] = queue[p][i + 1] /\ i \in Nat \ {0}
    <2>1. queue[p] \in Seq(Client)
      BY <1>2
    <2>2. Tail(queue[p]) \in Seq(Client)
      BY <2>1, HeadTailProperties
    <2>3. \A i \in DOMAIN Tail(queue[p]) : i \in Nat \ {0}
      BY <2>2, LenProperties
    <2>4. QED
      BY <2>1, <2>3, TailMembers
  <1>4. m \in [Spot -> Spot]
    BY DEF Spot
  <1>5. /\ \A y \in Spot : y.kind = k /\ y.of = p =>
             m[y] = [kind |-> "queue", of |-> p, at |-> 1]
        /\ \A y \in Spot : y.kind = "queue" /\ y.of = p =>
             m[y] = [kind |-> "queue", of |-> p, at |-> y.at + 1]
        /\ \A y \in Spot : y.kind \notin {"queue", k} \/ y.of # p => m[y] = y
    OBVIOUS
  <1> HIDE DEF m
  <1>6. ASSUME NEW y \in Spot, NEW c \in Client, In(y, c)'
        PROVE  In(m[y], c) /\ (y.kind = k /\ y.of = p => y.at = 0)
                           /\ (y.kind = "queue" /\ y.of = p => y.at \in Nat \ {0})
    <2>1. CASE y.kind = "queue"
      <3>1. y.of \in Process /\ y.at \in DOMAIN queue'[y.of] /\ queue'[y.of][y.at] = c
        BY <1>6, <2>1 DEF Spot, In
      <3>2. CASE y.of = p
        <4>1. y.at \in DOMAIN Tail(queue[p]) /\ Tail(queue[p])[y.at] = c
          BY <1>2, <3>1, <3>2
        <4>2. m[y] = [kind |-> "queue", of |-> p, at |-> y.at + 1]
          BY <1>5, <2>1, <3>2
        <4>3. QED
          BY <1>3, <2>1, <4>1, <4>2 DEF In
      <3>3. CASE y.of # p
        BY <1>2, <1>5, <2>1, <3>1, <3>3 DEF In
      <3>4. QED
        BY <3>2, <3>3
    <2>2. CASE y.kind = k /\ y.of = p
      <3>1. y.at = 0 /\ queue[p][1] = c
        BY <1>3, <1>6, <2>2
      <3>2. m[y] = [kind |-> "queue", of |-> p, at |-> 1]
        BY <1>5, <2>2
      <3>3. QED
        BY <1>3, <2>2, <3>1, <3>2 DEF In
    <2>3. CASE y.kind # "queue" /\ ~(y.kind = k /\ y.of = p)
      <3>1. y.kind \in {"hand", "answer"}
        BY <2>3 DEF Spot
      <3>2. In(y, c) /\ m[y] = y
        BY <1>5, <1>6, <2>3, <3>1
      <3>3. QED
        BY <2>3, <3>2
    <2>4. QED
      BY <2>1, <2>2, <2>3
  <1>7. ASSUME NEW x \in Spot, NEW y \in Spot, NEW c \in Client, In(x, c)', In(y, c)',
               m[x] = m[y]
        PROVE  x = y
    <2>1. /\ x.kind = k /\ x.of = p => x.at = 0
          /\ x.kind = "queue" /\ x.of = p => x.at \in Nat \ {0}
          /\ y.kind = k /\ y.of = p => y.at = 0
          /\ y.kind = "queue" /\ y.of = p => y.at \in Nat \ {0}
      BY <1>6, <1>7
    <2> DEFINE head(w) == w.kind = k /\ w.of = p
               queued(w) == w.kind = "queue" /\ w.of = p
    <2>2. ASSUME NEW w \in Spot
          PROVE  /\ head(w) => m[w].kind = "queue" /\ m[w].of = p /\ m[w].at = 1
                 /\ queued(w) => m[w].kind = "queue" /\ m[w].of = p /\ m[w].at = w.at + 1
                 /\ ~head(w) /\ ~queued(w) => m[w] = w
      <3>1. CASE head(w)
        BY <1>5, <3>1
      <3>2. CASE queued(w)
        <4>1. m[w] = [kind |-> "queue", of |-> p, at |-> w.at + 1]
          BY <1>5, <3>2
        <4>2. ~head(w)
          BY <3>2
        <4>3. QED
          BY <3>2, <4>1, <4>2
      <3>3. CASE ~head(w) /\ ~queued(w)
        BY <1>5, <3>3
      <3>4. QED
        BY <3>1, <3>2, <3>3
    <2>3. m[x] = m[y]
      BY <1>7
    <2>4. CASE head(x) /\ head(y)
      BY <2>1, <2>4 DEF Spot
    <2>5. CASE queued(x) /\ queued(y)
      <3>1. x.at + 1 = y.at + 1
        BY <2>2, <2>3, <2>5
      <3>2. QED
        BY <2>1, <2>5, <3>1 DEF Spot
    <2>6. CASE (head(x) /\ queued(y)) \/ (queued(x) /\ head(y))
      <3>1. (head(x) => y.at + 1 = 1) /\ (head(y) => x.at + 1 = 1)
        BY <2>2, <2>3, <2>6
      <3>2. QED
        BY <2>1, <2>6, <3>1
    <2>7. CASE (head(x) \/ queued(x)) /\ ~head(y) /\ ~queued(y)
      <3>1. y.kind = "queue" /\ y.of = p
        BY <2>2, <2>3, <2>7
      <3>2. QED
        BY <2>7, <3>1
    <2>8. CASE (head(y) \/ queued(y)) /\ ~head(x) /\ ~queued(x)
      <3>1. x.kind = "queue" /\ x.of = p
        BY <2>2, <2>3, <2>8
      <3>2. QED
        BY <2>8, <3>1
    <2>9. CASE ~head(x) /\ ~queued(x) /\ ~head(y) /\ ~queued(y)
      BY <2>2, <2>3, <2>9
    <2> HIDE DEF head, queued
    <2>10. QED
      BY <2>4, <2>5, <2>6, <2>7, <2>8, <2>9
  <1>8. /\ \A y \in Spot, c \in Client : In(y, c)' => In(m[y], c) \/ (c = None /\ y = None)
        /\ \A x, y \in Spot, c \in Client : In(x, c)' /\ In(y, c)' /\ m[x] = m[y] => x = y
        /\ \A c \in Client : c = None => Left(c) = SendToLeft /\ Left(c)' < Left(c)
    BY <1>1, <1>6, <1>7
  <1>9. QED
    BY <1>4, <1>8, DatagramsMove

LEMMA DatagramReceived ==
  ASSUME IInv, family = "unix_dgram", [Next]_vars, NEW s \in Server, ServerReceive(s)
  PROVE  DatagramInv'
  <1>1. /\ TypeOK /\ AtItsPlace /\ s \in Process /\ Server \subseteq Process
    BY DEF IInv, Process
  <1>2. /\ queue[s] # << >> /\ peer' = [peer EXCEPT ![s] = Head(queue[s])]
        /\ queue' = [queue EXCEPT ![s] = Tail(@)] /\ answer' = answer
        /\ peer \in [Server -> Client \union {None}]
    BY <1>1 DEF ServerReceive, TypeOK
  <1>3. \A t \in Server \ {s} : Holding(t)' => Holding(t) /\ peer'[t] = peer[t]
    BY <1>1, <1>2, CallMoves DEF ServerReceive, Keeping, Holding, Running
  <1>4. \A y \in Spot, c \in Client :
          y.kind = "hand" /\ y.of = s /\ In(y, c)' => y.at = 0 /\ c = Head(queue[s])
    BY <1>2 DEF In
  <1>5. ASSUME NEW y \in Spot, NEW c \in Client, y.kind \in {"hand", "answer"},
               ~(y.kind = "hand" /\ y.of = s), In(y, c)'
        PROVE  In(y, c)
    BY <1>2, <1>3, <1>5 DEF In
  <1>6. QED
    BY <1>1, <1>2, <1>4, <1>5, HeadTaken

LEMMA AnswerReceived ==
  ASSUME IInv, family = "unix_dgram", [Next]_vars, NEW d \in Client, ClientReceive(d)
  PROVE  DatagramInv'
  <1>1. /\ TypeOK /\ AtItsPlace /\ d \in Process /\ Server \subseteq Process /\ d \notin Server
    BY SocketsAssumption DEF IInv, Process
  <1>2. /\ queue[d] # << >> /\ answer' = [answer EXCEPT ![d] = Head(queue[d])]
        /\ queue' = [queue EXCEPT ![d] = Tail(@)] /\ peer' = peer
        /\ answer \in [Client -> Client \union {None}]
    BY <1>1 DEF ClientReceive, TypeOK
  <1>3. \A t \in Server : Holding(t)' => Holding(t) /\ peer'[t] = peer[t]
    BY <1>1, <1>2, CallMoves DEF ClientReceive, Keeping, Holding, Running
  <1>4. \A y \in Spot, c \in Client :
          y.kind = "answer" /\ y.of = d /\ In(y, c)' => y.at = 0 /\ c = Head(queue[d])
    BY <1>2 DEF In
  <1>5. ASSUME NEW y \in Spot, NEW c \in Client, y.kind \in {"hand", "answer"},
               ~(y.kind = "answer" /\ y.of = d), In(y, c)'
        PROVE  In(y, c)
    BY <1>2, <1>3, <1>5 DEF In
  <1>6. QED
    BY <1>1, <1>2, <1>4, <1>5, HeadTaken

LastSpot(p) == [kind |-> "queue", of |-> p, at |-> Len(queue[p]) + 1]

LEMMA OnlyLastIsNew ==
  ASSUME TypeOK, NEW p \in Process, NEW b \in Client,
         queue' = [queue EXCEPT ![p] = Append(@, b)]
  PROVE  /\ LastSpot(p) \in Spot
         /\ \A y \in Spot, c \in Client :
              y.kind = "queue" /\ In(y, c)' => In(y, c) \/ (y = LastSpot(p) /\ c = b)
  <1>1. queue \in [Process -> Seq(Client)] /\ queue[p] \in Seq(Client)
    BY DEF TypeOK
  <1>2. Len(queue[p]) + 1 \in Nat
    BY <1>1, LenProperties
  <1>3. LastSpot(p) \in Spot
    BY <1>2 DEF LastSpot, Spot
  <1>4. ASSUME NEW y \in Spot, NEW c \in Client, y.kind = "queue", In(y, c)'
        PROVE  In(y, c) \/ (y = LastSpot(p) /\ c = b)
    <2>1. y.of \in Process /\ y.at \in DOMAIN queue'[y.of] /\ queue'[y.of][y.at] = c
      BY <1>4 DEF Spot, In
    <2>2. CASE y.of # p
      BY <1>1, <1>4, <2>1, <2>2 DEF In
    <2>3. CASE y.of = p
      <3>1. y.at \in DOMAIN Append(queue[p], b) /\ Append(queue[p], b)[y.at] = c
        BY <1>1, <2>1, <2>3
      <3>2. \/ y.at \in DOMAIN queue[p] /\ queue[p][y.at] = c
            \/ y.at = Len(queue[p]) + 1 /\ c = b
        BY <1>1, <3>1, AppendMembers
      <3>3. CASE y.at \in DOMAIN queue[p] /\ queue[p][y.at] = c
        BY <1>4, <2>3, <3>3 DEF In
      <3>4. CASE y.at = Len(queue[p]) + 1 /\ c = b
        <4>1. y = LastSpot(p)
          BY <1>4, <2>3, <3>4 DEF Spot, LastSpot
        <4>2. QED
          BY <3>4, <4>1
      <3>5. QED
        BY <3>2, <3>3, <3>4
    <2>4. QED
      BY <2>2, <2>3
  <1>5. QED
    BY <1>3, <1>4

LEMMA DatagramSent ==
  ASSUME IInv, family = "unix_dgram", [Next]_vars, NEW b \in Client, ClientSendTo(b)
  PROVE  DatagramInv'
  <1>1. /\ TypeOK /\ AtItsPlace /\ b \in Process /\ Server \subseteq Process /\ b \notin Server
    BY SocketsAssumption DEF IInv, Process
  <1>2. answer' = answer /\ peer' = peer /\ Call(b, "sendto") /\ Deliver(name["server"], b)
    BY DEF ClientSendTo, past
  <1>3. \A s \in Server : ~ServerReceive(s)
    <2>1. Left(b)' < Left(b)
      BY <1>1, <1>2, CallMoves, LeftIsNat
    <2>2. \A s \in Server : ServerReceive(s) => Left(b)' = Left(b)
      BY <1>1, CallMoves DEF ServerReceive, Keeping
    <2>3. QED
      BY <1>1, <2>1, <2>2, LeftIsNat
  <1>4. CASE queue' = queue
    BY <1>2, <1>3, <1>4, DatagramsQuiet
  <1>5. CASE Open(name["server"])
             /\ queue' = [queue EXCEPT ![name["server"]] = Append(@, b)]
    <2>1. name["server"] \in Process
      BY <1>1, <1>5 DEF IInv, NameInv, NamesAreOwn, Open
    <2> DEFINE m == [y \in Spot |-> y]
    <2>2. m \in [Spot -> Spot] /\ \A y \in Spot : m[y] = y
      OBVIOUS
    <2> HIDE DEF m
    <2>3. \A s \in Server : Holding(s)' => Holding(s) /\ peer'[s] = peer[s]
      BY <1>3, HoldingSteps DEF IsStream
    <2>4. ASSUME NEW y \in Spot, NEW c \in Client, In(y, c)'
          PROVE  In(y, c) \/ (c = b /\ y = LastSpot(name["server"]))
      <3>1. CASE y.kind = "queue"
        BY <1>1, <1>5, <2>1, <2>4, <3>1, OnlyLastIsNew
      <3>2. CASE y.kind # "queue"
        BY <1>2, <2>3, <2>4, <3>2 DEF In
      <3>3. QED
        BY <3>1, <3>2
    <2>5. \A c \in Client : c = b => Left(c) = SendToLeft /\ Left(c)' < Left(c)
      BY <1>1, <1>2, ClientCalls, CallMoves, LeftIsNat DEF Call
    <2> DEFINE z == LastSpot(name["server"])
    <2>6. \A y \in Spot, c \in Client : In(y, c)' => In(m[y], c) \/ (c = b /\ y = z)
      BY <2>2, <2>4
    <2>7. \A x, y \in Spot, c \in Client : In(x, c)' /\ In(y, c)' /\ m[x] = m[y] => x = y
      BY <2>2
    <2> HIDE DEF z
    <2>8. QED
      BY <2>2, <2>5, <2>6, <2>7, DatagramsMove
  <1>6. QED
    BY <1>2, <1>4, <1>5 DEF Deliver

LEMMA AnswerSent ==
  ASSUME IInv, family = "unix_dgram", [Next]_vars, NEW s \in Server, ServerSendTo(s)
  PROVE  DatagramInv'
  <1>1. /\ TypeOK /\ AtItsPlace /\ s \in Process /\ Server \subseteq Process /\ None \notin Client
    BY SocketsAssumption DEF IInv, Process
  <1>2. /\ answer' = answer /\ peer' = peer /\ Call(s, "sendto")
        /\ Deliver(name["client"], peer[s])
    BY DEF ServerSendTo, IsUnix, past
  <1>3. Holding(s) /\ peer[s] \in Client
    BY <1>1, <1>2, PeerIsClient DEF Call, TypeOK
  <1>4. \A t \in Server : Holding(t)' => Holding(t) /\ t # s
    BY <1>1, <1>2, <1>3, CallMoves, LeftIsNat DEF Keeping, Holding, Running
  <1>5. \A y \in Spot, c \in Client :
          y.kind # "queue" /\ In(y, c)' => In(y, c) /\ ~(y.kind = "hand" /\ y.of = s)
    BY <1>2, <1>4 DEF In
  <1>6. CASE queue' = queue
    <2>1. \A y \in Spot, c \in Client : In(y, c)' => In(y, c)
      BY <1>5, <1>6 DEF In
    <2>2. QED
      BY <2>1, DatagramsStay
  <1>7. CASE Open(name["client"])
             /\ queue' = [queue EXCEPT ![name["client"]] = Append(@, peer[s])]
    <2>1. name["client"] \in Process
      BY <1>1, <1>7 DEF IInv, NameInv, NamesAreOwn, Open, Process
    <2> DEFINE z == LastSpot(name["client"])
               hand == [kind |-> "hand", of |-> s, at |-> 0]
               m == [y \in Spot |-> IF y = z THEN hand ELSE y]
    <2>2. hand \in Spot /\ In(hand, peer[s])
      BY <1>1, <1>3 DEF Spot, In
    <2>3. \A y \in Spot, c \in Client :
            In(y, c)' => (y # z /\ In(y, c) /\ y # hand) \/ (y = z /\ c = peer[s])
      <3>1. ASSUME NEW y \in Spot, NEW c \in Client, In(y, c)'
            PROVE  (y # z /\ In(y, c) /\ y # hand) \/ (y = z /\ c = peer[s])
        <4>1. CASE y.kind = "queue"
          <5>1. In(y, c) \/ (y = z /\ c = peer[s])
            BY <1>1, <1>3, <1>7, <2>1, <3>1, <4>1, OnlyLastIsNew
          <5>2. In(y, c) => y # z
            <6>1. Len(queue[name["client"]]) + 1 \notin DOMAIN queue[name["client"]]
              BY <1>1, <1>3, <2>1, AppendMembers DEF TypeOK
            <6>2. QED
              BY <4>1, <6>1 DEF In, LastSpot
          <5>3. y # hand
            BY <4>1
          <5>4. QED
            BY <5>1, <5>2, <5>3
        <4>2. CASE y.kind # "queue"
          <5>1. y # z
            BY <4>2 DEF LastSpot
          <5>2. In(y, c) /\ ~(y.kind = "hand" /\ y.of = s)
            BY <1>5, <3>1, <4>2
          <5>3. QED
            BY <5>1, <5>2
        <4>3. QED
          BY <4>1, <4>2
      <3>2. QED
        BY <3>1
    <2>4. z \in Spot
      BY <1>1, <1>3, <1>7, <2>1, OnlyLastIsNew
    <2> HIDE DEF z, hand
    <2>5. m \in [Spot -> Spot] /\ \A y \in Spot : m[y] = IF y = z THEN hand ELSE y
      BY <2>2
    <2> HIDE DEF m
    <2>6. \A y \in Spot, c \in Client : In(y, c)' => In(m[y], c) \/ (c = None /\ y = None)
      BY <2>2, <2>3, <2>5
    <2>7. \A x, y \in Spot, c \in Client : In(x, c)' /\ In(y, c)' /\ m[x] = m[y] => x = y
      BY <2>3, <2>5
    <2>8. \A c \in Client : c = None => Left(c) = SendToLeft /\ Left(c)' < Left(c)
      BY <1>1
    <2>9. QED
      BY <2>5, <2>6, <2>7, <2>8, DatagramsMove
  <1>8. QED
    BY <1>2, <1>6, <1>7 DEF Deliver

LEMMA DatagramsPreserved ==
  ASSUME IInv, family = "unix_dgram", [Next]_vars
  PROVE  DatagramInv'
  <1>1. /\ TypeOK /\ AtItsPlace /\ Server \subseteq Process /\ Client \subseteq Process
    BY DEF IInv, Process
  <1>2. queue \in [Process -> Seq(Client)]
    BY <1>1 DEF TypeOK
  <1>3. CASE \E s \in Server : ServerReceive(s)
    BY <1>3, DatagramReceived
  <1>4. ASSUME \A p \in Process : queue'[p] = queue[p] \/ queue'[p] = << >>,
               answer' = answer, ~\E s \in Server : ServerReceive(s)
        PROVE  DatagramInv'
    BY <1>4, DatagramsQuiet
  <1>5. ASSUME NEW p \in Process, Start(p) \/ Unlink(p) \/ Bind(p) \/ Close(p) \/ Ends(p)
        PROVE  answer' = answer /\ \A q \in Process : queue'[q] = queue[q] \/ queue'[q] = << >>
    BY <1>2, <1>5 DEF Start, Unlink, Bind, Close, Ends, End, Release, links, past
  <1>6. ASSUME LingeringEnds \/ UNCHANGED vars
        PROVE  answer' = answer /\ queue' = queue
    BY <1>6 DEF LingeringEnds, vars, links, past
  <1>7. /\ \A s \in Server : /\ ~Listen(s) /\ ~Accept(s) /\ ~ServerRead(s) /\ ~Answers(s)
                             /\ ~AnswersNobody(s) /\ ~CloseConnection(s)
        /\ \A c \in Client : ~Connect(c) /\ ~ClientSends(c) /\ ~ClientRead(c)
    BY <1>1, ServerCalls, ClientCalls
       DEF Listen, Accept, ServerRead, Answers, AnswersNobody, CloseConnection, Connect,
           ClientSends, ClientRead, Call, IsStream
  <1>8. CASE Next
    <2>1. \/ LingeringEnds
          \/ \E p \in Process : Start(p) \/ Unlink(p) \/ Bind(p) \/ Close(p) \/ Ends(p)
          \/ \E s \in Server : ServerReceive(s) \/ ServerSendTo(s)
          \/ \E c \in Client : ClientSendTo(c) \/ ClientReceive(c)
      BY <1>7, <1>8, StepCases
    <2>2. QED
      BY <1>3, <1>4, <1>5, <1>6, <2>1, AnswerSent, DatagramSent, AnswerReceived
  <1>9. CASE UNCHANGED vars
    BY <1>3, <1>4, <1>6, <1>9
  <1>10. QED
    BY <1>8, <1>9

-----------------------------------------------------------------------------
LEMMA InitEstablishes == Init => IInv
  <1> SUFFICES ASSUME Init
               PROVE  IInv
    OBVIOUS
  <1>1. family \in Family /\ family \in {"tcp", "udp", "unix_stream", "unix_dgram"}
    BY SocketsAssumption DEF Init
  <1>2. /\ \A p \in Process : todo[p] = Program(p)
        /\ fate = [p \in Process |-> "new"] /\ sock = [p \in Process |-> "none"]
        /\ name = [a \in Address |-> None] /\ queue = [p \in Process |-> << >>]
        /\ peer = [s \in Server |-> None] /\ answer = [c \in Client |-> None]
    BY DEF Init, Program
  <1>3. /\ Server \subseteq Process /\ Client \subseteq Process /\ None \notin Process
    BY SocketsAssumption DEF Process
  <1>4. \A p \in Process : Program(p) \in Seq(SystemCall)
    <2>1. TcpServer \in Seq(SystemCall) /\ UdpServer \in Seq(SystemCall)
      BY DEF SystemCall, TcpServer, UdpServer
    <2>2. UnixStreamServer \in Seq(SystemCall) /\ UnixDgramServer \in Seq(SystemCall)
      BY DEF SystemCall, UnixStreamServer, UnixDgramServer
    <2>3. TcpClient \in Seq(SystemCall) /\ UdpClient \in Seq(SystemCall)
      BY DEF SystemCall, TcpClient, UdpClient
    <2>4. UnixStreamClient \in Seq(SystemCall) /\ UnixDgramClient \in Seq(SystemCall)
      BY DEF SystemCall, UnixStreamClient, UnixDgramClient
    <2>5. QED
      BY <1>1, <2>1, <2>2, <2>3, <2>4 DEF Program, ServerProgram, ClientProgram
  <1>5. TypeOK
    <2>1. todo \in [Process -> Seq(SystemCall)]
      BY <1>2, <1>4 DEF Init
    <2>2. queue \in [Process -> Seq(Client)]
      BY <1>2, EmptySeq
    <2>3. QED
      BY <1>1, <1>2, <2>1, <2>2 DEF Init, TypeOK, Fate
  <1>6. AtItsPlace
    <2>1. \A p \in Process : Left(p) = Len(Program(p)) /\ Len(Program(p)) \in Nat
      BY <1>2, <1>4, LenProperties DEF Left
    <2>2. ASSUME NEW p \in Process, NEW i \in 1..Left(p)
          PROVE  todo[p][i] = Program(p)[Len(Program(p)) - Left(p) + i]
      <3>1. Len(Program(p)) - Left(p) + i = i
        BY <2>1
      <3>2. QED
        BY <1>2, <3>1
    <2>3. \A p \in Process : Left(p) <= Len(Program(p))
      BY <2>1
    <2>4. QED
      BY <2>1, <2>2, <2>3 DEF AtItsPlace
  <1>7. \A p \in Process : fate[p] = "new" /\ ~Running(p) /\ sock[p] = "none" /\ queue[p] = << >>
    BY <1>2 DEF Running
  <1>8. NameInv
    <2>1. NamesAreOwn /\ BoundAreOpen /\ TwoHaveMet
      BY <1>2, <1>3, <1>7 DEF NamesAreOwn, BoundAreOpen, TwoHaveMet, Address
    <2>2. FilesInv /\ PortsInv
      BY <1>2, <1>3, <1>7 DEF FilesInv, PortsInv, Address
    <2>3. QED
      BY <2>1, <2>2 DEF NameInv
  <1>9. ToSet(<< >>) = {} /\ DOMAIN << >> = {}
    BY EmptySeq DEF ToSet
  <1>10. AnswerInv
    BY <1>2, <1>3, <1>7, <1>9
       DEF AnswerInv, QueuedAnswersEarned, ReadAnswersEarned, HeldIsTaken, Holding
  <1>11. StreamInv
    <2>1. QueuedHaveConnected
      BY <1>3, <1>7, <1>9 DEF QueuedHaveConnected
    <2>2. PeersHaveConnected
      BY <1>2, <1>3 DEF PeersHaveConnected
    <2>3. AcceptedIsServed /\ ReadBeforeSend
      BY <1>3, <1>7 DEF AcceptedIsServed, ReadBeforeSend
    <2>4. QED
      BY <2>1, <2>2, <2>3 DEF StreamInv
  <1>12. DatagramInv
    <2>1. \A x \in Spot, c \in Client : ~In(x, c)
      BY <1>2, <1>3, <1>7, <1>9 DEF In, Spot, Holding
    <2>2. QED
      BY <2>1 DEF DatagramInv
  <1>13. QED
    BY <1>5, <1>6, <1>8, <1>10, <1>11, <1>12 DEF IInv

(* The inductive invariant holds in every state of every run.              *)
THEOREM SocketsInvariance == Spec => []IInv
  <1>1. ASSUME IInv, [Next]_vars
        PROVE  IInv'
    <2>1. TypeOK' /\ AtItsPlace' /\ family' = family
      BY <1>1, TypePreserved
    <2>2. NameInv' /\ AnswerInv'
      BY <1>1, NamesPreserved, AnswersPreserved
    <2>3. (IsStream => StreamInv)'
      BY <1>1, <2>1, StreamPreserved DEF IsStream
    <2>4. (family = "unix_dgram" => DatagramInv)'
      BY <1>1, <2>1, DatagramsPreserved
    <2>5. QED
      BY <2>1, <2>2, <2>3, <2>4 DEF IInv
  <1>2. QED
    BY <1>1, InitEstablishes, PTL DEF Spec

(* Nobody reads an answer to a message no server has read, nobody but the  *)
(* Unix datagram clients reads one meant for somebody else, and even they  *)
(* never read the same one twice (the servers' read() and send(), or       *)
(* recvfrom() and sendto()).                                               *)
THEOREM AnswersAreEarned == Spec => []AnswersEarned
  <1>1. ASSUME IInv
        PROVE  AnswersEarned
    <2>1. /\ answer \in [Client -> Client \union {None}] /\ AnswerInv
          /\ Client \subseteq Process
      BY <1>1 DEF IInv, TypeOK, Process
    <2>2. ASSUME NEW c \in Client, answer[c] # None, NEW d \in Client \ {c}
          PROVE  answer[d] # answer[c]
      <3>1. CASE family # "unix_dgram"
        BY <2>1, <2>2, <3>1 DEF AnswerInv, ReadAnswersEarned
      <3>2. CASE family = "unix_dgram"
        <4> DEFINE x == [kind |-> "answer", of |-> c, at |-> 0]
                   y == [kind |-> "answer", of |-> d, at |-> 0]
        <4>1. x \in Spot /\ y \in Spot /\ x # y
          BY <2>1, <2>2 DEF Spot
        <4>2. In(x, answer[c]) /\ answer[c] \in Client
          BY <2>1, <2>2 DEF In
        <4>3. answer[d] = answer[c] => In(y, answer[c])
          BY <2>2 DEF In
        <4> HIDE DEF x, y
        <4>4. QED
          BY <1>1, <3>2, <4>1, <4>2, <4>3 DEF IInv, DatagramInv
      <3>3. QED
        BY <3>1, <3>2
    <2>3. QED
      BY <2>1, <2>2 DEF AnswersEarned, AnswerInv, ReadAnswersEarned
  <1>2. QED
    BY <1>1, SocketsInvariance, PTL

-----------------------------------------------------------------------------
(***************************************************************************)
(* A server that is about to bind a file name has just removed the file,   *)
(* and only another server can have put a new one there.                   *)
(***************************************************************************)
AboutToBind(s) == Running(s) /\ Left(s) = (IF family = "unix_stream" THEN 8 ELSE 5)

FreshFiles ==
  IsUnix => /\ ~lingering
            /\ \A s \in Server \ met :
                 fate[s] # "failed" /\ (AboutToBind(s) => name["server"] = None)

LEMMA FreshAfterCall ==
  ASSUME IInv, FreshFiles, NEW p \in Process, NEW call, Call(p, call),
         met' = met, IsUnix => lingering' = lingering,
         \/ name'["server"] \in {name["server"], None}
         \/ p \in Server /\ call = "bind",
         p \in Server /\ call = "unlink" => name'["server"] = None
  PROVE  FreshFiles'
  <1>1. TypeOK /\ AtItsPlace /\ NameInv /\ Server \subseteq Process
    BY DEF IInv, Process
  <1>2. /\ Running(p) /\ family' = family /\ fate' = fate
        /\ Left(p)' = Left(p) - 1 /\ \A q \in Process \ {p} : Left(q)' = Left(q)
        /\ \A q \in Process : Left(q) \in Nat
    BY <1>1, CallMoves, LeftIsNat DEF Keeping
  <1>3. IsUnix' = IsUnix /\ \A q \in Process : Running(q)' = Running(q)
    BY <1>2 DEF IsUnix, Running
  <1>4. ASSUME IsUnix, NEW s \in Server \ met, AboutToBind(s)' PROVE name'["server"] = None
    <2>1. CASE s = p
      <3>1. Left(p) = (IF family = "unix_stream" THEN 9 ELSE 6)
        BY <1>1, <1>2, <1>4, <2>1 DEF AboutToBind
      <3>2. call = "unlink"
        <4>1. \A q \in Process : Program(q) \in Seq(SystemCall)
          BY <1>1, ProgramsAreCalls
        <4>2. Program(p)[Len(Program(p)) - Left(p) + 1] = call
          BY <1>1, NextCall DEF Call
        <4>3. Program(p) = IF family = "unix_stream" THEN UnixStreamServer ELSE UnixDgramServer
          BY <1>4, <2>1 DEF Program, ServerProgram, IsUnix
        <4>4. CASE family = "unix_stream"
          BY <3>1, <4>2, <4>3, <4>4 DEF UnixStreamServer
        <4>5. CASE family # "unix_stream"
          BY <3>1, <4>2, <4>3, <4>5 DEF UnixDgramServer
        <4>6. QED
          BY <4>4, <4>5
      <3>3. QED
        BY <2>1, <3>2
    <2>2. CASE s # p
      <3>1. Running(s) /\ AboutToBind(s)
        BY <1>1, <1>2, <1>3, <1>4, <2>2 DEF AboutToBind
      <3>2. p \notin Server /\ name["server"] = None
        BY <1>1, <1>2, <1>4, <2>2, <3>1 DEF NameInv, TwoHaveMet, FreshFiles
      <3>3. QED
        BY <3>2
    <2>3. QED
      BY <2>1, <2>2
  <1>5. QED
    BY <1>2, <1>3, <1>4 DEF FreshFiles

LEMMA FreshAfterEnd ==
  ASSUME IInv, FreshFiles, NEW p \in Process, Ends(p)
  PROVE  FreshFiles'
  <1>1. TypeOK /\ AtItsPlace /\ NameInv /\ Server \subseteq Process
    BY DEF IInv, Process
  <1>2. PICK f \in {"done", "failed", "killed"} :
          /\ End(p, f) /\ Running(p) /\ met' = met
          /\ f = "failed" => BindsInVain(p) \/ (p \in Client /\ At(p, "connect"))
    BY DEF Ends
  <1>3. /\ family' = family /\ fate' = [fate EXCEPT ![p] = f]
        /\ \A q \in Process \ {p} : Left(q)' = Left(q)
        /\ fate \in [Process -> Fate]
    BY <1>1, <1>2, EndMoves DEF Keeping, TypeOK
  <1>4. /\ IsUnix' = IsUnix /\ ~Running(p)'
        /\ \A q \in Process \ {p} : Running(q)' = Running(q)
    BY <1>3 DEF IsUnix, Running
  <1>5. IsUnix => name' = name /\ lingering' = lingering
    BY <1>1, <1>2 DEF End, Release, HangUp, IsUnix, TypeOK
  <1>6. IsUnix /\ p \in Server \ met => f # "failed"
    <2>1. SUFFICES ASSUME IsUnix, p \in Server \ met, f = "failed" PROVE FALSE
      OBVIOUS
    <2>2. At(p, "bind") /\ ~Free("server")
      BY <1>2, <2>1, SocketsAssumption DEF Own, BindsInVain
    <2>3. AboutToBind(p)
      BY <1>1, <2>1, <2>2, ServerCalls DEF AboutToBind, At, IsUnix
    <2>4. QED
      BY <2>1, <2>2, <2>3 DEF FreshFiles, Free
  <1>7. \A s \in Server : AboutToBind(s)' => AboutToBind(s)
    BY <1>1, <1>3, <1>4 DEF AboutToBind
  <1>8. QED
    BY <1>1, <1>2, <1>3, <1>4, <1>5, <1>6, <1>7 DEF FreshFiles

LEMMA FreshAfterStart ==
  ASSUME IInv, FreshFiles, NEW p \in Process, Start(p)
  PROVE  FreshFiles'
  <1>1. TypeOK /\ AtItsPlace /\ Server \subseteq Process
    BY DEF IInv, Process
  <1>2. /\ family' = family /\ fate' = [fate EXCEPT ![p] = "running"]
        /\ \A q \in Process : Left(q)' = Left(q)
        /\ Left(p) = Len(Program(p)) /\ fate \in [Process -> Fate]
    BY <1>1, StartMoves DEF TypeOK
  <1>3. name' = name /\ lingering' = lingering /\ met \subseteq met'
    BY DEF Start, links
  <1>4. ASSUME IsUnix, NEW s \in Server, AboutToBind(s)' PROVE AboutToBind(s)
    <2>1. p \in Server => Left(p) = IF family = "unix_stream" THEN 9 ELSE 6
      BY <1>1, <1>2, <1>4, ProgramLengths DEF IsUnix
    <2>2. Left(s) = (IF family = "unix_stream" THEN 8 ELSE 5)
      <3>1. Left(s)' = (IF family' = "unix_stream" THEN 8 ELSE 5)
        BY <1>4 DEF AboutToBind
      <3>2. QED
        BY <1>1, <1>2, <3>1
    <2>3. s # p
      BY <2>1, <2>2
    <2>4. Running(s)
      BY <1>1, <1>2, <1>4, <2>3 DEF AboutToBind, Running
    <2>5. QED
      BY <2>2, <2>4 DEF AboutToBind
  <1>5. QED
    BY <1>1, <1>2, <1>3, <1>4 DEF FreshFiles, IsUnix

LEMMA FilesStayFresh ==
  ASSUME IInv, FreshFiles, [Next]_vars
  PROVE  FreshFiles'
  <1>1. TypeOK /\ Server \subseteq Process /\ Client \subseteq Process
    BY DEF IInv, Process
  <1>2. name \in [Address -> Process \union {None}] /\ "server" \in Address
    BY <1>1 DEF TypeOK, Address
  <1>3. ASSUME NEW p \in Process, Unlink(p) \/ Bind(p) \/ Close(p)
        PROVE  FreshFiles'
    <2>1. PICK call \in {"unlink", "bind", "close"} :
            /\ Call(p, call)
            /\ call = "unlink" => Unlink(p)
            /\ call = "bind" => Bind(p)
            /\ call = "close" => Close(p)
      BY <1>3 DEF Unlink, Bind, Close
    <2>2. met' = met
      BY <1>3 DEF Unlink, Bind, Close, past
    <2>3. IsUnix => lingering' = lingering
      BY <1>1, <1>3 DEF Unlink, Bind, Close, Release, HangUp, links, IsUnix, TypeOK
    <2>4. call = "unlink" => name'["server"] \in {name["server"], None}
                               /\ (p \in Server => name'["server"] = None)
      BY <1>2, <2>1 DEF Unlink, Own
    <2>5. call = "bind" /\ p \notin Server => name'["server"] = name["server"]
      BY <1>2, <2>1 DEF Bind, Own
    <2>6. call = "close" => name'["server"] \in {name["server"], None}
      BY <1>2, <2>1 DEF Close, Release
    <2>7. QED
      BY <2>1, <2>2, <2>3, <2>4, <2>5, <2>6, FreshAfterCall
  <1>4. ASSUME NEW s \in Server,
               \/ Listen(s) \/ Accept(s) \/ ServerRead(s) \/ Answers(s) \/ AnswersNobody(s)
               \/ CloseConnection(s) \/ ServerReceive(s) \/ ServerSendTo(s)
        PROVE  FreshFiles'
    <2>1. name' = name /\ met' = met /\ (IsUnix => lingering' = lingering)
      BY <1>1, <1>4 DEF Listen, Accept, ServerRead, Answers, AnswersNobody, CloseConnection,
                        ServerReceive, ServerSendTo, past, links, IsUnix, TypeOK
    <2>2. \E call \in SystemCall \ {"unlink", "bind"} : Call(s, call)
      BY <1>4 DEF Listen, Accept, ServerRead, Answers, AnswersNobody, CloseConnection,
                  ServerReceive, ServerSendTo, SystemCall
    <2>3. QED
      BY <1>1, <2>1, <2>2, FreshAfterCall
  <1>5. ASSUME NEW c \in Client,
               \/ Connect(c) \/ ClientSends(c) \/ ClientRead(c)
               \/ ClientSendTo(c) \/ ClientReceive(c)
        PROVE  FreshFiles'
    <2>1. name' = name /\ met' = met /\ lingering' = lingering
      BY <1>5 DEF Connect, ClientSends, ClientRead, ClientSendTo, ClientReceive, past
    <2>2. \E call \in SystemCall \ {"unlink", "bind"} : Call(c, call)
      BY <1>5 DEF Connect, ClientSends, ClientRead, ClientSendTo, ClientReceive, SystemCall
    <2>3. QED
      BY <1>1, <2>1, <2>2, FreshAfterCall
  <1>6. CASE LingeringEnds \/ UNCHANGED vars
    <2>1. UNCHANGED <<family, todo, fate, name, met>> /\ lingering' \in {lingering, FALSE}
      BY <1>6 DEF LingeringEnds, vars, past, links
    <2>2. QED
      BY <2>1 DEF FreshFiles, AboutToBind, IsUnix, Running, Left
  <1>7. CASE Next
    BY <1>3, <1>4, <1>5, <1>6, <1>7, StepCases, FreshAfterEnd, FreshAfterStart
  <1>8. QED
    BY <1>6, <1>7

(* A server that waits owns its name, and gets it in the first place,      *)
(* unless it uses a file name and another server has run at the same time  *)
(* (unlink() before bind(), unix_stream_server.c line 23): whatever killed *)
(* servers left behind.                                                    *)
THEOREM ServersCanBeFound == Spec => []ServerCanBeFound
  <1>1. ASSUME IInv, FreshFiles
        PROVE  ServerCanBeFound
    <2>1. NameInv
      BY <1>1 DEF IInv
    <2>2. \A s \in Server : Waiting(s) => sock[s] # "none"
      BY DEF Waiting
    <2>3. QED
      BY <1>1, <2>1, <2>2 DEF ServerCanBeFound, NameInv, FilesInv, PortsInv, FreshFiles
  <1>2. Init => FreshFiles
    BY DEF Init, FreshFiles, AboutToBind, Running, Process
  <1>3. QED
    BY <1>1, <1>2, FilesStayFresh, SocketsInvariance, PTL DEF Spec

(* A name that is left belongs to a process that was killed, or that still *)
(* has its unlink() or its close() to make.                                *)
THEOREM NoFileIsLeft == Spec => []NoFileLeft
  <1>1. ASSUME IInv
        PROVE  NoFileLeft
    <2>1. NameInv /\ Server \subseteq Process /\ Address = {"server", "client"}
      BY <1>1 DEF IInv, Process, Address
    <2>2. ASSUME \A p \in Process : fate[p] \in {"new", "done", "failed"},
                 NEW a \in Address
          PROVE  name[a] = None
      <3>1. CASE IsUnix
        BY <2>1, <2>2, <3>1 DEF NameInv, FilesInv, Running
      <3>2. CASE ~IsUnix
        BY <2>1, <2>2, <3>2 DEF NameInv, PortsInv, NamesAreOwn, BoundAreOpen, Running
      <3>3. QED
        BY <3>1, <3>2
    <2>3. QED
      BY <2>2 DEF NoFileLeft
  <1>2. QED
    BY <1>1, SocketsInvariance, PTL
=============================================================================
