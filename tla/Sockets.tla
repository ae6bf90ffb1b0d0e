------------------------------ MODULE Sockets -------------------------------
(***************************************************************************)
(* The four client and server pairs of Exercise_Lesson_6: TCP, UDP, and    *)
(* stream and datagram sockets with a file name.  Each program is the      *)
(* sequence of its system calls; each call is an action below, the same    *)
(* for all programs but for the family.  A server answers one client and   *)
(* ends.                                                                   *)
(*                                                                         *)
(* socket() itself is left out: it has no effect that another process      *)
(* could see.  The kernel's side (queues, ports, file names, SIGPIPE, lost *)
(* datagrams) is modelled from how the programs use it.                    *)
(***************************************************************************)
EXTENDS Naturals, Sequences, SequencesExt

CONSTANTS
  Server, Client,   \* processes, each started once at most
  Family,           \* the pairs of programs to look at
  Backlog,          \* listen()'s second argument, 3 in the sources
  MaxKills,         \* how many processes are killed or have a call fail
  None              \* nobody

ASSUME SocketsAssumption ==
  /\ Family \subseteq {"tcp", "udp", "unix_stream", "unix_dgram"}
  /\ Backlog \in Nat /\ MaxKills \in Nat
  /\ Server \intersect Client = {}
  /\ None \notin Server \union Client

VARIABLES
  family,     \* the pair of programs that is run
  todo,       \* the calls each process has not made yet
  fate,       \* "new", "running", "done", "failed" or "killed"
  sock,       \* its socket: "none", "open" or "listening"
  name,       \* whose socket each address leads to; a file name outlives the socket
  queue,      \* connections to accept, or datagrams and answers to read:
              \* the client that asked
  peer,       \* the client a server serves
  unread,     \* clients whose message waits in their connection
  hungup,     \* clients whose connection the server's side has closed
  lingering,  \* is a closed connection still in the way of the TCP port (TIME_WAIT)?
  answer,     \* whose answer a client has read
  taken,      \* history: clients whose message a server has read
  lost,       \* history: clients whose datagram or its answer did not arrive
  met,        \* history: servers that have run beside another one
  kills

links == <<queue, peer, unread, hungup, lingering, lost>>
past  == <<answer, taken, met, kills>>
vars  == <<family, todo, fate, sock, name, links, past>>

Process == Server \union Client
Address == {"server", "client"}
Own(p)  == IF p \in Server THEN "server" ELSE "client"

IsUnix   == family \in {"unix_stream", "unix_dgram"}
IsStream == family \in {"tcp", "unix_stream"}

-----------------------------------------------------------------------------
(***************************************************************************)
(* The programs                                                            *)
(***************************************************************************)

(* Mutant: the server answers before it reads. *)
TcpServerHasty ==
  <<"bind", "listen", "accept", "send", "read", "close_connection", "close">>

TcpServer ==
  <<"bind", "listen", "accept", "read", "send", "close_connection", "close">>

(* Mutant: the client reads before it sends. *)
TcpClientHasty == <<"connect", "read", "send", "close">>

TcpClient == <<"connect", "send", "read", "close">>

(* Mutant: the old file is left where it is. *)
UnixStreamServerTrusting ==
  <<"bind", "listen", "accept", "read", "send", "close_connection", "close", "unlink">>

UnixStreamServer ==
  <<"unlink", "bind", "listen", "accept", "read", "send", "close_connection",
    "close", "unlink">>

UnixStreamClient == <<"connect", "send", "read">>

UdpServer == <<"bind", "recvfrom", "sendto", "close">>

UdpClient == <<"sendto", "recvfrom", "close">>

UnixDgramServer == <<"unlink", "bind", "recvfrom", "sendto", "close", "unlink">>

(* Mutant: the client leaves its file behind. *)
UnixDgramClientUntidy == <<"unlink", "bind", "sendto", "recvfrom", "close">>

UnixDgramClient == <<"unlink", "bind", "sendto", "recvfrom", "close", "unlink">>

ServerProgram ==
  [tcp |-> TcpServer, udp |-> UdpServer,
   unix_stream |-> UnixStreamServer, unix_dgram |-> UnixDgramServer]
ClientProgram ==
  [tcp |-> TcpClient, udp |-> UdpClient,
   unix_stream |-> UnixStreamClient, unix_dgram |-> UnixDgramClient]

Init ==
  /\ family \in Family
  /\ todo = [p \in Process |->
               IF p \in Server THEN ServerProgram[family] ELSE ClientProgram[family]]
  /\ fate = [p \in Process |-> "new"]
  /\ sock = [p \in Process |-> "none"]
  /\ name = [a \in Address |-> None]
  /\ queue = [p \in Process |-> << >>]
  /\ peer = [s \in Server |-> None]
  /\ unread = {} /\ hungup = {} /\ lingering = FALSE
  /\ answer = [c \in Client |-> None]
  /\ taken = {} /\ lost = {} /\ met = {} /\ kills = 0

Running(p)  == fate[p] = "running"
At(p, call) == Running(p) /\ todo[p] # << >> /\ Head(todo[p]) = call

Continue(p) == todo' = [todo EXCEPT ![p] = Tail(@)] /\ fate' = fate
Call(p, call) == At(p, call) /\ Continue(p) /\ family' = family

-----------------------------------------------------------------------------
(***************************************************************************)
(* The end of connections, sockets and processes                           *)
(***************************************************************************)

(* Closing the server's end of a TCP connection first, with all data read, *)
(* leaves the port in use for a while; bind() sets no SO_REUSEADDR.        *)
HangUp(s) ==
  LET c == peer[s]
  IN  /\ hungup' = hungup \union (IF IsStream THEN ToSet(queue[s]) \union ({c} \ {None}) ELSE {})
      /\ lingering' = (lingering \/ (/\ family = "tcp" /\ c # None /\ c \notin hungup
                                     /\ sock[c] # "none" /\ c \notin unread))

(* The client whose datagram a server has read and not answered *)
InHand(p) ==
  IF p \in Server /\ "sendto" \in ToSet(todo[p]) THEN {peer[p]} \ {None} ELSE {}

(* A socket is closed, by close() or because its process ends: a port is   *)
(* free again, a file name is not; whoever waits in its queue waits in     *)
(* vain.                                                                   *)
Release(p) ==
  /\ sock' = [sock EXCEPT ![p] = "none"]
  /\ name' = IF IsUnix THEN name
                       ELSE [a \in Address |-> IF name[a] = p THEN None ELSE name[a]]
  /\ queue' = [queue EXCEPT ![p] = << >>]
  /\ lost' = lost \union (IF IsStream THEN {} ELSE ToSet(queue[p]) \union InHand(p))
  /\ IF p \in Server THEN HangUp(p) ELSE UNCHANGED <<hungup, lingering>>
  /\ UNCHANGED <<peer, unread>>

End(p, f) ==
  /\ todo' = [todo EXCEPT ![p] = << >>]
  /\ fate' = [fate EXCEPT ![p] = f]
  /\ family' = family
  /\ Release(p)

(* return 0 *)
Return(p) == Running(p) /\ todo[p] = << >> /\ End(p, "done") /\ UNCHANGED past

Start(p) ==
  LET others == {s \in Server \ {p} : Running(s)}
  IN  /\ fate[p] = "new"
      /\ fate' = [fate EXCEPT ![p] = "running"]
      /\ met' = IF p \in Server /\ others # {} THEN met \union others \union {p} ELSE met
      /\ UNCHANGED <<family, todo, sock, name, links, answer, taken, kills>>

(* A signal, or another call than bind() or connect() that fails: perror   *)
(* and exit(EXIT_FAILURE), where the code looks.                           *)
Kill(p) ==
  /\ Running(p) /\ kills < MaxKills
  /\ kills' = kills + 1
  /\ End(p, "killed")
  /\ UNCHANGED <<answer, taken, met>>

-----------------------------------------------------------------------------
(***************************************************************************)
(* Addresses                                                               *)
(***************************************************************************)

(* unlink(), its result ignored: whoever's file it is *)
Unlink(p) ==
  /\ Call(p, "unlink")
  /\ name' = [name EXCEPT ![Own(p)] = None]
  /\ UNCHANGED <<sock, links, past>>

Free(a) == name[a] = None /\ ~lingering

Bind(p) ==
  /\ Call(p, "bind") /\ Free(Own(p))
  /\ name' = [name EXCEPT ![Own(p)] = p]
  /\ sock' = [sock EXCEPT ![p] = "open"]
  /\ UNCHANGED <<links, past>>

(* EADDRINUSE *)
BindFails(p) ==
  At(p, "bind") /\ ~Free(Own(p)) /\ End(p, "failed") /\ UNCHANGED past

(* close() of the socket the program began with *)
Close(p) == Call(p, "close") /\ Release(p) /\ UNCHANGED past

LingeringEnds ==
  lingering /\ lingering' = FALSE
    /\ UNCHANGED <<family, todo, fate, sock, name, queue, peer, unread, hungup, lost, past>>

-----------------------------------------------------------------------------
(***************************************************************************)
(* Streams                                                                 *)
(***************************************************************************)
Listen(s) ==
  /\ Call(s, "listen")
  /\ sock' = [sock EXCEPT ![s] = "listening"]
  /\ UNCHANGED <<name, links, past>>

Listener == IF name["server"] = None THEN "none" ELSE sock[name["server"]]
HasRoom  == Len(queue[name["server"]]) <= Backlog

(* connect() waits for room in the listener's queue. *)
Connect(c) ==
  /\ Call(c, "connect")
  /\ Listener = "listening" /\ HasRoom
  /\ queue' = [queue EXCEPT ![name["server"]] = Append(@, c)]
  /\ sock' = [sock EXCEPT ![c] = "open"]
  /\ UNCHANGED <<name, peer, unread, hungup, lingering, lost, past>>

(* Nobody listens, or TCP has tried for too long *)
ConnectFails(c) ==
  /\ At(c, "connect")
  /\ \/ Listener # "listening"
     \/ Listener = "listening" /\ family = "tcp" /\ ~HasRoom
  /\ End(c, "failed")
  /\ UNCHANGED past

Accept(s) ==
  /\ Call(s, "accept")
  /\ queue[s] # << >>
  /\ peer' = [peer EXCEPT ![s] = Head(queue[s])]
  /\ queue' = [queue EXCEPT ![s] = Tail(@)]
  /\ UNCHANGED <<sock, name, unread, hungup, lingering, lost, past>>

(* Writing to a Unix socket whose other end is closed is fatal (SIGPIPE);  *)
(* TCP takes the data all the same.  Neither send() is looked at.          *)
ClientSend(c) ==
  /\ At(c, "send")
  /\ IF IsUnix /\ c \in hungup
       THEN End(c, "killed")
       ELSE /\ Call(c, "send")
            /\ unread' = IF c \in hungup THEN unread ELSE unread \union {c}
            /\ UNCHANGED <<sock, name, queue, peer, hungup, lingering, lost>>
  /\ UNCHANGED past

(* read() returns when there is something, or when the client has ended.   *)
ServerRead(s) ==
  LET c == peer[s]
  IN  /\ Call(s, "read")
      /\ c \in unread \/ sock[c] = "none"
      /\ taken' = taken \union ({c} \intersect unread)
      /\ unread' = unread \ {c}
      /\ UNCHANGED <<sock, name, queue, peer, hungup, lingering, lost, answer, met, kills>>

ServerSend(s) ==
  LET c == peer[s]
  IN  /\ At(s, "send")
      /\ IF sock[c] # "none"
           THEN /\ Call(s, "send")
                /\ queue' = [queue EXCEPT ![c] = Append(@, c)]
                /\ UNCHANGED <<sock, name, peer, unread, hungup, lingering, lost>>
           ELSE IF IsUnix THEN End(s, "killed")
                          ELSE Call(s, "send") /\ UNCHANGED <<sock, name, links>>
      /\ UNCHANGED past

(* The client prints what it has read, be it nothing. *)
ClientRead(c) ==
  /\ Call(c, "read")
  /\ queue[c] # << >> \/ c \in hungup
  /\ answer' = [answer EXCEPT ![c] = IF queue[c] = << >> THEN None ELSE Head(queue[c])]
  /\ queue' = [queue EXCEPT ![c] = << >>]
  /\ UNCHANGED <<sock, name, peer, unread, hungup, lingering, lost, taken, met, kills>>

CloseConnection(s) ==
  /\ Call(s, "close_connection")
  /\ hungup' = hungup \union {peer[s]}
  /\ lingering' = (lingering \/ (family = "tcp" /\ sock[peer[s]] # "none"))
  /\ UNCHANGED <<sock, name, queue, peer, unread, lost, past>>

-----------------------------------------------------------------------------
(***************************************************************************)
(* Datagrams                                                               *)
(***************************************************************************)

(* The datagram about client c goes to process p, if it is there to take   *)
(* it and, with UDP, if it does not get lost.                              *)
Open(p) == p # None /\ sock[p] # "none"
Deliver(p, c) ==
  \/ /\ Open(p)
     /\ queue' = [queue EXCEPT ![p] = Append(@, c)]
     /\ lost' = IF p \in Client \ {c} THEN lost \union {c} ELSE lost
  \/ /\ ~Open(p) \/ family = "udp"
     /\ queue' = queue
     /\ lost' = lost \union {c}

(* sendto() to the server; a UDP client has an address of its own from now *)
(* on                                                                      *)
ClientSendTo(c) ==
  /\ c \in Client /\ Call(c, "sendto")
  /\ sock' = [sock EXCEPT ![c] = "open"]
  /\ Deliver(name["server"], c)
  /\ UNCHANGED <<name, peer, unread, hungup, lingering, past>>

ServerReceive(s) ==
  /\ s \in Server /\ Call(s, "recvfrom")
  /\ queue[s] # << >>
  /\ peer' = [peer EXCEPT ![s] = Head(queue[s])]
  /\ queue' = [queue EXCEPT ![s] = Tail(@)]
  /\ taken' = taken \union {Head(queue[s])}
  /\ UNCHANGED <<sock, name, unread, hungup, lingering, lost, answer, met, kills>>

(* sendto() to the sender's address: a port is the client's own, a file    *)
(* name whoever's it is now                                                *)
ServerSendTo(s) ==
  /\ s \in Server /\ Call(s, "sendto")
  /\ Deliver(IF IsUnix THEN name["client"] ELSE peer[s], peer[s])
  /\ UNCHANGED <<sock, name, peer, unread, hungup, lingering, past>>

ClientReceive(c) ==
  /\ c \in Client /\ Call(c, "recvfrom")
  /\ queue[c] # << >>
  /\ answer' = [answer EXCEPT ![c] = Head(queue[c])]
  /\ queue' = [queue EXCEPT ![c] = Tail(@)]
  /\ UNCHANGED <<sock, name, peer, unread, hungup, lingering, lost, taken, met, kills>>

-----------------------------------------------------------------------------
ServerStep(s) ==
  \/ Listen(s) \/ Accept(s) \/ ServerRead(s) \/ ServerSend(s) \/ CloseConnection(s)
  \/ ServerReceive(s) \/ ServerSendTo(s)

ClientStep(c) ==
  \/ Connect(c) \/ ConnectFails(c) \/ ClientSend(c) \/ ClientRead(c)
  \/ ClientSendTo(c) \/ ClientReceive(c)

Step(p) ==
  \/ Unlink(p) \/ Bind(p) \/ BindFails(p) \/ Close(p) \/ Return(p)
  \/ p \in Server /\ ServerStep(p)
  \/ p \in Client /\ ClientStep(p)

Next ==
  \/ \E p \in Process : Start(p) \/ Step(p) \/ Kill(p)
  \/ LingeringEnds

Spec == Init /\ [][Next]_vars

(* A process that can make its next call makes it. *)
FairSpec == Spec /\ \A p \in Process : WF_vars(Step(p))

-----------------------------------------------------------------------------
(* An answer answers a message that a server has read, and no two clients  *)
(* get the same one; except for the Unix datagram clients, who share one   *)
(* address (unix_dgram_client.c line 10), it is the client's own message.  *)
AnswersEarned ==
  \A c \in Client : answer[c] # None =>
    /\ answer[c] \in taken
    /\ \A d \in Client \ {c} : answer[d] # answer[c]
    /\ family # "unix_dgram" => answer[c] = c

(* A server whose file name another server is not using at the same time   *)
(* gets it, whatever file killed servers have left behind (unlink() at the *)
(* beginning, unix_stream_server.c line 23), and clients find it under the *)
(* name while it waits for them.  With ports even two servers cannot take  *)
(* the name from each other.                                               *)
Waiting(s) == sock[s] = (IF IsStream THEN "listening" ELSE "open")
ServerCanBeFound ==
  \A s \in Server :
    /\ IsUnix /\ s \notin met => fate[s] # "failed"
    /\ Waiting(s) /\ (IsUnix => s \notin met) => name["server"] = s

(* When all processes have come to their own end no socket file is left,   *)
(* however they have overlapped and removed each other's.                  *)
NoFileLeft ==
  (\A p \in Process : fate[p] \in {"new", "done", "failed"}) =>
    \A a \in Address : name[a] = None

(* No client waits for ever for a server that has accepted it, that never  *)
(* will, or that is gone (the queue of listen(), tcp_server.c line 43); a  *)
(* datagram client does only if its datagram or the answer was lost.       *)
EveryClientEnds ==
  \A c \in Client : Running(c) ~> (~Running(c) \/ (~IsStream /\ c \in lost))
=============================================================================
