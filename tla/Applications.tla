---------------------------- MODULE Applications ----------------------------
(***************************************************************************)
(* The programs of one host and the event loop that serves them (main of   *)
(* mip_daemon.c): ping clients, a ping server and routing daemons connect  *)
(* to the MIP daemon, introduce themselves, exchange messages with it and  *)
(* hang up, at any moment.  The daemon knows its applications by           *)
(* descriptor, one per kind, and works through the events epoll_wait has   *)
(* returned one after the other, while the programs go on.                 *)
(*                                                                         *)
(* A datagram that waits for the next hop stays with the request about it: *)
(* how the two find each other is in Forwarding.  The other hosts are      *)
(* their applications: a server that clients of this host ping, and        *)
(* clients that ping this host.                                            *)
(***************************************************************************)
EXTENDS Integers, Sequences, FiniteSets

CONSTANTS
  Client, Server, Router,   \* the programs of this host; each runs once
  RemoteClient,             \* clients of other hosts
  ToSelf,                   \* the clients that ping their own host
  MayDie,                   \* programs that may be killed at any moment
  Nobody,                   \* no program
  MaxStarted                \* bound on the programs started, here or on other hosts

Program == Client \cup Server \cup Router
NoMessage == [type |-> "none", id |-> Nobody]

ASSUME ProgramAssumption ==
  /\ Client \cap (Server \cup Router) = {} /\ Server \cap Router = {}
  /\ RemoteClient \cap Program = {} /\ Nobody \notin Program \cup RemoteClient
  /\ ToSelf \subseteq Client /\ MayDie \subseteq Program
  /\ IsFiniteSet(Program) /\ MaxStarted \in Nat

\* Descriptors of the daemon.  accept returns the lowest that is free.
domain_socket == 1
socket_fd     == 2
Fd            == 3 .. (2 + Cardinality(Program))
None          == -1

VARIABLES
  phase,      \* phase[p]: what the program p is doing
  toDaemon,   \* toDaemon[p]: written by p, not yet read by the daemon
  toProgram,  \* toProgram[p]: written to p, not yet read
  reset,      \* gone with messages unread: the next read from them fails
  answer,     \* answer[c]: what the client c has printed
  backlog,    \* connections that wait for accept
  conn,       \* conn[f]: the program at the other end of f, or Nobody
  epollSet,   \* the descriptors epoll monitors, but for the two sockets
  batch,      \* events that epoll_wait has returned, not yet handled
  daemon,     \* what the MIP daemon is doing
  pingApplication, routingApplication, tempApplication,
  frames,     \* messages in frames for this host, not yet read
  out,        \* messages this host has sent to others
  remote,     \* remote[x]: what the client x of another host is doing
  replaced    \* programs whose descriptor was overwritten by that of another

programVars == <<phase, answer>>
socketVars  == <<toDaemon, toProgram, reset, backlog>>
daemonVars  == <<conn, epollSet, batch, daemon, replaced>>
applications == <<pingApplication, routingApplication, tempApplication>>
networkVars == <<frames, out, remote>>
vars == <<programVars, socketVars, daemonVars, applications, networkVars>>

Handshake  == [type |-> "HANDSHAKE", id |-> Nobody]
Reply      == [type |-> "REPLY", id |-> Nobody]
Routing    == [type |-> "ROUTING", id |-> Nobody]
Ping(i)    == [type |-> "PING", id |-> i]    \* the question of client i
Pong(i)    == [type |-> "PONG", id |-> i]    \* the answer to it
Request(m)  == [type |-> "REQUEST", id |-> m.id, msg |-> m.type]
Response(m) == [type |-> "RESPONSE", id |-> m.id, msg |-> m.msg]

\* What the handlers find if a read fails: a message of zeros.
Zeros == [type |-> "PING", id |-> Nobody]

Id       == Client \cup RemoteClient \cup {Nobody}
SduType  == {"PING", "PONG"}
Sdu      == [type : SduType, id : Id]
ToRouter == {Reply} \cup [type : {"REQUEST"}, id : Id, msg : SduType]
FromAny  == {Handshake, Routing} \cup Sdu
              \cup [type : {"RESPONSE"}, id : Id, msg : SduType]

\* "connected": about to send the handshake.  "greeted": a client that is about
\* to send its question.  "mute": gone without having sent the handshake.
Phase  == {"off", "connected", "greeted", "running", "gone", "mute"}
Daemon == {"loop", "handshake", "crashed"}
Event  == [fd : {domain_socket, socket_fd} \cup Fd, hup : BOOLEAN]

Init ==
  /\ phase = [p \in Program |-> "off"]
  /\ toDaemon = [p \in Program |-> <<>>]
  /\ toProgram = [p \in Program |-> <<>>]
  /\ reset = {}
  /\ answer = [c \in Client |-> NoMessage]
  /\ backlog = <<>>
  /\ conn = [f \in Fd |-> Nobody]
  /\ epollSet = {}
  /\ batch = {}
  /\ daemon = "loop"
  /\ pingApplication = None
  /\ routingApplication = None
  /\ tempApplication = None
  /\ frames = {}
  /\ out = {}
  /\ remote = [x \in RemoteClient |-> "off"]
  /\ replaced = {}

-----------------------------------------------------------------------------
(* The programs.                                                           *)

\* The bound MaxStarted.
MayStart == Cardinality({p \in Program : phase[p] # "off"})
              + Cardinality({x \in RemoteClient : remote[x] # "off"}) < MaxStarted

Send(p, m) == toDaemon' = [toDaemon EXCEPT ![p] = Append(@, m)]

\* createDomainClientSocket
Connect(p) ==
  /\ phase[p] = "off" /\ daemon # "crashed"
  /\ MayStart
  /\ phase' = [phase EXCEPT ![p] = "connected"]
  /\ backlog' = Append(backlog, p)
  /\ UNCHANGED <<toDaemon, toProgram, reset, answer, daemonVars, applications,
                 networkVars>>

\* Mutant: the handshake is sent once the daemon monitors the connection.
GreetsWhenMonitored(p) ==
  phase[p] = "connected" /\ \E f \in epollSet : conn[f] = p

Greets(p) == phase[p] = "connected"

\* sendHandshake
SendHandshake(p) ==
  /\ Greets(p)
  /\ phase' = [phase EXCEPT ![p] = IF p \in Client THEN "greeted" ELSE "running"]
  /\ Send(p, Handshake)
  /\ UNCHANGED <<toProgram, reset, backlog, answer, daemonVars, applications,
                 networkVars>>

\* The one message of a client.
SendPing(c) ==
  /\ c \in Client /\ phase[c] = "greeted"
  /\ phase' = [phase EXCEPT ![c] = "running"]
  /\ Send(c, Ping(c))
  /\ UNCHANGED <<toProgram, reset, backlog, answer, daemonVars, applications,
                 networkVars>>

\* p closes its socket, with the messages of unread in it.
Leave(p, unread) ==
  /\ phase' = [phase EXCEPT ![p] = IF @ = "connected" THEN "mute" ELSE "gone"]
  /\ toProgram' = [toProgram EXCEPT ![p] = <<>>]
  /\ reset' = IF unread # <<>> THEN reset \cup {p} ELSE reset

\* The client takes whatever comes first for the answer, and exits.
ClientReads(c) ==
  /\ c \in Client /\ phase[c] = "running" /\ toProgram[c] # <<>>
  /\ answer' = [answer EXCEPT ![c] = Head(toProgram[c])]
  /\ Leave(c, Tail(toProgram[c]))
  /\ UNCHANGED <<toDaemon, backlog, daemonVars, applications, networkVars>>

\* One second has passed: select has returned 0.
ClientTimesOut(c) ==
  /\ c \in Client /\ phase[c] = "running"
  /\ Leave(c, toProgram[c])
  /\ UNCHANGED <<toDaemon, backlog, answer, daemonVars, applications, networkVars>>

\* The server answers every message, to the address it came from.
ServerReads(s) ==
  /\ s \in Server /\ phase[s] = "running" /\ toProgram[s] # <<>>
  /\ toProgram' = [toProgram EXCEPT ![s] = Tail(@)]
  /\ Send(s, Pong(Head(toProgram[s]).id))
  /\ UNCHANGED <<reset, backlog, programVars, daemonVars, applications, networkVars>>

\* The routing daemon says HELLO once it has the reply to its handshake, and
\* answers requests.
RouterReads(r) ==
  /\ r \in Router /\ phase[r] = "running" /\ toProgram[r] # <<>>
  /\ toProgram' = [toProgram EXCEPT ![r] = Tail(@)]
  /\ LET m == Head(toProgram[r])
     IN  Send(r, IF m = Reply THEN Routing ELSE Response(m))
  /\ UNCHANGED <<reset, backlog, programVars, daemonVars, applications, networkVars>>

Mute(p) == phase[p] = "mute"

\* Whether the socket of p is closed.
Gone(p) == phase[p] = "gone" \/ Mute(p)

\* A program is killed.
Die(p) ==
  /\ p \in MayDie /\ phase[p] # "off" /\ ~Gone(p)
  /\ Leave(p, toProgram[p])
  /\ UNCHANGED <<toDaemon, backlog, answer, daemonVars, applications, networkVars>>

-----------------------------------------------------------------------------
(* The event loop of the MIP daemon.                                       *)

\* The events there are: epoll reports them until they are dealt with.
Readable(fd) == {[fd |-> fd, hup |-> FALSE]}

PendingEvents ==
  (IF backlog # <<>> THEN Readable(domain_socket) ELSE {})
    \cup (IF frames # {} THEN Readable(socket_fd) ELSE {})
    \cup {[fd |-> f, hup |-> Gone(conn[f])] :
            f \in {g \in epollSet : Gone(conn[g]) \/ toDaemon[conn[g]] # <<>>}}

\* epoll_wait returns up to 10 events: all of them, here.
EpollWait ==
  /\ daemon = "loop" /\ batch = {} /\ PendingEvents # {}
  /\ batch' = PendingEvents
  /\ UNCHANGED <<programVars, socketVars, conn, epollSet, daemon, replaced,
                 applications, networkVars>>

\* Mutant: EPOLLIN is looked at first, and a hang-up sets that too.
HangsUpIfNotReadable(e) == FALSE

\* EPOLLHUP is looked at first.
HangsUp(e) == e.hup

\* The next event is taken from the batch, in any order.
Take(e) == daemon = "loop" /\ e \in batch /\ batch' = batch \ {e}

FreeFd == CHOOSE f \in Fd : /\ conn[f] = Nobody
                            /\ \A g \in Fd : conn[g] = Nobody => f <= g

\* accept; the handshake is read at once, by a read that blocks.
Accept(e) ==
  /\ Take(e) /\ e.fd = domain_socket
  /\ tempApplication' = FreeFd
  /\ conn' = [conn EXCEPT ![FreeFd] = Head(backlog)]
  /\ backlog' = Tail(backlog)
  /\ daemon' = "handshake"
  /\ UNCHANGED <<toDaemon, toProgram, reset, programVars, epollSet, replaced,
                 pingApplication, routingApplication, networkVars>>

\* A write to a program that is gone fails, and nobody looks.
Written(p, m) ==
  IF p = Nobody \/ Gone(p) THEN toProgram
  ELSE [toProgram EXCEPT ![p] = Append(@, m)]

\* Mutant: the descriptor that is overwritten is closed.
Closes(f) == f # None

\* Whether the descriptor f is closed when another takes its place.
ClosesOverwritten(f) == FALSE

\* f is no longer the descriptor of an application.
Overwrite(f) ==
  /\ replaced' = IF f = None THEN replaced ELSE replaced \cup {conn[f]}
  /\ conn' = IF ClosesOverwritten(f) THEN [conn EXCEPT ![f] = Nobody] ELSE conn
  /\ epollSet' = (epollSet \cup {tempApplication})
                   \ {g \in {f} : ClosesOverwritten(f)}

\* The program has introduced itself: its descriptor takes the place of
\* the one its kind had, whether that is still in use or not.
ReadHandshake ==
  LET p == conn[tempApplication]
  IN  /\ daemon = "handshake" /\ toDaemon[p] # <<>>
      /\ daemon' = "loop"
      /\ toDaemon' = [toDaemon EXCEPT ![p] = Tail(@)]
      /\ tempApplication' = None
      /\ IF p \in Router
         THEN /\ routingApplication' = tempApplication
              /\ toProgram' = Written(p, Reply)
              /\ Overwrite(routingApplication)
              /\ UNCHANGED pingApplication
         ELSE /\ pingApplication' = tempApplication
              /\ Overwrite(pingApplication)
              /\ UNCHANGED <<toProgram, routingApplication>>
      /\ UNCHANGED <<reset, backlog, programVars, batch, networkVars>>

\* It has gone without a word: the descriptor stays open, monitored by nobody.
ReadNoHandshake ==
  LET p == conn[tempApplication]
  IN  /\ daemon = "handshake" /\ toDaemon[p] = <<>> /\ Gone(p)
      /\ daemon' = "loop"
      /\ UNCHANGED <<socketVars, programVars, conn, epollSet, batch, replaced,
                     applications, networkVars>>

\* Mutant: the descriptor is not closed.
StaysOpen(f) == conn

\* close
Closed(f) == [conn EXCEPT ![f] = Nobody]

\* Mutant: the variable keeps the number of the closed descriptor.
KeptOnHangup(f, app) == app

\* Mutant: it is set to 0.
ZeroOnHangup(f, app) == IF app = f THEN 0 ELSE app

\* Mutant: whatever hangs up.
NoneOnHangup(f, app) == None

\* What a descriptor variable holds after the hang-up of f.
ResetOnHangup(f, app) == IF app = f THEN None ELSE app

\* EPOLLHUP.  That of a descriptor which has been overwritten is passed over,
\* and will be reported again.
HandleHangup(e) ==
  /\ Take(e) /\ HangsUp(e)
  /\ IF e.fd \in {pingApplication, routingApplication}
     THEN /\ epollSet' = epollSet \ {e.fd}
          /\ conn' = Closed(e.fd)
          /\ pingApplication' = ResetOnHangup(e.fd, pingApplication)
          /\ routingApplication' = ResetOnHangup(e.fd, routingApplication)
     ELSE UNCHANGED <<epollSet, conn, pingApplication, routingApplication>>
  /\ UNCHANGED <<programVars, socketVars, daemon, replaced, tempApplication,
                 networkVars>>

\* A read fails if the program has left messages unread, and finds the end of
\* the connection if it has left nothing to read.
Fails(p) == p \in reset \/ toDaemon[p] = <<>>

\* The message read from p, and what is left.
Read(p) == IF Fails(p) THEN Zeros ELSE Head(toDaemon[p])

TakesFrom(p) ==
  /\ reset' = reset \ {p}
  /\ toDaemon' = IF Fails(p) THEN toDaemon ELSE [toDaemon EXCEPT ![p] = Tail(@)]

\* EPOLLIN of the ping application: handleApplicationPacket.  A message to this
\* host goes back where it came from; the next hop of any other is asked for,
\* also if nothing could be read.
HandleApplicationPacket(e) ==
  LET p == conn[pingApplication]
      m == Read(p)
  IN  /\ Take(e) /\ ~HangsUp(e) /\ e.fd = pingApplication
      /\ TakesFrom(p)
      /\ toProgram' = IF m.id \in ToSelf THEN Written(p, m)
                      ELSE IF routingApplication # None
                      THEN Written(conn[routingApplication], Request(m))
                      ELSE toProgram
      /\ UNCHANGED <<backlog, programVars, conn, epollSet, daemon, replaced,
                     applications, networkVars>>

\* EPOLLIN of the routing daemon: handleRoutingPacket.  A message that could not
\* be read is taken for one of -3 bytes to send, and the daemon crashes.
HandleRoutingPacket(e) ==
  LET p == conn[routingApplication]
      m == Read(p)
  IN  /\ Take(e) /\ ~HangsUp(e) /\ e.fd = routingApplication
      /\ TakesFrom(p)
      /\ daemon' = IF Fails(p) THEN "crashed" ELSE daemon
      /\ out' = IF m.type = "RESPONSE" /\ m.id # Nobody
                THEN out \cup {[type |-> m.msg, id |-> m.id]} ELSE out
      /\ UNCHANGED <<toProgram, backlog, programVars, conn, epollSet, replaced,
                     applications, frames, remote>>

\* Mutant: the frame is looked at, and stays.
FramesKept(m) == frames

\* The frames left once readRawPacket has read m.
FramesLeft(m) == frames \ {m}

\* EPOLLIN of the raw socket: a frame with a PING-SDU for this host goes to
\* the ping application, whichever that is now.
HandleRawPacket(e) ==
  /\ Take(e) /\ e.fd = socket_fd
  /\ \E m \in frames :
       /\ frames' = FramesLeft(m)
       /\ toProgram' = IF pingApplication = None THEN toProgram
                       ELSE Written(conn[pingApplication], m)
  /\ UNCHANGED <<toDaemon, reset, backlog, programVars, conn, epollSet, daemon,
                 replaced, applications, out, remote>>

\* EPOLLIN of a descriptor that has been overwritten.
PassOver(e) ==
  /\ Take(e) /\ ~HangsUp(e)
  /\ e.fd \notin {domain_socket, socket_fd, pingApplication, routingApplication}
  /\ UNCHANGED <<programVars, socketVars, conn, epollSet, daemon, replaced,
                 applications, networkVars>>

-----------------------------------------------------------------------------
(* The other hosts.                                                        *)

RemotePings(x) ==
  /\ remote[x] = "off" /\ daemon # "crashed" /\ MayStart
  /\ remote' = [remote EXCEPT ![x] = "waiting"]
  /\ frames' = frames \cup {Ping(x)}
  /\ UNCHANGED <<out, programVars, socketVars, daemonVars, applications>>

\* The server there answers, whatever it gets.
RemoteAnswers(m) ==
  /\ m \in out /\ m.id \in Client
  /\ out' = out \ {m}
  /\ frames' = frames \cup {Pong(m.id)}
  /\ UNCHANGED <<remote, programVars, socketVars, daemonVars, applications>>

RemoteReads(m) ==
  /\ m \in out /\ m.id \in RemoteClient
  /\ out' = out \ {m}
  /\ remote' = [remote EXCEPT ![m.id] = "answered"]
  /\ UNCHANGED <<frames, programVars, socketVars, daemonVars, applications>>

-----------------------------------------------------------------------------
DaemonStep ==
  \/ EpollWait \/ ReadHandshake \/ ReadNoHandshake
  \/ \E e \in batch :
       \/ Accept(e) \/ HandleHangup(e) \/ HandleApplicationPacket(e)
       \/ HandleRoutingPacket(e) \/ HandleRawPacket(e) \/ PassOver(e)

\* What a program does as soon as it can.
ProgramStep(p) ==
  \/ SendHandshake(p) \/ SendPing(p) \/ ClientReads(p) \/ ClientTimesOut(p)
  \/ ServerReads(p) \/ RouterReads(p)

RemoteStep == \E m \in out : RemoteAnswers(m) \/ RemoteReads(m)

Next ==
  \/ DaemonStep \/ RemoteStep
  \/ \E p \in Program : Connect(p) \/ ProgramStep(p) \/ Die(p)
  \/ \E x \in RemoteClient : RemotePings(x)

Spec == Init /\ [][Next]_vars

\* The daemon and the programs run, epoll reports what is ready until it is
\* dealt with, a client waits for a second at most, other hosts answer.
\* Nobody has to start a program, or to kill it.
Fairness ==
  /\ WF_vars(DaemonStep)
  /\ WF_vars(RemoteStep)
  /\ \A p \in Program : WF_vars(ProgramStep(p))

FairSpec == Spec /\ Fairness

-----------------------------------------------------------------------------
(* Invariants.                                                             *)

TypeOK ==
  /\ phase \in [Program -> Phase]
  /\ toDaemon \in [Program -> Seq(FromAny)]
  /\ toProgram \in [Program -> Seq(Sdu \cup ToRouter)]
  /\ reset \subseteq Program
  /\ answer \in [Client -> Sdu \cup {NoMessage}]
  /\ backlog \in Seq(Program)
  /\ conn \in [Fd -> Program \cup {Nobody}]
  /\ epollSet \subseteq Fd
  /\ batch \subseteq Event
  /\ daemon \in Daemon
  /\ {pingApplication, routingApplication, tempApplication} \subseteq Fd \cup {None}
  /\ frames \subseteq Sdu /\ out \subseteq Sdu
  /\ remote \in [RemoteClient -> {"off", "waiting", "answered"}]
  /\ replaced \subseteq Program

\* The daemon takes the program behind a descriptor for one of the kind of its
\* variable (mip_daemon.c:477, 491): it is, although the numbers of closed
\* descriptors come back, and programs come and go between epoll_wait and the
\* handling of its events.
DescriptorsOfTheirKind ==
  /\ pingApplication # None => conn[pingApplication] \in Client \cup Server
  /\ routingApplication # None => conn[routingApplication] \in Router

\* No event is handled that was about an earlier connection of the same number.
\* Since a connection is closed only at its own event, it is enough that every
\* event still to be handled has an open descriptor.
NoStaleEvent ==
  \A e \in batch : e.fd \in Fd => e.fd \in epollSet /\ conn[e.fd] # Nobody

\* An open descriptor is one of an application, or of the connection being
\* accepted: every hang-up of a known application closes its own, however many
\* come and go.  What else is open stays open for ever: connections that were
\* overwritten, or whose program went before it had sent its handshake.
NoDescriptorLost ==
  \A f \in Fd :
    conn[f] # Nobody =>
      \/ f \in {pingApplication, routingApplication, tempApplication}
      \/ conn[f] \in replaced
      \/ Mute(conn[f])

\* The client c is not there any more, or not known any more, and does not have
\* its answer.
TooLate(c) == (Gone(c) \/ c \in replaced) /\ answer[c].id # c

\* pingClient.c:64: what a client takes for the answer is the answer to its own
\* question.  It can also be a question of another host, for want of a server,
\* and the answer to a client before it that came too late for that.
AnswerIsToTheQuestion ==
  \A c \in Client :
    answer[c] # NoMessage =>
      \/ answer[c].id = c
      \/ answer[c].id \in RemoteClient
      \/ TooLate(answer[c].id)

-----------------------------------------------------------------------------
(* Properties of behaviours.                                               *)

\* The only way to crash the daemon: it reads from a routing daemon that has
\* died with requests unread, because epoll_wait had returned the event about
\* its answers before.  Any other hang-up comes before a read that fails.
CrashesOnlyAfterReset ==
  [][daemon' # daemon /\ daemon' = "crashed" => conn[routingApplication] \in reset]_vars

\* mip_daemon.c:461 blocks the daemon for all others until the handshake is
\* there: it comes, or the program goes.
HandshakeReturns == daemon = "handshake" ~> daemon # "handshake"

\* A question from another host is answered if the server s is the ping
\* application, unless it goes or another application takes its place.
RemoteIsAnswered ==
  \A x \in RemoteClient, s \in Server :
    (Ping(x) \in frames /\ pingApplication # None /\ conn[pingApplication] = s)
      ~> \/ Pong(x) \in {toDaemon[s][i] : i \in DOMAIN toDaemon[s]}
         \/ Gone(s) \/ s \in replaced \/ daemon = "crashed"

\* Nothing is left to do or on its way.
AtRest ==
  /\ daemon = "loop" /\ batch = {} /\ PendingEvents = {} /\ out = {}
  /\ \A p \in Program : toProgram[p] = <<>>

\* A server that is given an answer answers it.
GivenAnswer(s) ==
  \E i \in DOMAIN toProgram[s] : toProgram[s][i].type = "PONG"

\* Every exchange comes to an end and every hang-up is dealt with, whenever
\* they come, and the daemon sleeps.  It does not if a connection was
\* overwritten, whose hang-up is reported for ever; nor if a server gets the
\* answer to a client that gave up, which two servers then pass to and fro.
Settles ==
  \/ <>[]AtRest
  \/ <>(replaced # {} \/ daemon = "crashed" \/ \E s \in Server : GivenAnswer(s))
=============================================================================
