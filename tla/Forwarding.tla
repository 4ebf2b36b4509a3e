----------------------------- MODULE Forwarding -----------------------------
(***************************************************************************)
(* How the MIP daemons of a network carry ping datagrams hop by hop        *)
(* (mip_daemon.c).  A daemon that has to send or to forward a datagram     *)
(* puts it in its waitingQ and asks its routing daemon for the next hop;   *)
(* the answer is handled by another event, and is applied to whatever pop  *)
(* then takes from the queue.  The queue is the one of MsgQ, nodes in      *)
(* memory included.                                                        *)
(*                                                                         *)
(* A daemon handles one epoll event at a time: each handler is one step.   *)
(* What MIP-ARP does between sendData and the wire is in MipArp; here it   *)
(* is a delay, so frames may overtake each other.                          *)
(***************************************************************************)
EXTENDS MsgQ, Sequences

CONSTANTS
  Node,               \* MIP addresses, one MIP daemon on each
  NoRoute,            \* the 255 of an answer without a next hop
  DEFAULT_TTL_MIP,    \* the greatest ttl the header can hold
  AppTtl,             \* the ttl values applications ask for
  Answers,            \* Answers[n][d]: what n's routing daemon may answer for d
  PingApplication,    \* nodes where a ping application is connected
  NoRoutingDaemon,    \* nodes that start without a routing daemon
  MayStop,            \* nodes whose routing daemon may stop
  MaxPackets          \* bound on the datagrams applications send

ASSUME TtlAssumption == DEFAULT_TTL_MIP \in Nat \ {0} /\ AppTtl \subseteq Nat
ASSUME AnswersAssumption ==
  Answers \in [Node -> [Node -> SUBSET (Node \cup {NoRoute})]]
ASSUME PacketsAssumption == MaxPackets \in Nat

\* The header's ttl is a bit field just wide enough for DEFAULT_TTL_MIP.
TtlSize == DEFAULT_TTL_MIP + 1
Ttl     == 0 .. DEFAULT_TTL_MIP
Packet  == [id : 1 .. MaxPackets, src : Node, dst : Node, ttl : Ttl]
Answer  == [dst : Node, next_hop : Node \cup {NoRoute}]

ASSUME DataAssumption == Data = Packet

\* (It is 15.)
ASSUME RoomAssumption == MAX_ELEMENTS > 2

VARIABLES
  waitingQ,   \* waitingQ[n]: datagrams waiting for an answer
  requests,   \* requests[n]: written to n's routing daemon, not yet read
  responses,  \* responses[n]: its answers, not yet read by the MIP daemon
  routing,    \* routing[n]: n's routing daemon as the MIP daemon sees it
  wire,       \* frames on their way: [to, pkt]
  delivered,  \* <<n, id>>: given to the ping application of n
  sent        \* datagrams sent by applications so far

vars == <<waitingQ, requests, responses, routing, wire, delivered, sent>>

\* "none": routingApplication == -1.  "closed", "reset": the peer of the socket
\* is gone but its EPOLLHUP has not been handled yet; "reset" if it left
\* requests unread, for then a read fails before it comes to the answers.
RoutingState == {"none", "open", "closed", "reset"}

Init ==
  /\ waitingQ = [n \in Node |-> CreateQ]
  /\ requests = [n \in Node |-> <<>>]
  /\ responses = [n \in Node |-> <<>>]
  /\ routing = [n \in Node |-> IF n \in NoRoutingDaemon THEN "none" ELSE "open"]
  /\ wire = {}
  /\ delivered = {}
  /\ sent = 0

\* The daemon of n can take up an event: it is not stuck in an earlier one.
Ready(n) == Working(waitingQ[n])

\* push
Enqueue(n, p) ==
  \E a \in Unused(waitingQ[n].heap) :
     waitingQ' = [waitingQ EXCEPT ![n] = Push(@, p, a)]

\* sendForwardingReuest: a write that nobody will read, or that fails
\* because there is no socket, goes unnoticed.
Ask(n, d) ==
  requests' = IF routing[n] = "open" THEN [requests EXCEPT ![n] = Append(@, d)]
              ELSE requests

-----------------------------------------------------------------------------
(* handleApplicationPacket: an application on n sends to d.                *)

\* To this node itself: the application gets its message back.
EchoToSelf(n) ==
  /\ Ready(n) /\ n \in PingApplication /\ sent < MaxPackets
  /\ sent' = sent + 1
  /\ delivered' = delivered \cup {<<n, sent'>>}
  /\ UNCHANGED <<waitingQ, requests, responses, routing, wire>>

\* Mutant: the bit field is taken to be wide enough.
HeaderTtlWide(t) == IF t > 0 THEN t ELSE DEFAULT_TTL_MIP

\* A ttl the application does not give is the default; any other is cut down
\* to the bit field.
HeaderTtl(t) == IF t > 0 THEN t % TtlSize ELSE DEFAULT_TTL_MIP

\* Asked for first, then pushed.
HandleApplicationPacket(n, d, t) ==
  /\ Ready(n) /\ n \in PingApplication /\ sent < MaxPackets
  /\ d # n
  /\ routing[n] # "none"
  /\ sent' = sent + 1
  /\ Ask(n, d)
  /\ Enqueue(n, [id |-> sent', src |-> n, dst |-> d, ttl |-> HeaderTtl(t)])
  /\ UNCHANGED <<responses, routing, wire, delivered>>

\* Without a routing daemon a message to another node is discarded.
DiscardApplicationPacket(n) ==
  /\ Ready(n) /\ n \in PingApplication /\ sent < MaxPackets
  /\ routing[n] = "none"
  /\ sent' = sent + 1
  /\ UNCHANGED <<waitingQ, requests, responses, routing, wire, delivered>>

-----------------------------------------------------------------------------
(* handleRawPacket, for a frame f that carries a PING-SDU.                 *)

\* Addressed to this node: to the ping application, if there is one.
DeliverPing(f) ==
  /\ f.pkt.dst = f.to
  /\ delivered' = IF f.to \in PingApplication
                  THEN delivered \cup {<<f.to, f.pkt.id>>} ELSE delivered
  /\ UNCHANGED <<waitingQ, requests>>

\* Mutant: the ttl is not counted down.
TtlLeftKept(p) == p.ttl

\* The ttl after the decrement, in its bit field.
TtlLeft(p) == (p.ttl - 1 + TtlSize) % TtlSize

\* Mutant: the last hop is not granted.
ExpiresEarly(p) == TtlLeft(p) <= 1

Expires(p) == TtlLeft(p) = 0

DiscardPing(f) ==
  /\ f.pkt.dst # f.to
  /\ Expires(f.pkt)
  /\ UNCHANGED <<waitingQ, requests, delivered>>

\* Pushed first, then asked for: a push that does not return asks nothing.
ForwardPing(f) ==
  /\ f.pkt.dst # f.to
  /\ ~Expires(f.pkt)
  /\ Enqueue(f.to, [f.pkt EXCEPT !.ttl = TtlLeft(f.pkt)])
  /\ IF Working(waitingQ'[f.to]) THEN Ask(f.to, f.pkt.dst)
     ELSE UNCHANGED requests
  /\ UNCHANGED delivered

HandleRawPacket(f) ==
  /\ f \in wire /\ Ready(f.to)
  /\ wire' = wire \ {f}
  /\ DeliverPing(f) \/ DiscardPing(f) \/ ForwardPing(f)
  /\ UNCHANGED <<responses, routing, sent>>

-----------------------------------------------------------------------------
(* handleRoutingPacket, for a RESPONSE.  The address in it is not looked   *)
(* at: it is taken to be about the head of the queue.                      *)

\* Mutant: the branch for "no route" has lost its return.
AnsweredTwice(q, hop) == IF hop = NoRoute THEN Pop(Pop(q)) ELSE Pop(q)

\* The queue once the answer hop has been read.
Answered(q, hop) == Pop(q)

\* Whether there is a datagram to send on: with a hop, and a head to take.
Sends(q, hop) == hop # NoRoute /\ HasHead(q)

\* In state "closed" this is an event that epoll_wait returned before the
\* routing daemon stopped.  (A read that fails, in state "reset", is in
\* HandleRoutingPacket of Applications.)
HandleRoutingPacket(n) ==
  /\ Ready(n) /\ routing[n] \in {"open", "closed"} /\ responses[n] # <<>>
  /\ LET hop == Head(responses[n]).next_hop
     IN  /\ responses' = [responses EXCEPT ![n] = Tail(@)]
         /\ waitingQ' = [waitingQ EXCEPT ![n] = Answered(@, hop)]
         /\ wire' = IF Sends(waitingQ[n], hop)
                    THEN wire \cup {[to |-> hop, pkt |-> Popped(waitingQ[n])]}
                    ELSE wire
  /\ UNCHANGED <<requests, routing, delivered, sent>>

-----------------------------------------------------------------------------
(* The routing daemon of n.                                                *)

\* Mutant: the latest request is answered first.
AnswerLatestRequest(n) ==
  /\ routing[n] = "open" /\ requests[n] # <<>>
  /\ LET last == Len(requests[n])
     IN  /\ \E hop \in Answers[n][requests[n][last]] :
              responses' = [responses EXCEPT ![n] =
                              Append(@, [dst |-> requests[n][last], next_hop |-> hop])]
         /\ requests' = [requests EXCEPT ![n] = SubSeq(@, 1, last - 1)]
  /\ UNCHANGED <<waitingQ, routing, wire, delivered, sent>>

\* The REQUEST handler (routing_daemon.c): findNextHop, sendResponse.
AnswerRequest(n) ==
  /\ routing[n] = "open" /\ requests[n] # <<>>
  /\ \E hop \in Answers[n][Head(requests[n])] :
       responses' = [responses EXCEPT ![n] =
                       Append(@, [dst |-> Head(requests[n]), next_hop |-> hop])]
  /\ requests' = [requests EXCEPT ![n] = Tail(@)]
  /\ UNCHANGED <<waitingQ, routing, wire, delivered, sent>>

\* It stops, and its unread requests are gone.
RoutingStops(n) ==
  /\ n \in MayStop /\ routing[n] = "open"
  /\ routing' = [routing EXCEPT ![n] = IF requests[n] = <<>> THEN "closed"
                                       ELSE "reset"]
  /\ requests' = [requests EXCEPT ![n] = <<>>]
  /\ UNCHANGED <<waitingQ, responses, wire, delivered, sent>>

\* EPOLLHUP is looked at before EPOLLIN: unread answers are lost.
HandleHangup(n) ==
  /\ Ready(n) /\ routing[n] \in {"closed", "reset"}
  /\ routing' = [routing EXCEPT ![n] = "none"]
  /\ responses' = [responses EXCEPT ![n] = <<>>]
  /\ UNCHANGED <<waitingQ, requests, wire, delivered, sent>>

\* One connects, and its handshake is accepted.
RoutingConnects(n) ==
  /\ Ready(n) /\ routing[n] = "none"
  /\ routing' = [routing EXCEPT ![n] = "open"]
  /\ UNCHANGED <<waitingQ, requests, responses, wire, delivered, sent>>

-----------------------------------------------------------------------------
Next ==
  \/ \E n \in Node :
       \/ EchoToSelf(n) \/ DiscardApplicationPacket(n)
       \/ \E d \in Node, t \in AppTtl : HandleApplicationPacket(n, d, t)
       \/ HandleRoutingPacket(n) \/ AnswerRequest(n)
       \/ RoutingStops(n) \/ HandleHangup(n) \/ RoutingConnects(n)
  \/ \E f \in wire : HandleRawPacket(f)

Spec == Init /\ [][Next]_vars

\* epoll serves every descriptor that is ready, both daemons run, and a frame
\* on the wire arrives.
Fairness ==
  /\ \A n \in Node : /\ WF_vars(HandleRoutingPacket(n))
                     /\ WF_vars(AnswerRequest(n))
                     /\ WF_vars(HandleHangup(n))
  /\ WF_vars(\E f \in wire : HandleRawPacket(f))

FairSpec == Spec /\ Fairness

-----------------------------------------------------------------------------
(* Invariants.                                                             *)

TypeOK ==
  /\ waitingQ \in [Node -> Queue]
  /\ requests \in [Node -> Seq(Node)]
  /\ responses \in [Node -> Seq(Answer)]
  /\ routing \in [Node -> RoutingState]
  /\ wire \subseteq [to : Node, pkt : Packet]
  /\ delivered \subseteq Node \X (1 .. MaxPackets)
  /\ sent \in 0 .. MaxPackets

\* Destinations of the answers and requests under way, oldest first.
Outstanding(n) ==
  [i \in 1 .. Len(responses[n]) |-> responses[n][i].dst] \o requests[n]

\* handleRoutingPacket never pops an empty queue, even if routing daemons
\* stop and start at any moment and leave datagrams whose answers never come:
\* no more answers are on their way than datagrams are counted in the queue,
\* and no operation has gone wrong on a queue that counts none.  (What the
\* head of a queue that has held two points to is QueuesBreakAtTwo.)
PopFindsDatagram ==
  \A n \in Node :
    /\ Ready(n) => Len(Outstanding(n)) <= waitingQ[n].amountOfEntries
    /\ waitingQ[n].amountOfEntries = 0 => waitingQ[n].state = "ok"

-----------------------------------------------------------------------------
(* Properties of behaviours.                                               *)

\* With the pushes and pops of the daemon the queue of a node is broken in one
\* way only, by an operation on it while two datagrams are in it (msgQ.c:58),
\* whatever becomes of the routing daemons and of the answers under way.
QueuesBreakAtTwo ==
  [][\A n \in Node : waitingQ[n].state = "ok" /\ waitingQ'[n].state # "ok"
                       => waitingQ[n].amountOfEntries = 2]_waitingQ

\* mip_daemon.c:250 "msg will be handled whenever the routing-deamon answers
\* the request": as many answers are to come as datagrams are in the queue of
\* n, and the first of them was asked for on behalf of its head.
\* handleRoutingPacket relies on nothing else when it pops.
AnswerIsForHead(n) ==
  waitingQ[n].state = "ok" =>
    /\ Len(Outstanding(n)) = waitingQ[n].amountOfEntries
    /\ waitingQ[n].amountOfEntries > 0 =>
         Popped(waitingQ[n]).dst = Outstanding(n)[1]

\* As long as the routing daemon of a node does not stop, whatever it answers
\* and however slowly, the head of a queue that is not broken gets the answer
\* asked for on its behalf, with one datagram waiting or with two.  (A routing
\* daemon that stops leaves a datagram behind, mip_daemon.c:511, and one that
\* is not there is asked in vain, mip_daemon.c:176: the answers are out of
\* step from then on.)
StaysInStep ==
  \A n \in Node : [](routing[n] = "open") => []AnswerIsForHead(n)

\* Every routing daemon stays connected.
Connected == [](\A n \in Node : routing[n] = "open")

\* No two datagrams are ever in the queue of one node.
Serial == [](\A n \in Node : waitingQ[n].amountOfEntries <= 1)

\* Under both, whatever the routing daemons answer, loops included, no datagram
\* stays in the network: the ttl runs out on every cycle.
EveryPacketLeaves ==
  Connected /\ Serial =>
    <>[](wire = {} /\ \A n \in Node : waitingQ[n].amountOfEntries = 0)

\* LeadTo[k]: <<n, d>> such that all answers lead from n to d in k hops or less.
LeadTo[k \in Ttl] ==
  IF k = 0 THEN {<<n, n>> : n \in Node}
  ELSE LeadTo[k - 1] \cup
         {p \in Node \X Node : /\ Answers[p[1]][p[2]] # {}
                              /\ \A hop \in Answers[p[1]][p[2]] :
                                   <<hop, p[2]>> \in LeadTo[k - 1]}

\* A node holds datagram i, and it will not run out of ttl before it is there.
OnItsWay(i) ==
  \E n \in Node : LET c == Contents(waitingQ[n]) IN
    \E k \in DOMAIN c : /\ c[k] # Free
                        /\ c[k].id = i
                        /\ c[k].dst \in PingApplication
                        /\ <<n, c[k].dst>> \in LeadTo[c[k].ttl]

\* Under both, a datagram for a destination that the answers lead to reaches
\* the application there, with a ttl that is just enough, and no matter what
\* becomes of datagrams for other destinations.
EveryPacketArrives ==
  Connected /\ Serial =>
    \A i \in 1 .. MaxPackets :
      OnItsWay(i) ~> (\E n \in Node : <<n, i>> \in delivered)
=============================================================================
