-------------------------- MODULE Forwarding_proofs --------------------------
(***************************************************************************)
(* Questions and answers of the MIP daemons, for every network, every ttl, *)
(* whatever the routing daemons answer and whenever they stop and start,   *)
(* and whatever memory malloc hands out: no more answers are under way for *)
(* a queue than it counts datagrams, so that a pop never meets an empty    *)
(* queue; and while the routing daemon of a node stays, the answers are    *)
(* for the datagrams they are applied to, up to the pop of a queue of two. *)
(***************************************************************************)
EXTENDS Forwarding, MsgQ_proofs, SequenceTheorems

\* The requests and the answers of n under way are no more than the datagrams
\* counted in its queue.
InStep(n) ==
  Ready(n) => Len(responses[n]) + Len(requests[n]) <= waitingQ[n].amountOfEntries

IInv == TypeOK /\ \A n \in Node : Shaped(waitingQ[n]) /\ InStep(n)

-----------------------------------------------------------------------------
(* Lemmas about the operators.                                             *)

\* a counts the answers under way and r the requests, for a queue of e entries.
LEMMA CountsGrow ==
  ASSUME NEW a \in Nat, NEW r \in Nat, NEW e \in Int, a + r <= e,
         NEW r2 \in Nat, r2 <= r + 1
  PROVE  a + r2 <= e + 1
OBVIOUS

LEMMA CountsShrink ==
  ASSUME NEW a \in Nat, NEW r \in Nat, NEW e \in Int, a + r <= e
  PROVE  (a - 1) + r <= e - 1
OBVIOUS

LEMMA CountsPositive ==
  ASSUME NEW a \in Nat \ {0}, NEW r \in Nat, NEW e \in Int, a + r <= e
  PROVE  e > 0
OBVIOUS

LEMMA CountsMove ==
  ASSUME NEW a \in Nat, NEW r \in Nat PROVE (a + 1) + (r - 1) = a + r
OBVIOUS

LEMMA CountsFewer ==
  ASSUME NEW a \in Nat, NEW r \in Nat, NEW e \in Int, a + r <= e,
         NEW a2 \in Nat, NEW r2 \in Nat, a2 <= a, r2 <= r
  PROVE  a2 + r2 <= e
OBVIOUS

LEMMA CountsSum ==
  ASSUME NEW a \in Nat, NEW r \in Nat, a + r > 0
  PROVE  /\ 1 \in 1 .. (a + r)
         /\ IF a > 0 THEN 1 <= a ELSE ~(1 <= a) /\ 1 - a = 1
OBVIOUS

LEMMA CountsAppend ==
  ASSUME NEW a \in Nat, NEW r \in Nat, NEW e \in Int, a + r = e
  PROVE  a + (r + 1) = e + 1 /\ e + 1 > 0
OBVIOUS

LEMMA CountsZero ==
  ASSUME NEW a \in Nat, NEW r \in Nat, a + r = 0 PROVE a = 0 /\ r = 0
OBVIOUS

LEMMA CountsSome ==
  ASSUME NEW a \in Nat, NEW r \in Nat, NEW e \in Int, a + r = e, e # 0
  PROVE  e > 0 /\ (a = 0 => r > 0)
OBVIOUS

LEMMA CountsTake ==
  ASSUME NEW a \in Nat \ {0}, NEW r \in Nat, NEW e \in Int, a + r = e, e - 1 = 0
  PROVE  (a - 1) + r = 0
OBVIOUS

\* What is written to a bit field is a value of the bit field.
LEMMA HeaderTtlInRange == ASSUME NEW t \in AppTtl PROVE HeaderTtl(t) \in Ttl
<1>1. t \in Nat /\ TtlSize \in Nat /\ TtlSize > 0
  BY TtlAssumption DEF TtlSize
<1>2. t % TtlSize \in 0 .. (TtlSize - 1)
  BY <1>1
<1> QED
  BY <1>2, TtlAssumption DEF HeaderTtl, Ttl, TtlSize

LEMMA TtlLeftInRange == ASSUME NEW p \in Packet PROVE TtlLeft(p) \in Ttl
<1>1. TtlSize \in Nat /\ TtlSize > 0 /\ p.ttl - 1 + TtlSize \in Nat
  BY TtlAssumption DEF TtlSize, Packet, Ttl
<1>2. (p.ttl - 1 + TtlSize) % TtlSize \in 0 .. (TtlSize - 1)
  BY <1>1
<1> QED
  BY <1>2, TtlAssumption DEF TtlLeft, Ttl, TtlSize

\* Ask writes at most one request.
LEMMA AskAddsOne ==
  ASSUME IInv, NEW n \in Node, NEW d \in Node, Ask(n, d)
  PROVE  /\ requests' \in [Node -> Seq(Node)]
         /\ \A m \in Node \ {n} : requests'[m] = requests[m]
         /\ Len(requests'[n]) <= Len(requests[n]) + 1
<1>1. requests \in [Node -> Seq(Node)]
  BY DEF IInv, TypeOK
<1>2. Append(requests[n], d) \in Seq(Node) /\ Len(Append(requests[n], d)) = Len(requests[n]) + 1
  BY <1>1, AppendProperties
<1>3. Len(requests[n]) \in Nat
  BY <1>1
<1>4. CASE routing[n] = "open"
  BY <1>1, <1>2, <1>3, <1>4 DEF Ask
<1>5. CASE routing[n] # "open"
  BY <1>1, <1>3, <1>5 DEF Ask
<1> QED
  BY <1>4, <1>5

\* A datagram and its request enter at n, in either order.
LEMMA EnqueueAndAsk ==
  ASSUME IInv, NEW n \in Node, Ready(n), NEW p \in Packet, Enqueue(n, p),
         \/ UNCHANGED requests
         \/ \E d \in Node : Ask(n, d),
         UNCHANGED responses
  PROVE  /\ waitingQ' \in [Node -> Queue]
         /\ requests' \in [Node -> Seq(Node)]
         /\ \A m \in Node : Shaped(waitingQ'[m]) /\ InStep(m)'
<1>1. /\ waitingQ \in [Node -> Queue] /\ requests \in [Node -> Seq(Node)]
      /\ responses \in [Node -> Seq(Answer)]
      /\ Shaped(waitingQ[n]) /\ Working(waitingQ[n])
  BY DEF IInv, TypeOK, Ready
<1>2. PICK a \in Unused(waitingQ[n].heap) :
        waitingQ' = [waitingQ EXCEPT ![n] = Push(waitingQ[n], p, a)]
  BY DEF Enqueue
<1>3. Push(waitingQ[n], p, a) \in Queue /\ Shaped(Push(waitingQ[n], p, a))
  BY <1>1, DataAssumption, PushShaped
<1>4. /\ requests' \in [Node -> Seq(Node)]
      /\ \A m \in Node \ {n} : requests'[m] = requests[m]
      /\ Len(requests'[n]) <= Len(requests[n]) + 1
  <2>1. CASE UNCHANGED requests
    <3>1. Len(requests[n]) \in Nat
      BY <1>1
    <3> QED
      BY <1>1, <2>1, <3>1
  <2>2. ASSUME NEW d \in Node, Ask(n, d) PROVE <1>4!1 /\ <1>4!2 /\ <1>4!3
    BY <2>2, AskAddsOne
  <2> QED
    BY <2>1, <2>2
<1>5. /\ waitingQ' \in [Node -> Queue]
      /\ waitingQ'[n] = Push(waitingQ[n], p, a)
      /\ \A m \in Node \ {n} : waitingQ'[m] = waitingQ[m]
  BY <1>1, <1>2, <1>3
<1>6. InStep(n)'
  <2> SUFFICES ASSUME Working(waitingQ'[n])
               PROVE  Len(responses'[n]) + Len(requests'[n]) <= waitingQ'[n].amountOfEntries
    BY DEF InStep, Ready, Working
  <2>1. waitingQ'[n].amountOfEntries = waitingQ[n].amountOfEntries + 1
    BY <1>1, <1>5, DataAssumption, RoomAssumption, PushCounts
  <2>2. /\ Len(responses[n]) \in Nat /\ Len(requests[n]) \in Nat
        /\ Len(requests'[n]) \in Nat /\ waitingQ[n].amountOfEntries \in Int
    BY <1>1, <1>4, QueueIsRecord
  <2>3. Len(responses[n]) + Len(requests[n]) <= waitingQ[n].amountOfEntries
    BY DEF IInv, InStep
  <2>4. responses'[n] = responses[n]
    OBVIOUS
  <2>5. Len(responses[n]) + Len(requests'[n]) <= waitingQ[n].amountOfEntries + 1
    BY <1>4, <2>2, <2>3, CountsGrow, Zenon
  <2> QED
    BY <2>1, <2>4, <2>5, Zenon
<1>7. ASSUME NEW m \in Node \ {n} PROVE Shaped(waitingQ'[m]) /\ InStep(m)'
  <2>1. Shaped(waitingQ[m]) /\ InStep(m)
    BY DEF IInv
  <2>2. waitingQ'[m] = waitingQ[m] /\ requests'[m] = requests[m] /\ responses'[m] = responses[m]
    BY <1>4, <1>5
  <2> QED
    BY <2>1, <2>2 DEF InStep, Ready, Working
<1> QED
  BY <1>3, <1>4, <1>5, <1>6, <1>7

-----------------------------------------------------------------------------
(* The initial states and the steps.                                       *)

LEMMA InitInStep == Init => IInv
<1> SUFFICES ASSUME Init PROVE IInv
  OBVIOUS
<1>1. TypeOK
  BY CreateShaped, PacketsAssumption DEF Init, TypeOK, RoutingState
<1>2. \A n \in Node : Shaped(waitingQ[n]) /\ InStep(n)
  BY CreateShaped DEF Init, InStep, CreateQ, Shaped
<1> QED
  BY <1>1, <1>2 DEF IInv

\* Steps that leave the queue and both sockets alone.
LEMMA OthersInStep ==
  ASSUME IInv, UNCHANGED <<waitingQ, requests, responses>>
  PROVE  \A n \in Node : Shaped(waitingQ'[n]) /\ InStep(n)'
BY DEF IInv, InStep, Ready, Working

LEMMA EchoToSelfInStep ==
  ASSUME IInv, NEW n \in Node, EchoToSelf(n) PROVE IInv'
<1>1. sent' \in 1 .. MaxPackets /\ UNCHANGED <<waitingQ, requests, responses, routing, wire>>
  BY PacketsAssumption DEF EchoToSelf, IInv, TypeOK
<1>2. TypeOK'
  BY <1>1 DEF EchoToSelf, IInv, TypeOK
<1> QED
  BY <1>1, <1>2, OthersInStep DEF IInv

LEMMA DiscardApplicationPacketInStep ==
  ASSUME IInv, NEW n \in Node, DiscardApplicationPacket(n) PROVE IInv'
<1>1. sent' \in 1 .. MaxPackets
      /\ UNCHANGED <<waitingQ, requests, responses, routing, wire, delivered>>
  BY PacketsAssumption DEF DiscardApplicationPacket, IInv, TypeOK
<1>2. TypeOK'
  BY <1>1 DEF IInv, TypeOK
<1> QED
  BY <1>1, <1>2, OthersInStep DEF IInv

LEMMA HandleApplicationPacketInStep ==
  ASSUME IInv, NEW n \in Node, NEW d \in Node, NEW t \in AppTtl,
         HandleApplicationPacket(n, d, t)
  PROVE  IInv'
<1> DEFINE p == [id |-> sent', src |-> n, dst |-> d, ttl |-> HeaderTtl(t)]
<1>1. sent' \in 1 .. MaxPackets /\ UNCHANGED <<responses, routing, wire, delivered>>
  BY PacketsAssumption DEF HandleApplicationPacket, IInv, TypeOK
<1>2. p \in Packet
  BY <1>1, HeaderTtlInRange DEF Packet
<1>3. Ready(n) /\ Ask(n, d) /\ Enqueue(n, p)
  BY DEF HandleApplicationPacket
<1>4. /\ waitingQ' \in [Node -> Queue]
      /\ requests' \in [Node -> Seq(Node)]
      /\ \A m \in Node : Shaped(waitingQ'[m]) /\ InStep(m)'
  <2> HIDE DEF p
  <2> QED
    BY <1>1, <1>2, <1>3, EnqueueAndAsk
<1> QED
  BY <1>1, <1>4 DEF IInv, TypeOK

LEMMA HandleRawPacketInStep ==
  ASSUME IInv, NEW f \in wire, HandleRawPacket(f) PROVE IInv'
<1>1. f.to \in Node /\ f.pkt \in Packet
  BY DEF IInv, TypeOK
<1>2. wire' \subseteq wire /\ UNCHANGED <<responses, routing, sent>>
  BY DEF HandleRawPacket
<1>3. CASE DeliverPing(f)
  <2>1. <<f.to, f.pkt.id>> \in Node \X (1 .. MaxPackets)
    BY <1>1 DEF Packet
  <2>2. TypeOK'
    BY <1>2, <1>3, <2>1 DEF DeliverPing, IInv, TypeOK
  <2> QED
    BY <1>2, <1>3, <2>2, OthersInStep DEF DeliverPing, IInv
<1>4. CASE DiscardPing(f)
  <2>1. TypeOK'
    BY <1>2, <1>4 DEF DiscardPing, IInv, TypeOK
  <2> QED
    BY <1>2, <1>4, <2>1, OthersInStep DEF DiscardPing, IInv
<1>5. CASE ForwardPing(f)
  <2> DEFINE p == [f.pkt EXCEPT !.ttl = TtlLeft(f.pkt)]
  <2>1. p \in Packet
    BY <1>1, TtlLeftInRange DEF Packet
  <2>2. /\ Ready(f.to) /\ Enqueue(f.to, p) /\ UNCHANGED delivered
        /\ UNCHANGED requests \/ Ask(f.to, f.pkt.dst)
    BY <1>5 DEF ForwardPing, HandleRawPacket
  <2>3. f.pkt.dst \in Node
    BY <1>1 DEF Packet
  <2>4. /\ waitingQ' \in [Node -> Queue]
        /\ requests' \in [Node -> Seq(Node)]
        /\ \A m \in Node : Shaped(waitingQ'[m]) /\ InStep(m)'
    <3> HIDE DEF p
    <3> QED
      BY <1>1, <1>2, <2>1, <2>2, <2>3, EnqueueAndAsk
  <2> QED
    BY <1>2, <2>2, <2>4 DEF IInv, TypeOK
<1> QED
  BY <1>3, <1>4, <1>5 DEF HandleRawPacket

\* A pop by a daemon that has read an answer finds a datagram counted.
LEMMA AnswerFindsDatagram ==
  ASSUME IInv, NEW n \in Node, Ready(n), responses[n] # <<>>
  PROVE  /\ waitingQ[n] \in Queue /\ Shaped(waitingQ[n]) /\ Working(waitingQ[n])
         /\ waitingQ[n].amountOfEntries > 0
<1>1. /\ waitingQ[n] \in Queue /\ Shaped(waitingQ[n]) /\ Working(waitingQ[n])
      /\ responses[n] \in Seq(Answer) /\ requests[n] \in Seq(Node)
      /\ Len(responses[n]) + Len(requests[n]) <= waitingQ[n].amountOfEntries
  BY DEF IInv, TypeOK, Ready, InStep
<1>2. Len(responses[n]) \in Nat \ {0} /\ Len(requests[n]) \in Nat
      /\ waitingQ[n].amountOfEntries \in Int
  BY <1>1, QueueIsRecord
<1>3. waitingQ[n].amountOfEntries > 0
  BY <1>1, <1>2, CountsPositive, Zenon
<1> QED
  BY <1>1, <1>3

LEMMA HandleRoutingPacketInStep ==
  ASSUME IInv, NEW n \in Node, HandleRoutingPacket(n) PROVE IInv'
<1> DEFINE q == waitingQ[n]
           hop == Head(responses[n]).next_hop
<1>1. /\ q \in Queue /\ Shaped(q) /\ Working(q) /\ q.amountOfEntries > 0
      /\ responses[n] \in Seq(Answer) /\ responses[n] # <<>>
      /\ requests[n] \in Seq(Node)
  BY AnswerFindsDatagram DEF HandleRoutingPacket, IInv, TypeOK
<1>2. /\ Head(responses[n]) \in Answer
      /\ Tail(responses[n]) \in Seq(Answer)
      /\ Len(responses[n]) \in Nat \ {0}
      /\ Len(Tail(responses[n])) = Len(responses[n]) - 1
      /\ Len(requests[n]) \in Nat
  BY <1>1
<1>3. /\ Pop(q) \in Queue /\ Shaped(Pop(q))
      /\ Working(Pop(q)) => Pop(q).amountOfEntries = q.amountOfEntries - 1
  BY <1>1, PopShaped
<1>4. /\ responses' = [responses EXCEPT ![n] = Tail(responses[n])]
      /\ waitingQ' = [waitingQ EXCEPT ![n] = Pop(q)]
      /\ UNCHANGED <<requests, routing, delivered, sent>>
  BY DEF HandleRoutingPacket, Answered
<1>5. wire' \subseteq [to : Node, pkt : Packet]
  <2>1. CASE Sends(q, hop)
    <3>1. hop \in Node
      BY <1>2, <2>1 DEF Sends, Answer
    <3>2. Popped(q) \in Packet
      BY <1>1, <2>1, DataAssumption, HeadIsEntry DEF Sends
    <3>3. wire' = wire \cup {[to |-> hop, pkt |-> Popped(q)]}
      BY <2>1 DEF HandleRoutingPacket
    <3> HIDE DEF hop, q
    <3> QED
      BY <3>1, <3>2, <3>3 DEF IInv, TypeOK
  <2>2. CASE ~Sends(q, hop)
    BY <2>2 DEF HandleRoutingPacket, IInv, TypeOK
  <2> QED
    BY <2>1, <2>2
<1> HIDE DEF hop
<1>6. TypeOK'
  <2> HIDE DEF q
  <2> QED
    BY <1>2, <1>3, <1>4, <1>5 DEF IInv, TypeOK
<1>7. Shaped(waitingQ'[n]) /\ InStep(n)'
  <2>1. waitingQ'[n] = Pop(q) /\ responses'[n] = Tail(responses[n]) /\ requests'[n] = requests[n]
    BY <1>4 DEF IInv, TypeOK
  <2>2. Len(responses[n]) + Len(requests[n]) <= q.amountOfEntries
    BY <1>1 DEF IInv, InStep, Ready
  <2>3. q.amountOfEntries \in Int
    BY <1>1, QueueIsRecord
  <2>4. ASSUME Working(waitingQ'[n])
        PROVE  Len(responses'[n]) + Len(requests'[n]) <= waitingQ'[n].amountOfEntries
    <3>1. waitingQ'[n].amountOfEntries = q.amountOfEntries - 1
      BY <1>3, <2>1, <2>4
    <3>2. Len(responses'[n]) = Len(responses[n]) - 1 /\ Len(requests'[n]) = Len(requests[n])
      BY <1>2, <2>1
    <3>3. (Len(responses[n]) - 1) + Len(requests[n]) <= q.amountOfEntries - 1
      <4>1. Len(responses[n]) \in Nat
        BY <1>2
      <4> QED
        BY <1>2, <2>2, <2>3, <4>1, CountsShrink, Zenon
    <3> QED
      BY <3>1, <3>2, <3>3, Zenon
  <2> QED
    BY <1>3, <2>1, <2>4 DEF InStep, Ready, Working
<1>8. ASSUME NEW m \in Node \ {n} PROVE Shaped(waitingQ'[m]) /\ InStep(m)'
  BY <1>4 DEF InStep, Ready, Working, IInv, TypeOK
<1> QED
  BY <1>6, <1>7, <1>8 DEF IInv

LEMMA AnswerRequestInStep ==
  ASSUME IInv, NEW n \in Node, AnswerRequest(n) PROVE IInv'
<1>1. /\ requests[n] \in Seq(Node) /\ requests[n] # <<>>
      /\ responses[n] \in Seq(Answer)
  BY DEF AnswerRequest, IInv, TypeOK
<1>2. /\ Head(requests[n]) \in Node
      /\ Tail(requests[n]) \in Seq(Node)
      /\ Len(requests[n]) \in Nat
      /\ Len(Tail(requests[n])) = Len(requests[n]) - 1
  BY <1>1
<1>3. PICK hop \in Answers[n][Head(requests[n])] :
        responses' = [responses EXCEPT ![n] =
          Append(responses[n], [dst |-> Head(requests[n]), next_hop |-> hop])]
  BY DEF AnswerRequest
<1> DEFINE a == [dst |-> Head(requests[n]), next_hop |-> hop]
<1>4. a \in Answer
  BY <1>2, <1>3, AnswersAssumption DEF Answer
<1> HIDE DEF a
<1>5. /\ Append(responses[n], a) \in Seq(Answer)
      /\ Len(responses[n]) \in Nat
      /\ Len(Append(responses[n], a)) = Len(responses[n]) + 1
  BY <1>1, <1>4
<1>6. /\ responses' = [responses EXCEPT ![n] = Append(responses[n], a)]
      /\ requests' = [requests EXCEPT ![n] = Tail(requests[n])]
      /\ UNCHANGED <<waitingQ, routing, wire, delivered, sent>>
  BY <1>3 DEF AnswerRequest, a
<1>7. TypeOK'
  BY <1>2, <1>5, <1>6 DEF IInv, TypeOK
<1>8. InStep(n)'
  <2>1. /\ responses'[n] = Append(responses[n], a) /\ requests'[n] = Tail(requests[n])
        /\ waitingQ'[n] = waitingQ[n]
    BY <1>6 DEF IInv, TypeOK
  <2>2. Len(responses'[n]) + Len(requests'[n]) = Len(responses[n]) + Len(requests[n])
    <3>1. Len(responses'[n]) = Len(responses[n]) + 1 /\ Len(requests'[n]) = Len(requests[n]) - 1
      BY <1>2, <1>5, <2>1
    <3> QED
      BY <1>2, <1>5, <3>1, CountsMove, Zenon
  <2> QED
    BY <2>1, <2>2 DEF InStep, Ready, Working, IInv
<1>9. ASSUME NEW m \in Node \ {n} PROVE InStep(m)'
  BY <1>6 DEF InStep, Ready, Working, IInv, TypeOK
<1> QED
  BY <1>6, <1>7, <1>8, <1>9 DEF IInv

\* What is lost makes no answer too many.
LEMMA FewerInStep ==
  ASSUME IInv, NEW n \in Node, UNCHANGED waitingQ,
         responses'[n] = responses[n] \/ responses'[n] = <<>>,
         requests'[n] = requests[n] \/ requests'[n] = <<>>
  PROVE  InStep(n)'
<1>1. Len(requests[n]) \in Nat /\ Len(responses[n]) \in Nat
      /\ waitingQ[n].amountOfEntries \in Int
  BY QueueIsRecord DEF IInv, TypeOK
<1>2. Len(responses'[n]) \in Nat /\ Len(responses'[n]) <= Len(responses[n])
      /\ Len(requests'[n]) \in Nat /\ Len(requests'[n]) <= Len(requests[n])
  BY <1>1
<1>3. ASSUME Ready(n)
      PROVE  Len(responses'[n]) + Len(requests'[n]) <= waitingQ[n].amountOfEntries
  <2>1. Len(responses[n]) + Len(requests[n]) <= waitingQ[n].amountOfEntries
    BY <1>3, Zenon DEF IInv, InStep
  <2> QED
    BY <1>1, <1>2, <2>1, CountsFewer, Zenon
<1> QED
  BY <1>3 DEF InStep, Ready, Working

LEMMA RoutingStopsInStep ==
  ASSUME IInv, NEW n \in Node, RoutingStops(n) PROVE IInv'
<1>1. /\ requests' = [requests EXCEPT ![n] = <<>>]
      /\ \E r \in {"closed", "reset"} : routing' = [routing EXCEPT ![n] = r]
      /\ UNCHANGED <<waitingQ, responses, wire, delivered, sent>>
  BY DEF RoutingStops
<1>2. TypeOK'
  BY <1>1 DEF IInv, TypeOK, RoutingState
<1>3. ASSUME NEW m \in Node PROVE InStep(m)'
  BY <1>1, FewerInStep DEF IInv, TypeOK
<1> QED
  BY <1>1, <1>2, <1>3 DEF IInv

LEMMA HandleHangupInStep ==
  ASSUME IInv, NEW n \in Node, HandleHangup(n) PROVE IInv'
<1>1. /\ responses' = [responses EXCEPT ![n] = <<>>]
      /\ routing' = [routing EXCEPT ![n] = "none"]
      /\ UNCHANGED <<waitingQ, requests, wire, delivered, sent>>
  BY DEF HandleHangup
<1>2. TypeOK'
  BY <1>1 DEF IInv, TypeOK, RoutingState
<1>3. ASSUME NEW m \in Node PROVE InStep(m)'
  BY <1>1, FewerInStep DEF IInv, TypeOK
<1> QED
  BY <1>1, <1>2, <1>3 DEF IInv

LEMMA RoutingConnectsInStep ==
  ASSUME IInv, NEW n \in Node, RoutingConnects(n) PROVE IInv'
<1>1. /\ routing' = [routing EXCEPT ![n] = "open"]
      /\ UNCHANGED <<waitingQ, requests, responses, wire, delivered, sent>>
  BY DEF RoutingConnects
<1>2. TypeOK'
  BY <1>1 DEF IInv, TypeOK, RoutingState
<1> QED
  BY <1>1, <1>2, OthersInStep DEF IInv

LEMMA StepInStep ==
  ASSUME IInv, [Next]_vars PROVE IInv'
<1>1. ASSUME NEW n \in Node, EchoToSelf(n) PROVE IInv'
  BY <1>1, EchoToSelfInStep
<1>2. ASSUME NEW n \in Node, DiscardApplicationPacket(n) PROVE IInv'
  BY <1>2, DiscardApplicationPacketInStep
<1>3. ASSUME NEW n \in Node, NEW d \in Node, NEW t \in AppTtl,
             HandleApplicationPacket(n, d, t)
      PROVE  IInv'
  BY <1>3, HandleApplicationPacketInStep
<1>4. ASSUME NEW n \in Node, HandleRoutingPacket(n) PROVE IInv'
  BY <1>4, HandleRoutingPacketInStep
<1>5. ASSUME NEW n \in Node, AnswerRequest(n) PROVE IInv'
  BY <1>5, AnswerRequestInStep
<1>6. ASSUME NEW n \in Node, RoutingStops(n) PROVE IInv'
  BY <1>6, RoutingStopsInStep
<1>7. ASSUME NEW n \in Node, HandleHangup(n) PROVE IInv'
  BY <1>7, HandleHangupInStep
<1>8. ASSUME NEW n \in Node, RoutingConnects(n) PROVE IInv'
  BY <1>8, RoutingConnectsInStep
<1>9. ASSUME NEW f \in wire, HandleRawPacket(f) PROVE IInv'
  BY <1>9, HandleRawPacketInStep
<1>10. CASE UNCHANGED vars
  BY <1>10 DEF vars, IInv, TypeOK, InStep, Ready, Working
<1> QED
  BY <1>1, <1>2, <1>3, <1>4, <1>5, <1>6, <1>7, <1>8, <1>9, <1>10 DEF Next

-----------------------------------------------------------------------------
(* What is under way, oldest first.                                        *)

Oldest(n) == IF responses[n] # <<>> THEN responses[n][1].dst ELSE requests[n][1]

LEMMA OutstandingIs ==
  ASSUME IInv, NEW n \in Node
  PROVE  /\ Len(Outstanding(n)) = Len(responses[n]) + Len(requests[n])
         /\ Len(Outstanding(n)) > 0 => Outstanding(n)[1] = Oldest(n)
<1> DEFINE r == [i \in 1 .. Len(responses[n]) |-> responses[n][i].dst]
<1>1. responses[n] \in Seq(Answer) /\ requests[n] \in Seq(Node)
  BY DEF IInv, TypeOK
<1>2. Len(responses[n]) \in Nat /\ Len(requests[n]) \in Nat
  BY <1>1
<1>3. ASSUME NEW i \in 1 .. Len(responses[n]) PROVE responses[n][i].dst \in Node
  <2>1. responses[n][i] \in Answer
    BY <1>1, ElementOfSeq
  <2> QED
    BY <2>1 DEF Answer
<1>4. r \in Seq(Node) /\ Len(r) = Len(responses[n])
      /\ (Len(responses[n]) > 0 => r[1] = responses[n][1].dst)
  BY <1>2, <1>3
<1>5. responses[n] # <<>> <=> Len(responses[n]) > 0
  BY <1>1, <1>2, EmptySeq
<1> HIDE DEF r
<1>6. /\ Len(r \o requests[n]) = Len(r) + Len(requests[n])
      /\ \A i \in 1 .. (Len(r) + Len(requests[n])) :
           (r \o requests[n])[i] = IF i <= Len(r) THEN r[i] ELSE requests[n][i - Len(r)]
  BY <1>1, <1>4, ConcatProperties, ZenonT(30)
<1>7. Outstanding(n) = r \o requests[n]
  BY DEF Outstanding, r
<1>8. ASSUME Len(r) + Len(requests[n]) > 0
      PROVE  (r \o requests[n])[1] = Oldest(n)
  <2>1. Len(r) \in Nat
    BY <1>2, <1>4
  <2>2. /\ 1 \in 1 .. (Len(r) + Len(requests[n]))
        /\ IF Len(r) > 0 THEN 1 <= Len(r) ELSE ~(1 <= Len(r)) /\ 1 - Len(r) = 1
    BY <1>2, <1>8, <2>1, CountsSum, Zenon
  <2>3. (r \o requests[n])[1] = IF 1 <= Len(r) THEN r[1] ELSE requests[n][1 - Len(r)]
    BY <1>6, <2>2, Zenon
  <2>4. CASE Len(r) > 0
    <3>1. responses[n] # <<>> /\ r[1] = responses[n][1].dst
      BY <1>4, <1>5, <2>4, Zenon
    <3> QED
      BY <2>2, <2>3, <2>4, <3>1, Zenon DEF Oldest
  <2>5. CASE ~(Len(r) > 0)
    <3>1. ~(responses[n] # <<>>)
      BY <1>4, <1>5, <2>5, Zenon
    <3> QED
      BY <2>2, <2>3, <2>5, <3>1, Zenon DEF Oldest
  <2> QED
    BY <2>4, <2>5
<1> QED
  BY <1>4, <1>6, <1>7, <1>8, Zenon

LEMMA InStepFindsDatagram == IInv => PopFindsDatagram
<1> SUFFICES ASSUME IInv, NEW n \in Node
             PROVE  /\ Ready(n) => Len(Outstanding(n)) <= waitingQ[n].amountOfEntries
                    /\ waitingQ[n].amountOfEntries = 0 => waitingQ[n].state = "ok"
  BY DEF PopFindsDatagram
<1>1. Shaped(waitingQ[n]) /\ InStep(n)
  BY DEF IInv
<1>2. Len(Outstanding(n)) = Len(responses[n]) + Len(requests[n])
  BY OutstandingIs
<1>3. Ready(n) => Len(Outstanding(n)) <= waitingQ[n].amountOfEntries
  BY <1>1, <1>2, Zenon DEF InStep
<1>4. waitingQ[n].amountOfEntries = 0 => waitingQ[n].state = "ok"
  BY <1>1 DEF Shaped, Empty, Single, Looped, HeadFreed
<1> QED
  BY <1>3, <1>4

-----------------------------------------------------------------------------
(* The steps that change a queue.                                          *)

Pushes(n) == Ready(n) /\ \E p \in Packet : Enqueue(n, p)

\* Every other step leaves the queues alone.
LEMMA StepOfQueues ==
  ASSUME IInv, Next
  PROVE  \/ UNCHANGED waitingQ
         \/ \E n \in Node : Pushes(n)
         \/ \E n \in Node : HandleRoutingPacket(n)
<1>1. ASSUME NEW n \in Node, NEW d \in Node, NEW t \in AppTtl,
             HandleApplicationPacket(n, d, t)
      PROVE  Pushes(n)
  <2> DEFINE p == [id |-> sent', src |-> n, dst |-> d, ttl |-> HeaderTtl(t)]
  <2>1. sent' \in 1 .. MaxPackets
    BY <1>1, PacketsAssumption DEF HandleApplicationPacket, IInv, TypeOK
  <2>2. p \in Packet
    BY <2>1, HeaderTtlInRange DEF Packet
  <2> QED
    BY <1>1, <2>2 DEF HandleApplicationPacket, Pushes
<1>2. ASSUME NEW f \in wire, HandleRawPacket(f)
      PROVE  UNCHANGED waitingQ \/ \E n \in Node : Pushes(n)
  <2>1. f.to \in Node /\ f.pkt \in Packet
    BY DEF IInv, TypeOK
  <2> DEFINE p == [f.pkt EXCEPT !.ttl = TtlLeft(f.pkt)]
  <2>2. p \in Packet
    BY <2>1, TtlLeftInRange DEF Packet
  <2>3. CASE ForwardPing(f)
    <3>1. Ready(f.to) /\ Enqueue(f.to, p)
      BY <1>2, <2>3 DEF ForwardPing, HandleRawPacket
    <3> HIDE DEF p
    <3> QED
      BY <2>1, <2>2, <3>1 DEF Pushes
  <2> QED
    BY <1>2, <2>3 DEF HandleRawPacket, DeliverPing, DiscardPing
<1>3. ASSUME NEW n \in Node,
             \/ EchoToSelf(n) \/ DiscardApplicationPacket(n) \/ AnswerRequest(n)
             \/ RoutingStops(n) \/ HandleHangup(n) \/ RoutingConnects(n)
      PROVE  UNCHANGED waitingQ
  BY <1>3 DEF EchoToSelf, DiscardApplicationPacket, AnswerRequest, RoutingStops,
              HandleHangup, RoutingConnects
<1> QED
  BY <1>1, <1>2, <1>3 DEF Next

LEMMA StepBreaksAtTwo ==
  ASSUME IInv, [Next]_vars, NEW m \in Node,
         waitingQ[m].state = "ok", waitingQ'[m].state # "ok"
  PROVE  waitingQ[m].amountOfEntries = 2
<1>1. waitingQ \in [Node -> Queue] /\ \A n \in Node : Shaped(waitingQ[n])
  BY DEF IInv, TypeOK
<1>2. CASE UNCHANGED waitingQ
  BY <1>2
<1>3. ASSUME NEW n \in Node, Pushes(n) PROVE waitingQ[m].amountOfEntries = 2
  <2>1. PICK p \in Packet, a \in Unused(waitingQ[n].heap) :
          waitingQ' = [waitingQ EXCEPT ![n] = Push(waitingQ[n], p, a)]
    BY <1>3 DEF Pushes, Enqueue
  <2>2. m = n /\ waitingQ'[n] = Push(waitingQ[n], p, a)
    BY <1>1, <2>1
  <2> QED
    BY <1>1, <1>3, <2>2, DataAssumption, PushShaped DEF Pushes, Ready
<1>4. ASSUME NEW n \in Node, HandleRoutingPacket(n) PROVE waitingQ[m].amountOfEntries = 2
  <2>1. waitingQ' = [waitingQ EXCEPT ![n] = Pop(waitingQ[n])] /\ Ready(n) /\ responses[n] # <<>>
    BY <1>4 DEF HandleRoutingPacket, Answered
  <2>2. m = n /\ waitingQ'[n] = Pop(waitingQ[n])
    BY <1>1, <2>1
  <2>3. Working(waitingQ[n]) /\ waitingQ[n].amountOfEntries > 0
    BY <2>1, AnswerFindsDatagram
  <2> QED
    BY <1>1, <2>2, <2>3, PopShaped
<1>5. UNCHANGED vars => UNCHANGED waitingQ
  BY DEF vars
<1> QED
  BY <1>2, <1>3, <1>4, <1>5, StepOfQueues

-----------------------------------------------------------------------------
(* Answers and questions while the routing daemon of n stays connected.    *)

Open(n) == routing[n] = "open"

\* AnswerIsForHead in terms of the two sockets.
ForHead(n) ==
  waitingQ[n].state = "ok" =>
    /\ Len(responses[n]) + Len(requests[n]) = waitingQ[n].amountOfEntries
    /\ waitingQ[n].amountOfEntries > 0 => Popped(waitingQ[n]).dst = Oldest(n)

LEMMA ForHeadSuffices ==
  ASSUME IInv, NEW n \in Node, ForHead(n) PROVE AnswerIsForHead(n)
<1>1. /\ Len(Outstanding(n)) = Len(responses[n]) + Len(requests[n])
      /\ Len(Outstanding(n)) > 0 => Outstanding(n)[1] = Oldest(n)
  BY OutstandingIs
<1> QED
  BY <1>1, Zenon DEF ForHead, AnswerIsForHead

\* What does not concern n.
LEMMA ElsewhereForHead ==
  ASSUME NEW n \in Node, ForHead(n), waitingQ'[n] = waitingQ[n],
         responses'[n] = responses[n], requests'[n] = requests[n]
  PROVE  ForHead(n)'
BY DEF ForHead, Oldest, Popped

\* A datagram enters with the request for its destination, or a push hangs.
LEMMA EnqueueForHead ==
  ASSUME IInv, NEW n \in Node, Ready(n), ForHead(n), NEW p \in Packet, Enqueue(n, p),
         waitingQ'[n].state = "ok" =>
           requests' = [requests EXCEPT ![n] = Append(@, p.dst)],
         UNCHANGED responses
  PROVE  ForHead(n)'
<1> SUFFICES ASSUME waitingQ'[n].state = "ok"
             PROVE  /\ Len(responses'[n]) + Len(requests'[n]) = waitingQ'[n].amountOfEntries
                    /\ Popped(waitingQ'[n]).dst = Oldest(n)'
  BY DEF ForHead, Popped
<1>1. /\ waitingQ \in [Node -> Queue] /\ Shaped(waitingQ[n]) /\ Working(waitingQ[n])
      /\ requests \in [Node -> Seq(Node)] /\ responses \in [Node -> Seq(Answer)]
  BY DEF IInv, TypeOK, Ready
<1>2. PICK a \in Unused(waitingQ[n].heap) :
        waitingQ' = [waitingQ EXCEPT ![n] = Push(waitingQ[n], p, a)]
  BY DEF Enqueue
<1> DEFINE q == waitingQ[n]
           r == waitingQ'[n]
           e == q.amountOfEntries
<1>3. r = Push(q, p, a)
  BY <1>1, <1>2
<1>4. q.state = "ok"
  BY <1>1, <1>3, DataAssumption, RoomAssumption, MaxElementsAssumption, SoundBeforePush
<1>5. r.amountOfEntries = e + 1
  BY <1>1, <1>3, DataAssumption, RoomAssumption, PushCounts DEF Working
<1>6. Popped(r) = IF e = 0 THEN p ELSE Popped(q)
  BY <1>1, <1>3, <1>4, DataAssumption, RoomAssumption, PushKeepsHead
<1>7. p.dst \in Node
  BY DEF Packet
<1>8. requests'[n] = Append(requests[n], p.dst) /\ responses'[n] = responses[n]
  BY <1>1
<1>9. /\ Len(requests[n]) \in Nat /\ Len(responses[n]) \in Nat
      /\ Len(requests'[n]) = Len(requests[n]) + 1
      /\ Len(requests[n]) = 0 => requests'[n][1] = p.dst
      /\ Len(requests[n]) > 0 => requests'[n][1] = requests[n][1]
  BY <1>1, <1>7, <1>8, AppendProperties
<1>10. /\ Len(responses[n]) + Len(requests[n]) = e
       /\ e > 0 => Popped(q).dst = Oldest(n)
  BY <1>4, Zenon DEF ForHead
<1>11. responses[n] = <<>> <=> Len(responses[n]) = 0
  BY <1>1, EmptySeq
<1> HIDE DEF q, r, e
<1>12. e \in Int
  BY <1>1, QueueIsRecord DEF q, e
<1>13. /\ Len(responses[n]) + (Len(requests[n]) + 1) = e + 1 /\ e + 1 > 0
       /\ e = 0 => Len(responses[n]) = 0 /\ Len(requests[n]) = 0
       /\ e # 0 => e > 0
       /\ e # 0 /\ Len(responses[n]) = 0 => Len(requests[n]) > 0
  <2>1. Len(responses[n]) + Len(requests[n]) = e
    BY <1>10, Zenon
  <2>2. Len(responses[n]) \in Nat /\ Len(requests[n]) \in Nat
    BY <1>9, Zenon
  <2>3. Len(responses[n]) + (Len(requests[n]) + 1) = e + 1 /\ e + 1 > 0
    BY <1>12, <2>1, <2>2, CountsAppend, ZenonT(30)
  <2>4. e = 0 => Len(responses[n]) = 0 /\ Len(requests[n]) = 0
    BY <2>1, <2>2, CountsZero, Zenon
  <2>5. e # 0 => e > 0 /\ (Len(responses[n]) = 0 => Len(requests[n]) > 0)
    BY <1>12, <2>1, <2>2, CountsSome, Zenon
  <2> QED
    BY <2>3, <2>4, <2>5, Zenon
<1>14. Len(responses'[n]) + Len(requests'[n]) = waitingQ'[n].amountOfEntries
  BY <1>5, <1>8, <1>9, <1>13, Zenon DEF r
<1>15. Popped(r).dst = Oldest(n)'
  <2>1. CASE e = 0
    <3>1. ~(responses'[n] # <<>>) /\ requests'[n][1] = p.dst /\ Popped(r) = p
      BY <1>6, <1>8, <1>9, <1>11, <1>13, <2>1, Zenon
    <3> QED
      BY <3>1, Zenon DEF Oldest
  <2>2. CASE e # 0
    <3>1. Oldest(n)' = Oldest(n)
      BY <1>8, <1>9, <1>11, <1>13, <2>2, Zenon DEF Oldest
    <3> QED
      BY <1>6, <1>10, <1>13, <2>2, <3>1, Zenon
  <2> QED
    BY <2>1, <2>2
<1> QED
  BY <1>14, <1>15, Zenon DEF r

\* The answer to the oldest request moves it from one socket to the other.
LEMMA AnswerForHead ==
  ASSUME IInv, NEW n \in Node, ForHead(n), AnswerRequest(n)
  PROVE  ForHead(n)'
<1>1. /\ requests \in [Node -> Seq(Node)] /\ responses \in [Node -> Seq(Answer)]
      /\ requests[n] # <<>>
  BY DEF AnswerRequest, IInv, TypeOK
<1>2. PICK hop \in Answers[n][Head(requests[n])] :
        responses' = [responses EXCEPT ![n] =
          Append(responses[n], [dst |-> Head(requests[n]), next_hop |-> hop])]
  BY DEF AnswerRequest
<1> DEFINE a == [dst |-> Head(requests[n]), next_hop |-> hop]
<1>3. Head(requests[n]) \in Node /\ Head(requests[n]) = requests[n][1]
  BY <1>1
<1>4. a \in Answer /\ a.dst = requests[n][1]
  BY <1>2, <1>3, AnswersAssumption DEF Answer
<1> HIDE DEF a
<1>5. /\ responses'[n] = Append(responses[n], a) /\ requests'[n] = Tail(requests[n])
      /\ waitingQ' = waitingQ
  BY <1>1, <1>2 DEF AnswerRequest, a
<1>6. /\ Len(responses[n]) \in Nat /\ Len(requests[n]) \in Nat
      /\ Len(responses'[n]) = Len(responses[n]) + 1
      /\ Len(requests'[n]) = Len(requests[n]) - 1
      /\ responses'[n] # <<>>
      /\ Len(responses[n]) = 0 => responses'[n][1] = a
      /\ Len(responses[n]) > 0 => responses'[n][1] = responses[n][1]
  <2>1. responses[n] \in Seq(Answer) /\ requests[n] \in Seq(Node)
    BY <1>1
  <2>2. /\ Len(requests[n]) \in Nat
        /\ Len(requests'[n]) = Len(requests[n]) - 1
    BY <1>1, <1>5, <2>1, HeadTailProperties
  <2>3. /\ Len(responses[n]) \in Nat
        /\ Len(responses'[n]) = Len(responses[n]) + 1
        /\ responses'[n] # <<>>
        /\ Len(responses[n]) = 0 => responses'[n][1] = a
        /\ Len(responses[n]) > 0 => responses'[n][1] = responses[n][1]
    BY <1>4, <1>5, <2>1, AppendProperties
  <2> QED
    BY <2>2, <2>3
<1>7. responses[n] = <<>> <=> Len(responses[n]) = 0
  BY <1>1, EmptySeq
<1>8. Oldest(n)' = Oldest(n)
  <2>1. CASE Len(responses[n]) = 0
    BY <1>4, <1>6, <1>7, <2>1 DEF Oldest
  <2>2. CASE Len(responses[n]) > 0
    <3>1. responses[n] # <<>>
      BY <1>7, <2>2
    <3> QED
      BY <1>6, <2>2, <3>1 DEF Oldest
  <2> QED
    BY <1>6, <2>1, <2>2
<1>9. Len(responses'[n]) + Len(requests'[n]) = Len(responses[n]) + Len(requests[n])
  BY <1>6, CountsMove, Zenon
<1> QED
  BY <1>5, <1>8, <1>9, Zenon DEF ForHead, Popped

\* A queue that is sound after a pop is empty, and so are both sockets.
LEMMA PopForHead ==
  ASSUME IInv, NEW n \in Node, ForHead(n), HandleRoutingPacket(n)
  PROVE  ForHead(n)'
<1> DEFINE q == waitingQ[n]
<1>1. /\ waitingQ \in [Node -> Queue] /\ responses \in [Node -> Seq(Answer)]
      /\ responses[n] # <<>> /\ q \in Queue /\ Shaped(q) /\ Working(q)
      /\ q.amountOfEntries > 0 /\ requests[n] \in Seq(Node)
  BY AnswerFindsDatagram DEF HandleRoutingPacket, IInv, TypeOK
<1>2. /\ waitingQ'[n] = Pop(q) /\ responses'[n] = Tail(responses[n])
      /\ requests'[n] = requests[n]
  BY <1>1 DEF HandleRoutingPacket, Answered
<1> SUFFICES ASSUME Pop(q).state = "ok" PROVE ForHead(n)'
  BY <1>2 DEF ForHead
<1>3. /\ q.state = "ok" /\ Pop(q).amountOfEntries = 0
      /\ Pop(q).amountOfEntries = q.amountOfEntries - 1
  BY <1>1, PopShaped, SoundBeforePop DEF Working
<1>4. Len(responses[n]) + Len(requests[n]) = q.amountOfEntries
  BY <1>3, Zenon DEF ForHead
<1>5. /\ Len(responses[n]) \in Nat \ {0} /\ Len(requests[n]) \in Nat
      /\ Len(Tail(responses[n])) = Len(responses[n]) - 1
      /\ q.amountOfEntries \in Int
  BY <1>1, QueueIsRecord
<1> HIDE DEF q
<1>6. (Len(responses[n]) - 1) + Len(requests[n]) = 0
  <2>1. q.amountOfEntries - 1 = 0
    BY <1>3, Zenon
  <2> QED
    BY <1>4, <1>5, <2>1, CountsTake, Zenon
<1>7. Len(responses'[n]) + Len(requests'[n]) = 0
  BY <1>2, <1>5, <1>6, Zenon
<1>8. waitingQ'[n].amountOfEntries = 0 /\ ~(0 > 0)
  BY <1>2, <1>3
<1> QED
  BY <1>7, <1>8, Zenon DEF ForHead

LEMMA StepForHead ==
  ASSUME IInv, NEW m \in Node, ForHead(m), Open(m), Open(m)', [Next]_vars
  PROVE  ForHead(m)'
<1>1. /\ waitingQ \in [Node -> Queue]
      /\ requests \in [Node -> Seq(Node)] /\ responses \in [Node -> Seq(Answer)]
      /\ routing \in [Node -> RoutingState]
  BY DEF IInv, TypeOK
<1>2. ASSUME UNCHANGED <<waitingQ, requests, responses>> PROVE ForHead(m)'
  BY <1>2, ElsewhereForHead
<1>3. ASSUME NEW n \in Node, NEW p \in Packet, Ready(n), Enqueue(n, p), UNCHANGED responses,
             waitingQ'[n].state = "ok" => Ask(n, p.dst),
             UNCHANGED requests \/ Ask(n, p.dst)
      PROVE  ForHead(m)'
  <2>1. CASE n = m
    <3>1. waitingQ'[m].state = "ok" => requests' = [requests EXCEPT ![m] = Append(@, p.dst)]
      BY <1>3, <2>1 DEF Ask, Open
    <3> QED
      BY <1>3, <2>1, <3>1, EnqueueForHead
  <2>2. CASE n # m
    <3>1. waitingQ'[m] = waitingQ[m] /\ requests'[m] = requests[m]
      BY <1>1, <1>3, <2>2 DEF Enqueue, Ask
    <3> QED
      BY <1>3, <3>1, ElsewhereForHead
  <2> QED
    BY <2>1, <2>2
<1>4. ASSUME NEW n \in Node, NEW d \in Node, NEW t \in AppTtl,
             HandleApplicationPacket(n, d, t)
      PROVE  ForHead(m)'
  <2> DEFINE p == [id |-> sent', src |-> n, dst |-> d, ttl |-> HeaderTtl(t)]
  <2>1. sent' \in 1 .. MaxPackets
    BY <1>4, PacketsAssumption DEF HandleApplicationPacket, IInv, TypeOK
  <2>2. p \in Packet /\ p.dst = d
    BY <2>1, HeaderTtlInRange DEF Packet
  <2>3. Ready(n) /\ Enqueue(n, p) /\ Ask(n, d) /\ UNCHANGED responses
    BY <1>4 DEF HandleApplicationPacket
  <2> HIDE DEF p
  <2> QED
    BY <1>3, <2>2, <2>3
<1>5. ASSUME NEW f \in wire, HandleRawPacket(f) PROVE ForHead(m)'
  <2>1. f.to \in Node /\ f.pkt \in Packet /\ UNCHANGED responses /\ Ready(f.to)
    BY <1>5 DEF HandleRawPacket, IInv, TypeOK
  <2>2. CASE DeliverPing(f) \/ DiscardPing(f)
    BY <1>2, <2>1, <2>2 DEF DeliverPing, DiscardPing
  <2>3. CASE ForwardPing(f)
    <3> DEFINE p == [f.pkt EXCEPT !.ttl = TtlLeft(f.pkt)]
    <3>1. p \in Packet /\ p.dst = f.pkt.dst
      BY <2>1, TtlLeftInRange DEF Packet
    <3>2. /\ Enqueue(f.to, p)
          /\ waitingQ'[f.to].state = "ok" => Ask(f.to, f.pkt.dst)
          /\ UNCHANGED requests \/ Ask(f.to, f.pkt.dst)
      BY <2>3 DEF ForwardPing, Working
    <3> HIDE DEF p
    <3> QED
      BY <1>3, <2>1, <3>1, <3>2
  <2> QED
    BY <1>5, <2>2, <2>3 DEF HandleRawPacket
<1>6. ASSUME NEW n \in Node, HandleRoutingPacket(n) PROVE ForHead(m)'
  <2>1. CASE n = m
    BY <1>6, <2>1, PopForHead
  <2>2. CASE n # m
    <3>1. /\ waitingQ'[m] = waitingQ[m] /\ responses'[m] = responses[m]
          /\ requests'[m] = requests[m]
      BY <1>1, <1>6, <2>2 DEF HandleRoutingPacket
    <3> QED
      BY <3>1, ElsewhereForHead
  <2> QED
    BY <2>1, <2>2
<1>7. ASSUME NEW n \in Node, AnswerRequest(n) PROVE ForHead(m)'
  <2>1. CASE n = m
    BY <1>7, <2>1, AnswerForHead
  <2>2. CASE n # m
    <3>1. /\ waitingQ'[m] = waitingQ[m] /\ responses'[m] = responses[m]
          /\ requests'[m] = requests[m]
      BY <1>1, <1>7, <2>2 DEF AnswerRequest
    <3> QED
      BY <3>1, ElsewhereForHead
  <2> QED
    BY <2>1, <2>2
<1>8. ASSUME NEW n \in Node, RoutingStops(n) \/ HandleHangup(n) \/ RoutingConnects(n)
      PROVE  ForHead(m)'
  <2>1. n # m
    BY <1>1, <1>8 DEF RoutingStops, HandleHangup, RoutingConnects, Open
  <2>2. /\ waitingQ'[m] = waitingQ[m] /\ responses'[m] = responses[m]
        /\ requests'[m] = requests[m]
    BY <1>1, <1>8, <2>1 DEF RoutingStops, HandleHangup, RoutingConnects
  <2> QED
    BY <2>2, ElsewhereForHead
<1>9. ASSUME NEW n \in Node, EchoToSelf(n) \/ DiscardApplicationPacket(n)
      PROVE  ForHead(m)'
  BY <1>2, <1>9 DEF EchoToSelf, DiscardApplicationPacket
<1>10. UNCHANGED vars => ForHead(m)'
  BY <1>2 DEF vars
<1> QED
  BY <1>4, <1>5, <1>6, <1>7, <1>8, <1>9, <1>10 DEF Next

LEMMA InitForHead == ASSUME NEW n \in Node, Init PROVE ForHead(n)
BY DEF Init, ForHead, CreateQ

-----------------------------------------------------------------------------
\* The state of the MIP daemons and of what is under way between them stays
\* well-typed for every network, every ttl an application asks for, and
\* whatever the routing daemons do.
THEOREM TypeCorrect == Spec => []TypeOK
<1>1. IInv /\ [Next]_vars => IInv'
  BY StepInStep
<1>2. IInv => TypeOK
  BY DEF IInv
<1> QED
  BY InitInStep, <1>1, <1>2, PTL DEF Spec

\* handleRoutingPacket never pops an empty queue, however many datagrams wait
\* and whenever routing daemons stop and start (mip_daemon.c:283-347, 509-511).
THEOREM PopFindsCorrect == Spec => []PopFindsDatagram
<1>1. IInv /\ [Next]_vars => IInv'
  BY StepInStep
<1> QED
  BY InitInStep, InStepFindsDatagram, <1>1, PTL DEF Spec

\* A sound queue is only broken by an operation on two entries (msgQ.c:58).
THEOREM QueuesBreakCorrect == Spec => QueuesBreakAtTwo
<1>1. IInv /\ [Next]_vars => IInv'
  BY StepInStep
<1>2. IInv /\ [Next]_vars
        => [\A n \in Node : waitingQ[n].state = "ok" /\ waitingQ'[n].state # "ok"
                             => waitingQ[n].amountOfEntries = 2]_waitingQ
  BY StepBreaksAtTwo
<1> QED
  BY InitInStep, <1>1, <1>2, PTL DEF Spec, QueuesBreakAtTwo

\* As long as the routing daemon of a node stays, the head of its queue gets
\* the answer to the question asked on its behalf, up to and including the
\* first answer applied while two wait, whatever is answered and whatever
\* becomes of the routing daemons of other nodes.
THEOREM StaysInStepCorrect == Spec => StaysInStep
<1>1. IInv /\ [Next]_vars => IInv'
  BY StepInStep
<1>2. ASSUME NEW n \in Node
      PROVE  Spec => ([](routing[n] = "open") => []AnswerIsForHead(n))
  <2>1. IInv /\ ForHead(n) /\ Open(n) /\ Open(n)' /\ [Next]_vars => ForHead(n)'
    BY StepForHead
  <2>2. IInv /\ ForHead(n) => AnswerIsForHead(n)
    BY ForHeadSuffices
  <2>3. Init => ForHead(n)
    BY InitForHead
  <2>4. routing[n] = "open" <=> Open(n)
    BY DEF Open
  <2> QED
    BY InitInStep, <1>1, <2>1, <2>2, <2>3, <2>4, PTL DEF Spec
<1> QED
  BY <1>2 DEF StaysInStep
=============================================================================
