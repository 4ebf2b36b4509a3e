------------------------------- MODULE MipArp -------------------------------
(***************************************************************************)
(* MIP-ARP in a network of MIP daemons (sendData of rawFunctions.c, the    *)
(* ARP branch of handleRawPacket, arpFunctions.c): a datagram for a        *)
(* neighbour whose MAC address is not in the cache waits in arpWaitingList *)
(* while an ARP broadcast asks for it.                                     *)
(*                                                                         *)
(* Nodes are joined by wires of their own, as in the topologies of         *)
(* topo_p2p.py: the interface of a cache entry follows from its MIP        *)
(* address and is left out.  A MIP address may be taken over by a second   *)
(* host: a MAC address is the number of the host at that MIP address.      *)
(***************************************************************************)
EXTENDS Integers, Sequences, FiniteSets

CONSTANTS
  Node,        \* MIP addresses
  Link,        \* the pairs of nodes on a common wire
  Traffic,     \* <<n, d>>: n has datagrams for its neighbour d
  Addr, NULL, Free,   \* see Heap
  MayMove,     \* MIP addresses that a second host may take over
  MaxData,     \* bound on the datagrams sent
  MaxLosses    \* bound on the frames lost on the wire

ASSUME TrafficAssumption ==
  Traffic \subseteq Link /\ \A l \in Link : l[1] # l[2] /\ <<l[2], l[1]>> \in Link

Id        == 1 .. MaxData
Mac       == {1, 2}
EveryMac  == 0              \* the broadcast MAC address
ArpEntry  == [mip : Node, mac : Mac]
WaitEntry == [dst : Node, id : Id]

INSTANCE WaitingList

ASSUME MemoryAssumption ==
  IsFiniteSet(Addr) /\ NULL \notin Addr /\ Free \notin ListNode
ASSUME BoundsAssumption == MaxData \in Nat /\ MaxLosses \in Nat

VARIABLES
  arpCache,        \* arpCache[n]: its entries, oldest first
  arpWaitingList,  \* arpWaitingList[n]
  mac,             \* mac[n]: the host that has the MIP address n
  chan,            \* chan[s][d]: frames on the wire from s to d
  delivered,       \* datagrams that have arrived
  sent,            \* datagrams sent so far
  losses           \* frames lost so far

vars == <<arpCache, arpWaitingList, mac, chan, delivered, sent, losses>>

\* Mutant: sent to the node it asks for.
ArpUnicast(n, lookup) ==
  [type |-> "ARP_BROADCAST", to |-> lookup, from |-> mac[n], lookup |-> lookup]

ArpBroadcast(n, lookup) ==
  [type |-> "ARP_BROADCAST", to |-> EveryMac, from |-> mac[n], lookup |-> lookup]
ArpResponse(n, m) == [type |-> "ARP_RESPONSE", to |-> m, from |-> mac[n]]
Datagram(id, m)   == [type |-> "DATA", to |-> m, id |-> id]

Frame ==
  [type : {"ARP_BROADCAST"}, to : {EveryMac}, from : Mac, lookup : Node]
    \cup [type : {"ARP_RESPONSE"}, to : Mac, from : Mac]
    \cup [type : {"DATA"}, to : Mac, id : Id]

LinkedTo(n) == {m \in Node : <<n, m>> \in Link}

Init ==
  /\ arpCache = [n \in Node |-> <<>>]
  /\ arpWaitingList = [n \in Node |-> CreateLinkedList]
  /\ mac = [n \in Node |-> 1]
  /\ chan = [s \in Node |-> [d \in Node |-> <<>>]]
  /\ delivered = {}
  /\ sent = 0
  /\ losses = 0

\* The daemon of n can take up an event: it is not stuck in an earlier one.
Ready(n) == Working(arpWaitingList[n])

-----------------------------------------------------------------------------
(* The cache.                                                              *)

IndicesOf(c, m) == {i \in DOMAIN c : c[i].mip = m}

InCache(c, m) == IndicesOf(c, m) # {}

First(c, m) == CHOOSE i \in IndicesOf(c, m) : \A j \in IndicesOf(c, m) : i <= j

\* getCacheEntry: the first entry wins.
GetCacheEntry(c, m) == c[First(c, m)]

AddArpEntry(c, m, a) == Append(c, [mip |-> m, mac |-> a])

UpdateArpEntry(c, m, a) == [c EXCEPT ![First(c, m)].mac = a]

-----------------------------------------------------------------------------
(* sendData.                                                               *)

\* n sends its next datagram to d: at once if the cache has d, else it waits
\* and a broadcast goes out on every interface.
SendCached(n, d) ==
  /\ InCache(arpCache[n], d)
  /\ chan' = [chan EXCEPT ![n][d] =
                Append(@, Datagram(sent', GetCacheEntry(arpCache[n], d).mac))]
  /\ UNCHANGED arpWaitingList

SendUncached(n, d) ==
  /\ ~InCache(arpCache[n], d)
  /\ \E a \in Unused(arpWaitingList[n].heap) :
       arpWaitingList' = [arpWaitingList EXCEPT ![n] =
                            AddEntry(@, [dst |-> d, id |-> sent'], a)]
  /\ IF Working(arpWaitingList'[n])
     THEN chan' = [chan EXCEPT ![n] = [m \in Node |->
                     IF m \in LinkedTo(n)
                     THEN Append(chan[n][m], ArpBroadcast(n, d)) ELSE chan[n][m]]]
     ELSE UNCHANGED chan

SendData(n, d) ==
  /\ Ready(n) /\ <<n, d>> \in Traffic /\ sent < MaxData
  /\ sent' = sent + 1
  /\ SendCached(n, d) \/ SendUncached(n, d)
  /\ UNCHANGED <<arpCache, mac, delivered, losses>>

-----------------------------------------------------------------------------
(* handleRawPacket.                                                        *)

\* The next frame from s is for the host of n, and of this type.
Arrives(n, s, type) ==
  /\ Ready(n)
  /\ chan[s][n] # <<>>
  /\ Head(chan[s][n]).type = type
  /\ Head(chan[s][n]).to \in {mac[n], EveryMac}

\* Mutant: a node that is waiting for responses itself does not respond.
RespondsUnlessWaiting(n) == arpWaitingList[n].entries = 0

\* Whether n answers a broadcast that asks for it: always.
Responds(n) == TRUE

\* An ARP broadcast that asks for n: s is entered in the cache or updated,
\* and gets a response.
HandleArpBroadcast(n, s) ==
  /\ Arrives(n, s, "ARP_BROADCAST")
  /\ Head(chan[s][n]).lookup = n
  /\ LET a == Head(chan[s][n]).from
         c == arpCache[n]
     IN  /\ arpCache' = [arpCache EXCEPT ![n] =
                           IF InCache(c, s) THEN UpdateArpEntry(c, s, a)
                                            ELSE AddArpEntry(c, s, a)]
         /\ chan' = [chan EXCEPT
              ![s][n] = Tail(@),
              ![n][s] = IF Responds(n)
                        THEN Append(@, ArpResponse(n, a)) ELSE @]
  /\ UNCHANGED <<arpWaitingList, mac, delivered, sent, losses>>

\* One that asks for another node: s is entered if it is new.  Datagrams that
\* wait for s keep waiting.
InterceptArpBroadcast(n, s) ==
  /\ Arrives(n, s, "ARP_BROADCAST")
  /\ Head(chan[s][n]).lookup # n
  /\ arpCache' = IF InCache(arpCache[n], s) THEN arpCache
                 ELSE [arpCache EXCEPT
                         ![n] = AddArpEntry(@, s, Head(chan[s][n]).from)]
  /\ chan' = [chan EXCEPT ![s][n] = Tail(@)]
  /\ UNCHANGED <<arpWaitingList, mac, delivered, sent, losses>>

\* An ARP response: always one more entry in the cache, and the datagrams
\* that wait for s are sent, to the MAC address of its first entry.
HandleArpResponse(n, s) ==
  /\ Arrives(n, s, "ARP_RESPONSE")
  /\ LET a == Head(chan[s][n]).from
         l == arpWaitingList[n]
         c == AddArpEntry(arpCache[n], s, a)
         w == IF Working(Remove(l, s)) /\ l.head # NULL
              THEN EntriesFor(l, s) ELSE <<>>
     IN  /\ arpCache' = [arpCache EXCEPT ![n] = c]
         /\ arpWaitingList' = IF l.entries > 0
                              THEN [arpWaitingList EXCEPT ![n] = Remove(l, s)]
                              ELSE arpWaitingList
         /\ chan' = [chan EXCEPT
              ![s][n] = Tail(@),
              ![n][s] = @ \o [i \in DOMAIN w |->
                                Datagram(w[i].id, GetCacheEntry(c, s).mac)]]
  /\ UNCHANGED <<mac, delivered, sent, losses>>

HandleDatagram(n, s) ==
  /\ Arrives(n, s, "DATA")
  /\ delivered' = delivered \cup {Head(chan[s][n]).id}
  /\ chan' = [chan EXCEPT ![s][n] = Tail(@)]
  /\ UNCHANGED <<arpCache, arpWaitingList, mac, sent, losses>>

-----------------------------------------------------------------------------
(* The environment.                                                        *)

\* A second host takes over the MIP address n, with a daemon of its own.
Move(n) ==
  /\ n \in MayMove /\ mac[n] = 1
  /\ mac' = [mac EXCEPT ![n] = 2]
  /\ arpCache' = [arpCache EXCEPT ![n] = <<>>]
  /\ arpWaitingList' = [arpWaitingList EXCEPT ![n] = CreateLinkedList]
  /\ UNCHANGED <<chan, delivered, sent, losses>>

\* The interface of n passes over a frame for a MAC address that is not its.
PassOver(n, s) ==
  /\ chan[s][n] # <<>>
  /\ Head(chan[s][n]).to \notin {mac[n], EveryMac}
  /\ chan' = [chan EXCEPT ![s][n] = Tail(@)]
  /\ UNCHANGED <<arpCache, arpWaitingList, mac, delivered, sent, losses>>

Lose(n, s) ==
  /\ losses < MaxLosses /\ chan[s][n] # <<>>
  /\ losses' = losses + 1
  /\ chan' = [chan EXCEPT ![s][n] = Tail(@)]
  /\ UNCHANGED <<arpCache, arpWaitingList, mac, delivered, sent>>

-----------------------------------------------------------------------------
Receive(n, s) ==
  \/ HandleArpBroadcast(n, s) \/ InterceptArpBroadcast(n, s)
  \/ HandleArpResponse(n, s) \/ HandleDatagram(n, s) \/ PassOver(n, s)

Next ==
  \/ \E n \in Node, s \in Node : SendData(n, s) \/ Receive(n, s) \/ Lose(n, s)
  \/ \E n \in Node : Move(n)

Spec == Init /\ [][Next]_vars

\* A frame on the wire arrives, and the daemon it is for reads it.
FairSpec == Spec /\ \A n \in Node, s \in Node : WF_vars(Receive(n, s))

-----------------------------------------------------------------------------
(* Invariants.                                                             *)

TypeOK ==
  /\ arpCache \in [Node -> Seq(ArpEntry)]
  /\ arpWaitingList \in [Node -> List]
  /\ mac \in [Node -> Mac]
  /\ chan \in [Node -> [Node -> Seq(Frame)]]
  /\ delivered \subseteq Id
  /\ sent \in 0 .. MaxData
  /\ losses \in 0 .. MaxLosses

\* mip_daemon.c:31 "we cant guarantee they are responded to in order": the
\* list of waiting datagrams can be walked whatever the order in which the
\* responses come, and nothing follows a pointer into freed memory.
ListCanBeWalked == \A n \in Node : Ready(n) /\ CanWalk(arpWaitingList[n])

\* While no frame is lost, a datagram that waits for m in a list that is not
\* broken has a request to m or a response of m under way.  Nothing asks again,
\* so without this it would wait for ever.
WaitingIsAnswered == losses = 0 =>
  \A n \in Node : LET l == arpWaitingList[n] IN
    l.state = "ok" =>
      \A a \in Reachable(l.heap, l.head) :
        LET m == l.heap[a].data.dst
        IN  \/ \E j \in DOMAIN chan[n][m] :
                 /\ chan[n][m][j].type = "ARP_BROADCAST"
                 /\ chan[n][m][j].lookup = m
            \/ \E j \in DOMAIN chan[m][n] : chan[m][n][j].type = "ARP_RESPONSE"

-----------------------------------------------------------------------------
(* Properties of behaviours.                                               *)

\* Whatever the order of requests, responses and losses, and whoever waits for
\* whom, the list of a node is broken by one thing only: a response of a
\* neighbour while a datagram for it stands behind one for another neighbour
\* (arpFunctions.c:158-168).
ListBreaksOutOfOrder ==
  [][\A n \in Node : LET l == arpWaitingList[n] IN
       l.state = "ok" /\ arpWaitingList'[n].state # "ok" =>
         \E s \in Node : OutOfOrder(l, s) /\ arpWaitingList'[n] = Remove(l, s)
    ]_arpWaitingList

Undisturbed ==
  [](losses = 0 /\ \A n \in Node : mac[n] = 1 /\ arpWaitingList[n].state = "ok")

\* As long as no frame is lost, no host replaced and no list broken, every
\* datagram arrives, whoever asks for whom at the same time.
EveryDatagramArrives ==
  Undisturbed => \A id \in Id : (sent >= id) ~> (id \in delivered)
=============================================================================
