---------------------------- MODULE RoutingDaemon ---------------------------
(***************************************************************************)
(* The routing daemons of a network (routing_daemon.c, routingTable.c),    *)
(* one per node, exchanging HELLO, UPDATE and KEEP-ALIVE messages through  *)
(* their MIP daemons.  One action per message handler, the periodic alarm, *)
(* and the failures the code is exposed to: a daemon that stops and comes  *)
(* back, frames that are lost, neighbours that fall silent.                *)
(*                                                                         *)
(* A daemon is single-threaded and handles one epoll event at a time, so   *)
(* each handler is one step.                                               *)
(***************************************************************************)
EXTENDS RoutingTable, Sequences

CONSTANTS
  Link,        \* the pairs of nodes on a common wire
  MayCrash,    \* nodes whose routing daemon may stop, each at most once
  MayRestart,  \* those of them that may be started again
  MaxWireFaults, \* bound on the messages the wire loses or puts out of order
  MaxChan,     \* bound on the messages in flight from one node to another
  Dist         \* Dist[a][b]: number of wires between a and b, or Infinity

ASSUME LinkAssumption ==
  /\ Link \subseteq Node \X Node
  /\ \A l \in Link : l[1] # l[2] /\ <<l[2], l[1]>> \in Link
ASSUME DistAssumption ==
  /\ Dist \in [Node -> [Node -> Cost]]
  /\ \A n \in Node : Dist[n][n] = 0
  /\ \A l \in Link, d \in Node : Dist[l[2]][d] <= Dist[l[1]][d] + 1
ASSUME BoundAssumption == MaxWireFaults \in Nat /\ MaxChan \in Nat \ {0}

VARIABLES
  process,       \* process[n]: what the routing daemon of n is doing
  table,         \* table[n]: routingTable
  neighbourList, \* neighbourList[n]: the neighbours n monitors
  overdue,       \* overdue[n]: those last heard of more than 30 s ago
  chan,          \* chan[s][d]: HELLOs and UPDATEs in flight from s to d
  alive,         \* <<s, d>>: a KEEP-ALIVE in flight from s to d
  crashed,       \* the nodes whose daemon has stopped once
  wireFaults     \* messages lost or overtaken on the wire so far

vars ==
  <<process, table, neighbourList, overdue, chan, alive, crashed, wireFaults>>
daemonVars == <<table, neighbourList, overdue>>
faultVars  == <<crashed, wireFaults>>

\* "connected": the MIP daemon has accepted the connection and written the
\* HANDSHAKE_REPLY, which is the first message the socket holds.
ProcessState == {"down", "connected", "running"}

Hello     == [type |-> "HELLO"]
Update(a) == [type |-> "UPDATE", adv |-> a]
Message   == [type : {"HELLO"}] \cup [type : {"UPDATE"}, adv : Advertisement]

LinkedTo(n) == {m \in Node : <<n, m>> \in Link}

Init ==
  /\ process = [n \in Node |-> "down"]
  /\ table = [n \in Node |-> EmptyTable]
  /\ neighbourList = [n \in Node |-> {}]
  /\ overdue = [n \in Node |-> {}]
  /\ chan = [s \in Node |-> [d \in Node |-> <<>>]]
  /\ alive = {}
  /\ crashed = {}
  /\ wireFaults = 0

\* The network after boot (the state the property Converges leads to): every
\* daemon up, shortest paths everywhere, all neighbours monitored.
ShortestPath(n, d) ==
  [cost |-> Dist[n][d],
   next |-> IF d = n THEN n
            ELSE CHOOSE m \in LinkedTo(n) : Dist[m][d] + 1 = Dist[n][d]]

InitEstablished ==
  /\ process = [n \in Node |-> "running"]
  /\ table = [n \in Node |-> [d \in Node |-> ShortestPath(n, d)]]
  /\ neighbourList = [n \in Node |-> LinkedTo(n)]
  /\ overdue = [n \in Node |-> {}]
  /\ chan = [s \in Node |-> [d \in Node |-> <<>>]]
  /\ alive = {}
  /\ crashed = {}
  /\ wireFaults = 0

-----------------------------------------------------------------------------
(* Channels.                                                               *)

\* The channels after n has taken a message from s's channel and written an
\* UPDATE of the table t to each node of targets.
Replied(s, n, t, targets) ==
  [a \in Node |-> [b \in Node |->
     IF a = s /\ b = n THEN Tail(chan[a][b])
     ELSE IF a = n /\ b \in targets
          THEN Append(chan[a][b], Update(Advertise(t, b)))
     ELSE chan[a][b]]]

\* The channels after n has written an UPDATE of the table t to each node of
\* targets without having read anything.
Announced(n, t, targets) ==
  [chan EXCEPT ![n] = [b \in Node |->
     IF b \in targets THEN Append(chan[n][b], Update(Advertise(t, b)))
                      ELSE chan[n][b]]]

\* The bound MaxChan: n can write to every node of targets.
RoomFor(n, targets) == \A m \in targets : Len(chan[n][m]) < MaxChan

\* A message of this type from s is next to be read by n.
Next2Read(n, s, type) ==
  /\ process[n] = "running"
  /\ chan[s][n] # <<>>
  /\ Head(chan[s][n]).type = type

-----------------------------------------------------------------------------
(* Starting: connect, handshake, first HELLO.                              *)

Start(n) ==
  /\ process[n] = "down"
  /\ n \in crashed => n \in MayRestart
  /\ process' = [process EXCEPT ![n] = "connected"]
  /\ UNCHANGED <<daemonVars, chan, alive, faultVars>>

HandleHandshakeReply(n) ==
  /\ process[n] = "connected"
  /\ RoomFor(n, LinkedTo(n))
  /\ process' = [process EXCEPT ![n] = "running"]
  /\ table' = [table EXCEPT ![n][n] = [cost |-> 0, next |-> n]]
  /\ chan' = [chan EXCEPT ![n] = [b \in Node |->
                IF b \in LinkedTo(n) THEN Append(chan[n][b], Hello)
                                     ELSE chan[n][b]]]
  /\ UNCHANGED <<neighbourList, overdue, alive, faultVars>>

-----------------------------------------------------------------------------
(* Message handlers.                                                       *)

\* A known neighbour that says HELLO has its timer reset; known or not, it
\* is sent the table.
HandleHello(n, s) ==
  /\ Next2Read(n, s, "HELLO")
  /\ RoomFor(n, {s})
  /\ overdue' = [overdue EXCEPT ![n] = @ \ {s}]
  /\ chan' = Replied(s, n, table[n], {s})
  /\ UNCHANGED <<process, table, neighbourList, alive, faultVars>>

\* The table and the neighbour list take in the advertisement; if anything
\* changed the new table goes to every neighbour.
HandleUpdate(n, s) ==
  /\ Next2Read(n, s, "UPDATE")
  /\ LET adv == Head(chan[s][n]).adv
         t   == MergeUpdate(table[n], adv, s)
         nbs == neighbourList[n] \cup NewNeighbours(table[n], adv, s)
         to  == IF Changed(table[n], adv, s) THEN nbs ELSE {}
     IN  /\ RoomFor(n, to)
         /\ table' = [table EXCEPT ![n] = t]
         /\ neighbourList' = [neighbourList EXCEPT ![n] = nbs]
         /\ chan' = Replied(s, n, t, to)
  /\ UNCHANGED <<process, overdue, alive, faultVars>>

\* updateTime
HandleKeepAlive(n, s) ==
  /\ process[n] = "running"
  /\ <<s, n>> \in alive
  /\ alive' = alive \ {<<s, n>>}
  /\ overdue' = [overdue EXCEPT ![n] = @ \ {s}]
  /\ UNCHANGED <<process, table, neighbourList, chan, faultVars>>

-----------------------------------------------------------------------------
(* The periodic alarm: KEEP-ALIVEs to all neighbours, then controlTime.    *)

\* Mutant: controlTime tells nobody.
ControlTimeSilently(n) ==
  /\ table' = [table EXCEPT ![n] = RemoveFromRouting(table[n], overdue[n])]
  /\ neighbourList' = [neighbourList EXCEPT ![n] = @ \ overdue[n]]
  /\ overdue' = [overdue EXCEPT ![n] = {}]
  /\ UNCHANGED chan

\* controlTime drops every overdue neighbour with all paths through it, and
\* tells the neighbours that are left.
ControlTime(n) ==
  LET t   == RemoveFromRouting(table[n], overdue[n])
      nbs == neighbourList[n] \ overdue[n]
      to  == IF overdue[n] # {} THEN nbs ELSE {}
  IN  /\ RoomFor(n, to)
      /\ table' = [table EXCEPT ![n] = t]
      /\ neighbourList' = [neighbourList EXCEPT ![n] = nbs]
      /\ overdue' = [overdue EXCEPT ![n] = {}]
      /\ chan' = Announced(n, t, to)

\* Alarms are 10 s apart, far longer than a KEEP-ALIVE is under way (checked
\* in KeepAlive): none of the last alarm is left.
Alarm(n) ==
  /\ process[n] = "running"
  /\ neighbourList[n] # {}
  /\ \A m \in Node : <<n, m>> \notin alive
  /\ alive' = alive \cup {<<n, m>> : m \in neighbourList[n]}
  /\ ControlTime(n)
  /\ UNCHANGED <<process, faultVars>>

-----------------------------------------------------------------------------
(* The environment.                                                        *)

\* The daemon of n stops.  What it had written but its MIP daemon had not
\* read is lost: a suffix of each outgoing channel.
Crash(n) ==
  /\ process[n] # "down"
  /\ n \in MayCrash \ crashed
  /\ crashed' = crashed \cup {n}
  /\ process' = [process EXCEPT ![n] = "down"]
  /\ table' = [table EXCEPT ![n] = EmptyTable]
  /\ neighbourList' = [neighbourList EXCEPT ![n] = {}]
  /\ overdue' = [overdue EXCEPT ![n] = {}]
  /\ \E kept \in [Node -> 0 .. MaxChan] :
        /\ \A d \in Node : kept[d] <= Len(chan[n][d])
        /\ chan' = [chan EXCEPT ![n] =
                      [d \in Node |-> SubSeq(chan[n][d], 1, kept[d])]]
  /\ UNCHANGED <<alive, wireFaults>>

\* The MIP daemon of n has no routing daemon to give the message to.
DropMessage(n, s) ==
  /\ process[n] = "down"
  /\ chan[s][n] # <<>>
  /\ chan' = [chan EXCEPT ![s][n] = Tail(@)]
  /\ UNCHANGED <<process, daemonVars, alive, faultVars>>

\* A KEEP-ALIVE that finds no daemon running, or is lost while n is starting.
DropKeepAlive(n, s) ==
  /\ process[n] # "running"
  /\ <<s, n>> \in alive
  /\ alive' = alive \ {<<s, n>>}
  /\ UNCHANGED <<process, daemonVars, chan, faultVars>>

\* A HELLO or an UPDATE is lost on the wire: nothing sends it again.
Lose(n, s) ==
  /\ wireFaults < MaxWireFaults
  /\ chan[s][n] # <<>>
  /\ wireFaults' = wireFaults + 1
  /\ chan' = [chan EXCEPT ![s][n] = Tail(@)]
  /\ UNCHANGED <<process, daemonVars, alive, crashed>>

\* A message that waits for MIP-ARP is overtaken by the next one to the same
\* neighbour, sent after the cache was filled from an intercepted broadcast.
Overtake(n, s) ==
  /\ wireFaults < MaxWireFaults
  /\ wireFaults' = wireFaults + 1
  /\ \E i \in 1 .. (Len(chan[s][n]) - 1) :
       chan' = [chan EXCEPT ![s][n] =
                  [@ EXCEPT ![i] = chan[s][n][i + 1], ![i + 1] = chan[s][n][i]]]
  /\ UNCHANGED <<process, daemonVars, alive, crashed>>

\* The next thing n hears of m is a HELLO with which m comes back, or nothing.
AwaitsHello(n, m) ==
  IF chan[m][n] # <<>> THEN Head(chan[m][n]).type = "HELLO"
  ELSE process[m] = "running" => n \notin neighbourList[m] /\ chan[n][m] = <<>>

\* <<n, m>>: the neighbours m of n that n may find silent for 30 s.  That the
\* clocks allow no others is what KeepAlive is about.
Silent ==
  {p \in Node \X Node :
     /\ p[2] \in neighbourList[p[1]] \ overdue[p[1]]
     /\ <<p[2], p[1]>> \notin alive
     /\ AwaitsHello(p[1], p[2])}

\* For each pair of S the 30 s are over.
FallSilent(S) ==
  /\ S # {} /\ S \subseteq Silent
  /\ overdue' = [n \in Node |-> overdue[n] \cup {m \in Node : <<n, m>> \in S}]
  /\ UNCHANGED <<process, table, neighbourList, chan, alive, faultVars>>

\* The KEEP-ALIVEs m sent to n for 30 s were all lost on the wire.
LoseKeepAlives(n, m) ==
  /\ wireFaults < MaxWireFaults
  /\ m \in neighbourList[n] \ overdue[n]
  /\ wireFaults' = wireFaults + 1
  /\ alive' = alive \ {<<m, n>>}
  /\ overdue' = [overdue EXCEPT ![n] = @ \cup {m}]
  /\ UNCHANGED <<process, table, neighbourList, chan, crashed>>

-----------------------------------------------------------------------------
Next ==
  \/ \E n \in Node : Start(n) \/ HandleHandshakeReply(n) \/ Alarm(n) \/ Crash(n)
  \/ \E n \in Node, s \in Node :
        \/ HandleHello(n, s) \/ HandleUpdate(n, s) \/ HandleKeepAlive(n, s)
        \/ DropMessage(n, s) \/ DropKeepAlive(n, s)
        \/ Lose(n, s) \/ Overtake(n, s)
        \/ LoseKeepAlives(n, s)
  \/ \E S \in SUBSET Silent : FallSilent(S)

Spec == Init /\ [][Next]_vars

EstablishedSpec == InitEstablished /\ [][Next]_vars

\* epoll serves every ready descriptor, the timer is armed again after each
\* alarm, a message on the wire arrives or is lost, and a neighbour that
\* stays silent does so for 30 s.  Nobody has to start a stopped daemon.
Fairness ==
  \A n \in Node :
    /\ WF_vars(n \notin crashed /\ Start(n))
    /\ WF_vars(HandleHandshakeReply(n))
    /\ WF_vars(Alarm(n))
    /\ \A s \in LinkedTo(n) :
         /\ WF_vars(HandleHello(n, s) \/ HandleUpdate(n, s) \/ DropMessage(n, s))
         /\ WF_vars(HandleKeepAlive(n, s) \/ DropKeepAlive(n, s))
         /\ WF_vars(FallSilent({<<n, s>>}))

FairSpec == Spec /\ Fairness

FairEstablishedSpec == EstablishedSpec /\ Fairness

-----------------------------------------------------------------------------
(* Invariants.                                                             *)

TypeOK ==
  /\ process \in [Node -> ProcessState]
  /\ table \in [Node -> Table]
  /\ neighbourList \in [Node -> SUBSET Node]
  /\ overdue \in [Node -> SUBSET Node]
  /\ chan \in [Node -> [Node -> Seq(Message)]]
  /\ alive \subseteq Node \X Node
  /\ crashed \subseteq MayCrash
  /\ wireFaults \in 0 .. MaxWireFaults

\* The neighbour list (routingTable.c:286-294, 319-325, 79-127) and the table
\* are updated by different code but describe the same thing: a node is
\* monitored exactly when the table has it at cost 1, directly.
NeighbourListMatchesTable ==
  \A n \in Node, m \in Node :
    m \in neighbourList[n] <=> table[n][m] = [cost |-> 1, next |-> m]

\* Every path the daemon would hand to the MIP daemon (findNextHop) leaves
\* through a neighbour whose KEEP-ALIVEs it monitors: a path through a node
\* nobody watches would never be withdrawn.
RoutesUseNeighbours ==
  \A n \in Node, d \in Node :
    (d # n /\ HasRoute(table[n], d)) => FindNextHop(table[n], d) \in neighbourList[n]

\* No daemon believes in a path shorter than the wiring allows, whatever is
\* lost, restarted or still in flight.
NoUnderestimate ==
  \A n \in Node, d \in Node :
    HasEntry(table[n], d) => table[n][d].cost >= Dist[n][d]

\* An UPDATE of s that withdraws d is on its way to n.
WithdrawalInFlight(s, n, d) ==
  \E i \in 1 .. Len(chan[s][n]) :
    /\ chan[s][n][i].type = "UPDATE"
    /\ chan[s][n][i].adv[d] = Infinity

\* n's first UPDATE, which makes it a neighbour of s, is on its way to s.
JoinInFlight(n, s) ==
  /\ n \notin neighbourList[s]
  /\ \E i \in 1 .. Len(chan[n][s]) : chan[n][s][i].type = "UPDATE"

\* While nothing is lost a path is backed by the next hop, also if a node at
\* the end of a line restarts: that node has a cheaper path, has died, has a
\* withdrawal on its way, or is about to learn of the node that relies on it.
\* It is not so if a node in the middle restarts (run restart_stale), nor in
\* a triangle with a node behind it when one daemon joins while another stops
\* (run join_loop: the path of the joining daemon has lost its support by the
\* time it is offered to others).
RouteSupported ==
  \A n \in Node, d \in Node :
    (wireFaults = 0 /\ d # n /\ HasRoute(table[n], d)) =>
      LET s == table[n][d].next
      IN  \/ process[s] # "running"
          \/ HasRoute(table[s], d) /\ table[s][d].cost < table[n][d].cost
          \/ WithdrawalInFlight(s, n, d)
          \/ JoinInFlight(n, s)

\* No UPDATE is in flight.
Quiet ==
  \A s \in Node, n \in Node : \A i \in 1 .. Len(chan[s][n]) :
    chan[s][n][i].type # "UPDATE"

\* A set of nodes that pass a packet for d among themselves for ever.
Loop(S, d) ==
  /\ S # {} /\ d \notin S
  /\ \A n \in S : HasRoute(table[n], d) /\ FindNextHop(table[n], d) \in S

\* README.md:17 "Distance Vector Routing (DVR) scheme, with Poisoned Reverse
\* loop protection": once the UPDATEs have settled no forwarding loop is left.
LoopFreeWhenQuiet ==
  Quiet => \A d \in Node, S \in SUBSET Node : ~Loop(S, d)

-----------------------------------------------------------------------------
(* Properties of behaviours.                                               *)

AllRunning == \A n \in Node : process[n] = "running"

\* Every daemon has a shortest path to every node.
Converged ==
  \A n \in Node, d \in Node :
    /\ HasEntry(table[n], d)
    /\ table[n][d].cost = Dist[n][d]

FaultlessWire == [](wireFaults = 0)

\* If all daemons stay up the tables reach the shortest paths and keep them,
\* although UPDATEs are only sent on a change and never repeated.
Converges == FaultlessWire /\ <>[]AllRunning => <>[]Converged

\* The flood of triggered UPDATEs dies down.
EventuallyQuiet == <>[]Quiet

\* Nobody keeps a path to a node whose daemon has stopped for good.
DeadIsForgotten ==
  \A x \in MayCrash :
    FaultlessWire /\ <>[](process[x] = "down") =>
      <>[](\A n \in Node : process[n] = "running" => ~HasRoute(table[n], x))

\* routing_daemon.c:400 "If table has changed, update all active neighbours.":
\* when the tables stop changing, the UPDATEs stop too.
SettledIsQuiet == <>[][UNCHANGED table]_vars => EventuallyQuiet
=============================================================================
