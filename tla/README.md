# TLA+ models of the MIP protocol stack

The repository is a small network stack in C. On every host of a network run two
daemons: the **MIP daemon** (`mip_daemon.c`) carries datagrams over Ethernet, and
the **routing daemon** (`routing_daemon.c`) keeps a distance-vector table and tells
the MIP daemon the next hop. Applications (`pingClient.c`, `pingServer.c`) connect
to the MIP daemon. Each process is single-threaded and handles one epoll event at a
time; everything that is hard happens between processes: on the sockets between two
daemons of a host, and on the wires between hosts.

These modules model the routing protocol and its clocks, the way a datagram and the
answer about it find each other, MIP-ARP, the programs of a host and the event loop
that serves them, and the two pointer structures the MIP daemon relies on. TLC checks
them on small instances; TLAPS proves, for every network, the safety of the routing tables,
of the keep-alive clocks, of the event loop and its programs, and of forwarding and
MIP-ARP. The two pointer structures do break in use; for these the theorems say what
breaks them, exactly, and what holds of them and of their surroundings until then, for
any number of datagrams that wait and any neighbours they are for.

## 1. Inventory

| Component (source) | State | Operations | Talks to | Hard because | Correct if |
|---|---|---|---|---|---|
| Routing table and neighbour list (`routingTable.c`) | `routingTable[255]`, `neighbourList` with the time each neighbour was last heard | `addToRoutingTable`, `updateRoutingEntry`, `removeFromRouting`, `findNextHop`, `updateTime`, `controlTime` | called by the routing daemon | two structures maintained by different functions | both describe the same neighbours; no path through a node nobody monitors |
| Routing daemon (`routing_daemon.c`) | the two above, one socket | start and handshake, HELLO, UPDATE, KEEP-ALIVE, REQUEST, the alarm, SIGINT | its MIP daemon; through it all neighbours | UPDATEs are sent once, on a change; crashes, restarts, losses, messages that overtake each other | tables converge, dead nodes are forgotten, no loop is left, no cost is too low |
| Keep-alive timer (`routing_daemon.c`, `controlTime`) | a timerfd of 10 s, the time of each neighbour | arm, expire, `updateTime`, compare with 30 s | the routing daemon; the neighbours' timers | clocks of two hosts, messages under way, a restart at any second | the dead are dismissed in time, the living never |
| Waiting queue (`msgQ.c`) | linked nodes, a count | `createQ`, `push`, `pop` | called by the MIP daemon | pointers | it is a queue |
| Forwarding (`mip_daemon.c`, `routing.c`) | `waitingQ`, the two application descriptors | `handleApplicationPacket`, `handleRawPacket` (PING), `handleRoutingPacket` (RESPONSE), hang-up, connection | applications, routing daemon, wire | question and answer are separate events, matched by order only; the routing daemon may go and come | each answer meets the datagram it is about; datagrams arrive; none circles for ever |
| MIP-ARP (`arpFunctions.c`, `sendData` in `rawFunctions.c`, ARP branch of `handleRawPacket`) | `arpCache`, `arpWaitingList` | `sendData`, `sendArpBroadcast`, `sendArpResponse`, the three cases of an ARP-SDU | wire | asked once, answered in any order, both sides may ask at once, hosts may change | a waiting datagram is sent in the end, to the present host |
| ARP waiting list (`linkedList.c`, `sendWaitingMsgs`) | linked nodes, a count | `addEntry`, `sendWaitingMsgs` | called by MIP-ARP | emptied in the middle | it can be walked |
| Frames and MIP header (`rawFunctions.c`, `protocol.h`) | none | `readRawPacket`, `sendRawPacket` | wire | bit fields of 4 and 9 bits, padding | nothing is cut off |
| Process messages (`applicationFunctions.c`) | socket buffers | send, read, handshake and its reply | all processes of a host | blocking writes in both directions | no mutual wait |
| Event loop (`mip_daemon.c` `main`, `epollFunctions.c`) | descriptors | accept, hang-up, dispatch | all | batches of events that grow old, descriptor numbers that come back, hang-up before data, a second application of a kind | no program is taken for another, every live application is served, the daemon comes to rest |
| Ping client and server | none | one request with a 1 s timeout; answer each | MIP daemon | late answers | the answer is to the question |
| Sockets, interfaces, log, makefile, `topo_p2p.py` | none after the start | | operating system | | |

`mip_deamon.c`, `routing_deamon.c` and the empty `forwardingEngine.c` are earlier
versions which the makefile does not build.

`PROJECT.json` lists, for each component, its modules and what of it is modelled, and
under "hazards" each line where this code is hard to test, with the properties that
watch it.

## 2. Plan

Built, in this order (what matters most first):

1. `RoutingTable`: the table as pure operators.
2. `RoutingDaemon` (on 1): the daemons of a network, with crashes, losses and messages
   that overtake each other. `MCRoutingDaemon`, its small networks.
   `RoutingDaemon_proofs`, its theorems.
3. `Heap`, `MsgQ` (on `Heap`): the queue in memory. `Fifo`: what it promises.
   `MsgQClient` (on `MsgQ`): its use, compared with `Fifo`. `MsgQ_proofs`,
   `MsgQClient_proofs`.
4. `Forwarding` (on `MsgQ`), `MCForwarding`, `Forwarding_proofs`.
5. `WaitingList` (on `Heap`), `MipArp` (on `WaitingList`), `MCMipArp`, `MipArp_proofs`.
6. `KeepAlive` (on 2): the daemons of `RoutingDaemon` with clocks, shown to implement
   it. `MCKeepAlive`, `KeepAlive_proofs`.
7. `Applications`, `MCApplications`: the programs of a host and the event loop.
   `Applications_proofs`; `Answers_proofs` (on it).

Next:

8. A theorem: `RouteSupported` when the daemons that restart have one neighbour each
   (`PathsAreSupported` has no restarts).
9. `MipHeader`: the bit fields and the padding as operators, checked against the
   values they should carry over all lengths.

## 3. Models and code

### RoutingTable, RoutingDaemon

A table maps every MIP address to `[cost, next]` or `NoEntry` (a NULL pointer). The
neighbour list is a set. `Advertise` is the filter in `sendUpdate`; `Adds`, `Poisons`
and `Improves` are the three branches of the UPDATE handler's loop, `Learned` what it
writes, `NewNeighbours` what `addToRoutingTable` and `updateRoutingEntry` do to the
neighbour list, `Changed` the flag; `RemoveFromRouting` is the function of that name
applied to every dismissed neighbour. A message has at most one entry per address, so
the loop is applied to all addresses at once.

| Action | Code |
|---|---|
| `Start`, `HandleHandshakeReply` | `connect`, the handshake, own table entry and broadcast HELLO (`routing_daemon.c:415-434`) |
| `HandleHello` | 436-463: reset the timer of a known neighbour, send the table to the sender |
| `HandleUpdate` | 330-413: merge, and if anything changed send the table to all neighbours |
| `HandleKeepAlive` | 465-477 |
| `Alarm` with `ControlTime` | `alarm_`, `sendKeepAlive`, `controlTime` (`routingTable.c:79-176`) |
| `Crash` | SIGINT; what the MIP daemon had not read yet is gone |
| `DropMessage`, `DropKeepAlive` | the MIP daemon of a host without a routing daemon (`mip_daemon.c:196-206`) |
| `FallSilent` | `difftime(...) > 30` |
| `Lose`, `LoseKeepAlives` | the wire |
| `Overtake` | a message that waits for MIP-ARP while a later one to the same neighbour finds the cache filled by an intercepted broadcast (`mip_daemon.c:80`, `rawFunctions.c:177`) |

`chan[s][d]` holds HELLOs and UPDATEs in the order in which they were written.
KEEP-ALIVEs carry nothing and are a set, `alive`. A REQUEST only reads the table; its
answer is `FindNextHop`.

`RoutingDaemon` has no clocks: a neighbour can become overdue once no KEEP-ALIVE is
under way from it and the next that is heard of it is a HELLO, or nothing: it has stopped,
or it does not monitor this node and has nothing to read that would make it
(`AwaitsHello`). Several neighbours may become overdue in the same second
(`FallSilent(S)`). That the timers of 10 s and 30 s earn this is what `KeepAlive` shows.

### KeepAlive

The same daemons with time in whole seconds, which is how `controlTime` compares it
(`time`, `difftime`). `armed[n]` is the age of the timerfd, `silence[n][m]` the age of the
neighbour's `time_t`, `underWay` and `aliveFor` the age of what is in flight. `Untimed`
is `RoutingDaemon` with `overdue` defined from the clocks; handlers that do not touch a
clock are taken from it, `HandleKeepAlive` and `Alarm` are written out.

| Action | Code |
|---|---|
| `Start` | `timerfd_settime` in `main`, before the handshake |
| `HandleHello`, `HandleKeepAlive` | `updateTime` |
| `HandleUpdate` | a neighbour put on the list has its time noted (`routingTable.c:286-294`, 319-325) |
| `Alarm` | `alarm_`, `sendKeepAlive`, `controlTime`, and the timer armed again (`routing_daemon.c:287-302`, 603-604) |
| `Tick` | a second, unless an alarm or a message has been due for so long that it must be handled first |
| `LoseKeepAlive` | the wire |

`MaxSlack` and `MaxDelay` bound how late an alarm is handled and how long a message
travels (10 ms links in `topo_p2p.py`; one second is generous), `MaxMissed` how many
KEEP-ALIVEs in a row are lost. The refinement `KeepsUntimed` says that every step is a
step of `RoutingDaemon` or changes only clocks: a `Tick` that passes 30 s is `FallSilent`,
an alarm never finds the previous KEEP-ALIVE in flight, and a lost KEEP-ALIVE looks like
one that arrived, as the wire's losses are counted here.

### Heap, MsgQ, Fifo, MsgQClient

A heap maps addresses to nodes or `Free`; `malloc` is the choice of any unused address,
so freed memory is reused in every possible way. `Push` and `Pop` are `msgQ.c` line by
line in effect. A queue has a `state`: "dangling" once its pointers lead to freed memory,
which the daemon does not notice: it goes on, and `malloc` may hand the memory out again;
"hung" once an operation does not return; "undefined" once one has followed a pointer to
memory that is free, or NULL. `MsgQClient`
makes any pushes and never pops more than was pushed. The refinement mapping to
`Fifo` is `Contents`: what `amountOfEntries` steps from the head come to.
`push` is no queue with two entries (`msgq_two`), so the queues of `Forwarding` are not
compared with `Fifo`: `QueuesBreakAtTwo` says when they break, and `StaysInStep` what
holds until then.

### Forwarding

| Action | Code |
|---|---|
| `EchoToSelf`, `HandleApplicationPacket`, `DiscardApplicationPacket` | `handleApplicationPacket` (222-274): for this node; to another: ask, then push; no routing daemon |
| `HandleRawPacket` = `DeliverPing`, `DiscardPing`, `ForwardPing` | the PING branch of `handleRawPacket` (116-179): decrement the ttl in its bit field; push, then ask |
| `HandleRoutingPacket` | the RESPONSE branch (283-333): pop the head, whatever the answer is about; send it or discard it |
| `AnswerRequest` | the REQUEST handler of the routing daemon |
| `RoutingStops`, `HandleHangup`, `RoutingConnects` | the routing daemon goes; the EPOLLHUP branch, which discards unread answers; the accept branch |

The routing table is replaced by the constant `Answers`: which next hops the daemon of
a node may give for a destination. `RightAnswers` are those of converged tables,
`AnyAnswer` admits every neighbour and "no route", hence every loop, and
`MixedAnswers` is right about C and anything about A and B. Whatever tables
`RoutingDaemon` comes to, their answers for A and B are among these (C is at the other end of
the line, where A is its mirror image), and the two state spaces stay apart. In the same way
MIP-ARP is a delay: frames on `wire` are a set. A write to a socket whose peer is gone
fails with an error that nobody looks at. A routing daemon that goes with requests unread
resets its socket, so that the answers it has written are not read either (state
"reset"): the hang-up is handled all the same, unless epoll had already reported the
answers, which is `HandleRoutingPacket` of `Applications`. The bit field of the ttl has
`DEFAULT_TTL_MIP + 1` values as in the code, where these are 15 and 16.

### WaitingList, MipArp

`AddEntry` and `Remove` are `addEntry` and `sendWaitingMsgs`; a list has the states of a
queue. `HandleArpBroadcast`,
`InterceptArpBroadcast` and `HandleArpResponse` are the three cases of an ARP-SDU
(`mip_daemon.c:53-114`), `SendData` is `sendData`, `HandleDatagram` any frame with
another SDU. A MAC address is 1 or 2, the first or the second host that has the MIP
address; `Move` makes the second one take over, `PassOver` is the interface that drops
frames for other MAC addresses. `Traffic` says who has datagrams for whom; in both runs
B has them for both its neighbours, as any node with two links has.

### Applications

One host: the MIP daemon's event loop and the programs around it, each of which runs
once; `clientB` pings its own host, `clientA` another, and `elsewhere` is a client on
another host that pings the server here.

| Action | Code |
|---|---|
| `Connect`, `SendHandshake`, `SendPing`, `ClientReads`, `ClientTimesOut` | `pingClient.c` (and the start of every program): connect, handshake, question, one second of `select`, exit |
| `ServerReads` | `pingServer.c`: answer whatever comes to where it came from |
| `RouterReads` | the routing daemon: HELLO after the reply, RESPONSE to a REQUEST |
| `Die` | a program is killed (`pingServer.c:14-20`, `routing_daemon.c:486-505`) |
| `EpollWait` | `epoll_wait` returns a batch (`mip_daemon.c:452`) |
| `Accept`, `ReadHandshake`, `ReadNoHandshake` | the accept branch (456-494) with its blocking read (461) |
| `HandleHangup` | EPOLLHUP (497-526) |
| `HandleApplicationPacket`, `HandleRoutingPacket`, `HandleRawPacket`, `PassOver` | the other branches, with what becomes of a read that fails |
| `RemotePings`, `RemoteAnswers`, `RemoteReads` | other hosts |

Descriptors are numbers and `accept` returns the lowest that is free. Events are
handled in any order while programs go on, so an event may be old when its turn comes. A
program that goes leaves what it has written; if it had messages unread its socket is
reset and the next read from it fails (AF_UNIX, `ECONNRESET`). `readApplicationMsg`
and `readDomainSocket` look at no error: the ping handler goes on with a message of
zeros, the routing handler with a length of -3, on which the daemon crashes. The
association of a waiting datagram with its request is the subject of `Forwarding`; here
they stay together. `replaced` is an auxiliary variable: the programs whose descriptor
was overwritten by that of a second program of their kind. The phase "mute" is that of a
program that connected and went before it had sent its handshake; one that went later is
"gone".

## 4. Runs

| Run | Network, bounds | Checks | Shows |
|---|---|---|---|
| `boot_line` | A-B-C, C may die at any moment and come back | `Converges`, `EventuallyQuiet`, `DeadIsForgotten` | three daemons start in any order; if all stay up the tables become the shortest paths; UPDATEs end; nobody keeps a path to a dead daemon |
| `rejoin_triangle` | triangle, one daemon stops and comes back | `Converges` | all shortest paths again, whether it was dismissed meanwhile or not |
| `faults_line` | A-B-C boots; C may die and come back; one message lost or overtaken | `TypeOK`, `NeighbourListMatchesTable`, `RoutesUseNeighbours`, `NoUnderestimate`, `RouteSupported` | the invariants that survive these faults; on a faultless wire each path is backed by its next hop |
| `update_storm` | line of four, both ends die | violates `SettledIsQuiet` | two daemons send each other the same UPDATE for ever |
| `join_loop` | a triangle A-B-C with D behind C (topology `h1`); B starts while D stops, nothing is lost | violates `LoopFreeWhenQuiet` | a loop for D among A, B and C that no message and no timer ends (`routing_daemon.c:447`) |
| `restart_stale` | A-B-C, B restarts while C dies | violates `DeadIsForgotten` | A keeps a path to C through a B that has never heard of C |
| `keep_alive` | A-B, both may stop and come back once at any second; 10 s, 30 s, alarms up to 1 s late, messages up to 1 s under way, one KEEP-ALIVE in a row lost | `TypeOK`, `DismissedInTime`, `OnlyTheDeadAreDismissed`, `KeepsUntimed`, `Reunited` | a dead neighbour is dismissed by the first alarm after the timeout, a live one never; the clocks justify `RoutingDaemon` |
| `msgq_two` | any pushes, a pop for each entry counted | violates `ImplementsFifo` | the second push loses its entry and links the first node to itself (`msgQ.c:58`); the pop then leaves a freed node as the head |
| `forward_line` | A-B-C, right answers for C and any for A and B; routing daemons of A and B stop and start; ttl 0 (default), 1 and 3 (too wide for a field of 3 values); 2 datagrams, which may wait together | `TypeOK`, `PopFindsDatagram`, `QueuesBreakAtTwo`, `StaysInStep`, `EveryPacketLeaves`, `EveryPacketArrives` | a queue that counts no datagram is never popped, and one is broken only by an operation while two are in it; at a node whose routing daemon stays, the head of an unbroken queue gets its own answer; if besides no two wait together every datagram leaves the network, and those with a right path and enough ttl arrive |
| `arp_line` | A-B-C, B has datagrams for both A and C, A and C for B; 2 datagrams, one loss, B's address moves | `TypeOK`, `WaitingIsAnswered`, `ListBreaksOutOfOrder`, `EveryDatagramArrives` | a list breaks only by a response for a datagram that stands behind one for the other neighbour; in one that is not broken no wake-up is missed when nodes ask for each other at once |
| `arp_order` | only B sends, to A and C | violates `ListCanBeWalked` | a freed node stays linked (`arpFunctions.c:158-168`) |
| `applications` | two clients, a server, two routing daemons and a client elsewhere, of which any three start; server and routing daemons may be killed | `TypeOK`, `DescriptorsOfTheirKind`, `NoStaleEvent`, `NoDescriptorLost`, `AnswerIsToTheQuestion`, `CrashesOnlyAfterReset`, `HandshakeReturns`, `RemoteIsAnswered`, `Settles` | no program is taken for one of another kind although descriptor numbers come back and events grow old; a client gets its own answer but for the cases named; the daemon comes to rest but for the cases named |

Where a run has faults that a property does not survive, the property names its
condition: `FaultlessWire`, `Connected` (no routing daemon stops), `Serial` (no two
datagrams in one queue) and `Undisturbed` (no frame is lost, no host replaced, no list
broken) are the behaviours without the
fault, and the other behaviours of the same run are there for the remaining properties.
The properties of `Applications` name what the code really does in the bad cases: a
second program of a kind overwrites the descriptor of the first, whose hang-up is then
reported for ever (`Settles`) and whose answers go to the second
(`AnswerIsToTheQuestion`); a program that goes before its handshake leaves its descriptor
open (`NoDescriptorLost`); a server that gets the late answer of a client that gave up
answers that too; a routing daemon that dies at the wrong moment takes the MIP daemon
with it (`CrashesOnlyAfterReset`). Each is reached in the run.

Each property of a passing run has a mutant (`PROJECT.json`): an operator beside the
one it replaces, marked "Mutant" in the module, that breaks the property.

### Bounds and why they are enough

- *Networks.* A line is the smallest network with a forwarding node, a triangle the
  smallest with a second path; two daemons that are both in the middle take a line of
  four. They are the pieces of `topo_p2p.py`.
- `Infinity` = 4 instead of 255 (6 in `join_loop`): greater than any distance here, and
  small enough that a count to infinity would end inside the bound.
- `join_loop` does not boot its network of four: `JoinInit` is the state in which A, C and D
  have found the shortest paths and B has not started, which a boot without faults
  leads to. Nothing in the history it finds depends on the value of `Infinity`: the loop
  has finite costs that nobody changes any more.
- `MaxChan` = 6: only `faults_line` comes to it, where a daemon that restarts and whose
  messages nobody has read yet writes on. It limits how far a writer may be ahead of a
  reader, as the socket buffer does; the liveness runs never reach it (the longest
  channel of `boot_line` holds 5 messages, that of `keep_alive`, where `MaxChan` is 4, holds
  4, those of the others fewer), so it takes no behaviour away from them.
- One crash per node and at most one fault of the wire (`MaxWireFaults`), a loss or an
  overtaking: a second crash of the same node starts from a state the first one also
  reaches.
- The times of `keep_alive` are those of the code, and with them `GraceAssumption` and
  `JoinAssumption` (section 5) hold. `MaxMissed` = 1 is what the code
  tolerates: three gaps of 10 s, with any lateness, are more than 30 s, so two lost in
  a row dismiss a live neighbour. Two daemons are enough, as clocks are kept by pairs;
  the theorem about them (section 5) is for every network.
- `MaxStarted` = 3 of six programs in `applications`: an exchange takes three (two
  ends and a routing daemon), and so does one that replaces another during an exchange.
- `DEFAULT_TTL_MIP` is 2, the greatest distance: both the last hop that is granted and
  the wrap-around of the bit field occur.
- `MaxData`, `MaxPackets` 2: two nodes that ask for each other, a datagram that
  follows another, and two that wait in one queue or list, which is where both structures
  break. A third push, which does not return, is in `msgq_two` and in the theorems, which
  are for any number. There are addresses enough in `Addr` that `malloc` never fails and
  has a choice.
- `CHECK_DEADLOCK FALSE` where the system may stop: all datagrams are sent (`forward_line`,
  `arp_*`), the queue hangs (`msgq_two`), the
  programs have gone (`applications`), or every HELLO has been lost and nobody has a
  neighbour to write to (`faults_line`).

### Fairness

Weak fairness of the handlers, because epoll reports a ready descriptor until it is
read, each handler returns, and both daemons of a host are scheduled; in `RoutingDaemon`
one condition for each link and kind of message, since what comes first on a link is
handled first; of the alarm, which is armed again after each expiry; of the arrival of a
frame, on wires that lose nothing. In `KeepAlive` also of `Tick`, which lets nothing
wait beyond its bound. In `Applications` of the daemon, of every program that runs, and
of the other hosts. No fairness is assumed of the start of a program, crashes, restarts
of a stopped daemon, losses, hosts that move, or the connection of a routing daemon in `Forwarding`;
in `RoutingDaemon` daemons are started once (a network with no daemons has nothing to
converge). `FallSilent` is fair: 30 s pass.

The starting state of the `Established` specifications is the one that `Converges`
leads to: all daemons up, shortest paths, all neighbours known.

## 5. Proofs

`RoutingDaemon_proofs` (for every set of nodes, wiring, `Infinity`, bounds, and every
schedule of crashes, restarts, losses and overtakings): from `Spec`,

- `TypeCorrect`: `TypeOK`;
- `NeighboursCorrect`: `NeighbourListMatchesTable`;
- `RoutesCorrect`: `RoutesUseNeighbours`;
- `CostsCorrect`: `NoUnderestimate`.

The argument is one inductive invariant. `NoUnderestimate` alone is not inductive: what
a table believes comes out of a message, so the invariant adds that each UPDATE in
flight is no better than the distance from its *sender*, and the assumption on `Dist`
(it grows by at most one over a wire, `DistAssumption`) carries that over to the
receiver. `NeighbourListMatchesTable` needs that a daemon that does not run has an empty
table, that an advertised cost of 0 is the sender's own entry, and that messages travel
between linked nodes, so that a cost of 1 can only come from a neighbour itself.
`RoutesUseNeighbours` needs the two together: a path is learned from a node that has
just become, or was, a neighbour. The module states these parts one by one, with lemmas
about the operators of `RoutingTable`, and one step per action.

Two more theorems are about the network as a whole, for networks that form before the
first daemon stops (`StopsOnlyFormed`) and whose daemons then stop for good
(`MayRestart = {}`), any number of them, at any time:

- `PathsAreSupported`: `RouteSupported`;
- `NoLoopOnceQuiet`: `LoopFreeWhenQuiet`, if the wire is faultless.

Their invariant `BInv` looks at what is in flight once more. A path is learned from an
UPDATE, so the same must be said of every path that a message offers: from the place of
that message on, its sender still has a path as cheap, or withdraws it in a later message
(`Backs`, `BackedMessages`, `BackedRoutes`). A daemon gives up a path only by poison
(`KeepsOrPoisons`: an UPDATE or `controlTime` improves an entry or makes it unreachable),
and then writes to all its neighbours. This is enough only if everyone who has been
offered the path *is* a neighbour by then, which is what `Formed` says, and if nobody gives
up a path before: until a daemon stops nothing is withdrawn, because nobody falls silent,
because the list of a daemon has only those that have it on theirs or are about to
(`Forming`). From `RouteSupported` to the absence of loops it is a short way: when no
UPDATE is in flight the cost falls along every path, so a set of nodes that pass a packet
on among themselves would have no node of least cost.

The first condition is needed: `join_loop` is a faultless history without it. In its
triangle A-B-C with a node D behind C, B starts while D stops: C answers B's HELLO with its
path to D, dismisses D before B is on its list, and B never hears of it. B offers the path
to A, A offers it to C, and the three are left with a loop for D. The second is needed too:
`restart_stale` is a history with a restart in the middle of a line after which a path
stays without support. `faults_line` checks `RouteSupported` also where the theorem does
not reach, with a restart at the edge of a line and a daemon that stops at any moment of
the boot. `LoopFreeWhenQuiet` is not checked there: a line has no cycle but that of two
neighbours.

`KeepAlive_proofs`, for every network and every choice of the times:

- `ClocksAreTyped`: `TypeOK`; `DeadIsDismissedInTime`: `DismissedInTime`.
- `NoFalseAlarm`: from the established network, if
  `(MaxMissed + 1) * (Period + MaxSlack) + MaxDelay <= Timeout` (`GraceAssumption`; with the
  code's times and one lost KEEP-ALIVE 2 * 11 + 1 <= 30), two linked daemons that do not
  stop always monitor each other (`LiveNeighboursStay`), whatever the others do.

- `ClocksKeepUntimed`: `KeepsUntimed`, from `Spec` and with every crash and restart, if
  `2 * MaxChan * MaxDelay + (MaxMissed + 1) * (Period + MaxSlack) <= Timeout` and
  `MaxChan * MaxDelay + MaxDelay < Period` (`JoinAssumption`; four messages in flight, a
  second for each and one lost KEEP-ALIVE make 8 + 22 <= 30 and 5 < 10). So what
  `RoutingDaemon_proofs` shows of `RoutingDaemon` holds of the daemons with clocks.
- `DismissesOnlyTheDead`: `OnlyTheDeadAreDismissed` under the same condition.

For the first two the invariant adds that `silence` is at most `Timeout + armed`: an
alarm has looked at every neighbour when the timer was last armed. For the third, that
`silence` is at most the age of the *neighbour's* timer and a gap for each KEEP-ALIVE
missed in a row, and one gap more while the latest one is in flight, which is then as old as
the timer it left with. So the silence a daemon measures is bounded by a clock of
another host, which is what makes the argument independent of how the two clocks are
shifted.

The last two are about neighbours that come and go, and have to show that whoever
becomes overdue has stopped or is about to say HELLO (`OverdueIsAway`). A daemon n that
monitors m may wait for a sign of life although m runs: m has just come back, or m has
dismissed n. The invariant `JInv` says of every such pair that m has a HELLO on its way to n,
or monitors n and sends it KEEP-ALIVEs (`Served`), or will monitor it soon: n wrote m an
UPDATE after it last noted the time of m (`JoinsBehind`). That UPDATE exists because n
answers each HELLO with its table, and because n has told m its table since it said
HELLO itself (`Told`). How long n may be silent about m is then bounded by the age of what
is in flight: a message at place i of a channel has come from place `MaxChan` at most, a
`MaxDelay` for each place (`Age`), so a sign of life is at most one channel, the gaps of
the lost KEEP-ALIVEs and one more channel old (`AliveInTime`, `UpdateInTime`). A daemon's
HELLO has been read when its first alarm comes, and its last KEEP-ALIVEs before the next
(`Flight`), which is what the second half of `JoinAssumption` is for. `JInv` also contains
the invariant of `RoutingDaemon_proofs`: it is proved along with the refinement, as each
step that is one of `RoutingDaemon` keeps it.

`MsgQ_proofs` has the lemmas about `Push` and `Pop`. Whatever is pushed, however many
entries are counted and whatever memory `malloc` returns, a queue that starts empty has
one of four shapes (`Shaped`): it is empty; it has a single node; two entries are counted
and the only node is linked to itself (`Looped`); or one is counted and the head is a freed
node (`HeadFreed`). From a third push at a looped queue there is no return, and a pop
of a freed head has no result; with these two the shapes are closed under `Push` and
`Pop`. `MsgQClient_proofs` concludes

- `BreaksOnlyAtTwoCorrect`: `BreaksOnlyAtTwo`, a sound queue is broken only by an
  operation while two entries are counted.

`Forwarding_proofs` builds on the same lemmas. For every network, `DEFAULT_TTL_MIP`,
`AppTtl` and `Answers`, for any number of datagrams, and whenever routing daemons stop
and connect:

- `TypeCorrect`: `TypeOK`;
- `PopFindsCorrect`: `PopFindsDatagram`;
- `QueuesBreakCorrect`: `QueuesBreakAtTwo`;
- `StaysInStepCorrect`: `StaysInStep`, while a routing daemon stays connected as many
  answers are to come as datagrams are counted, and the next is about the head, as long
  as the queue is not broken, with two datagrams in it too.

`TypeOK` is not inductive, because a pop of an empty queue would count down from 0. The
invariant `IInv` adds that each queue is `Shaped` and that the answers and requests under
way are no more than the entries it counts (`InStep`): an answer that can be read therefore
finds an entry counted, and a stop or a hang-up only makes them fewer. For `StaysInStep`
the two numbers are equal and the oldest question under way is for the head (`ForHead`).
This survives the second datagram, which `push` loses: its question is behind that for
the head. The pop of the head breaks the queue, and nothing is claimed from then on.

`MipArp_proofs`, for every network, `Traffic`, heap, schedule of losses and of hosts that
move:

- `TypeCorrect`: `TypeOK`;
- `BreaksCorrect`: `ListBreaksOutOfOrder`, `addEntry` never breaks a list and
  `sendWaitingMsgs` only one in which a datagram for the neighbour that has answered stands
  behind one for another;
- `AnsweredCorrect`: `WaitingIsAnswered`, in every list that is not broken.

The inductive invariant says that a list in state "ok" is
`Whole`: the walk from the head meets every allocated node and no other, comes to a last
one, and there are `entries` of them. An entry added leaves a list whole. If the entries
for a neighbour all stand before the others, the head moves over them and what remains
is whole again; if not, one that remains points to one that is freed, and the list is
"dangling" or worse. What `Walk`
and `Waiting` compute is an induction over numbers; as the library's induction theorem
cannot be instantiated, it is done by taking the least number for which the claim
would fail (`LeastNatural`). For `WaitingIsAnswered` the invariant has each entry of a
list in state "ok", while no frame was lost, `AskedFor`, and that no node writes to itself.

`Applications_proofs`, for any numbers of descriptors and any programs that start:

- `TypesOK`: `TypeOK`;
- `DescriptorsAreOfTheirKind`: `DescriptorsOfTheirKind`;
- `EventsAreNotStale`: `NoStaleEvent`;
- `DescriptorsAreNotLost`: `NoDescriptorLost`;
- `OnlyAResetCrashes`: `CrashesOnlyAfterReset`.

An event grows old while the batch it is part of is handled. It is not *stale* when its
turn comes because a descriptor is closed only when its own event is handled, of which
a batch has one, so that a number that is given away again has no event left. The
invariant ties each event of a batch to a program that is connected under that
descriptor, has hung up or written something, as the event says (`Events`), each
program to one connection (`OneConnectionEach`), and what is in a socket to the kind of
program that wrote it (`Protocol`). For `NoDescriptorLost` it says that a handshake stays in
the socket until `accept` reads it: an accept that reads nothing is that of a program
that never wrote one, the only one whose hang-up finds no variable with its
descriptor although no other took its place. `Answers_proofs` concludes from it

- `AnswersAreToTheQuestion`: `AnswerIsToTheQuestion`,

with an invariant that follows a question and its answer: from the moment a client asks
there is one message about it on the host and in the network (`OneMessage`), and it
leaves the client's own socket only when the client is, or was, the ping application.

Assumptions are the named ASSUMEs of the modules: `Infinity >= 2`, wires go both ways and
join different nodes, `Dist` is 0 from a node to itself and grows by at most 1 over a
wire (`KeepAlive` assumes both as `RoutingDaemon` does), a channel holds a message, `NoEntry`, `NULL` and `Free` are not ordinary values, bounds are natural numbers,
programs and descriptors are what their modules say.

### Only model-checked

- Liveness (`Converges`, `EventuallyQuiet`, `DeadIsForgotten`, `EveryPacketArrives`,
  `EveryPacketLeaves`, `EveryDatagramArrives`, `Reunited`, `HandshakeReturns`,
  `RemoteIsAnswered`, `Settles`): the prover has no fairness and no ENABLED.
- `RouteSupported` with restarts, or with a daemon that stops while the network forms:
  `faults_line`, on a line.

## 6. What the violations show

Five places in the code do not do what the comments beside them say; each has a run whose
counterexample is the shortest history that gets there, and an entry under "findings".

- `msgq_two`: `push` loses the second of two waiting datagrams (`msgQ.c:58`).
- `arp_order`: removing from the middle of the waiting list (`arpFunctions.c:165`).
- `update_storm`: `changed` is set by a poisoning that changes nothing
  (`routing_daemon.c:374`), and `restart_stale`: a neighbour's HELLO leaves the paths
  through it as they are (`routing_daemon.c:457`).
- `join_loop`: the sender of a first HELLO is told the paths there are, but not on the list
  of those who are told when they go (`routing_daemon.c:447`), against the loop protection
  that README.md:17 of the repository names.

Three more differences have no run. Datagrams stay in `waitingQ` when the routing daemon
hangs up (`mip_daemon.c:511`), and `mip_daemon.c:176` queues a datagram to be forwarded
even if no routing daemon is connected: the next daemon's answers are then applied to
datagrams they are not about. (`StaysInStep` is therefore about nodes whose routing daemon
stays; with the left-over datagram the next one is the second in the queue, so that
`push` loses it and the answer to its question goes to the one left over.) `updateArpEntry` is there for a host that takes over
a MIP address (`arpFunctions.c:82`), but only the host that is asked for calls it: a
broadcast for another host leaves an existing entry alone (`mip_daemon.c:92`), and a
response appends a second entry behind the one that is found (line 100), so senders
go on with the old host (in `arp_line`, `EveryDatagramArrives` is for hosts that
stay). And README.md:17 of the repository names poisoned reverse,
while `sendUpdate` leaves out the paths through the receiver (`routing_daemon.c:154`),
which is split horizon; in `join_loop` it is this silence that keeps C from telling A
that the path has come back to it. (C does tell B its new cost, but an UPDATE never raises
the cost of a path through its sender, unless it is unreachable.)

## 7. Limits

- A write that blocks on a full socket, in both directions at once. A socket buffer holds
  some 280 messages and every read is followed by a few writes; a bound small enough to
  check would deadlock only because of the bound.
- MIP address 255 (broadcast, and "no route") is outside `routingTable[255]`; the models
  have smaller addresses only.
- The payload, its length in 9 bits and the padding.
- Delays of more than `MaxDelay` and alarms later than `MaxSlack`: a message that takes
  longer than the timers would arrive from a neighbour that has been dismissed.
- `Applications` has one frame of a kind on its wire and a `RoutingDaemon` has a REQUEST
  answered at once; the compositions stay apart to be checkable.
- Memory that is never freed (the early return at `mip_daemon.c:312`) changes no
  behaviour here.
