------------------------------ MODULE KeepAlive ------------------------------
(***************************************************************************)
(* The routing daemons of RoutingDaemon with the clocks that RoutingDaemon *)
(* leaves out: the timerfd of each daemon, the time_t of each neighbour,   *)
(* and the time messages take.  RoutingDaemon says "n has not heard of m   *)
(* for 30 s" in one step, when m is not sending; here the seconds pass and *)
(* the code has to earn it.                                                *)
(*                                                                         *)
(* Time is in whole seconds, as controlTime compares it (time, difftime).  *)
(* The handlers that neither read nor re-arm a clock are those of          *)
(* RoutingDaemon; HandleKeepAlive and Alarm are written out.               *)
(***************************************************************************)
EXTENDS RoutingTable, Sequences

CONSTANTS
  Link, MayCrash, MayRestart, MaxChan, Dist,  \* as in RoutingDaemon
  Period,     \* seconds from arming the timer to its expiry: 10
  Timeout,    \* a neighbour silent for more than this is dead: 30
  MaxSlack,   \* bound: seconds from the expiry to the handling of it
  MaxDelay,   \* bound: seconds the next message of a channel is under way
  MaxMissed   \* bound: KEEP-ALIVEs in a row that the wire loses

ASSUME LinkAssumption ==
  /\ Link \subseteq Node \X Node
  /\ \A l \in Link : l[1] # l[2] /\ <<l[2], l[1]>> \in Link
ASSUME DistAssumption ==
  /\ Dist \in [Node -> [Node -> Cost]]
  /\ \A n \in Node : Dist[n][n] = 0
  /\ \A l \in Link, d \in Node : Dist[l[2]][d] <= Dist[l[1]][d] + 1
ASSUME RoomAssumption == MaxChan \in Nat \ {0}
ASSUME TimeAssumption ==
  /\ Period \in Nat \ {0} /\ Timeout \in Nat /\ MaxSlack \in Nat
  /\ MaxDelay \in Nat /\ MaxMissed \in Nat
  /\ MaxDelay < Period

VARIABLES
  process, table, neighbourList, chan, alive, crashed,  \* as in RoutingDaemon
  armed,      \* armed[n]: seconds since n armed its timer
  silence,    \* silence[n][m]: seconds since n noted the time of neighbour m
  underWay,   \* underWay[s][d]: seconds the next message of chan[s][d] took
  aliveFor,   \* aliveFor[s][d]: the same for the KEEP-ALIVE from s to d
  missed      \* missed[s][d]: KEEP-ALIVEs in a row lost between s and d

clocks == <<armed, silence, underWay, aliveFor, missed>>
vars == <<process, table, neighbourList, chan, alive, crashed, clocks>>

\* Mutant: a period too many before a neighbour counts as dead.
OverdueLate == [n \in Node |-> {m \in Node : silence[n][m] > Timeout + Period}]

\* Mutant: a neighbour counts as dead a period too early.
OverdueEarly == [n \in Node |-> {m \in Node : silence[n][m] > Timeout - Period}]

\* difftime(now, neighbour's time) > 30 of controlTime, for every neighbour.
Overdue == [n \in Node |-> {m \in Node : silence[n][m] > Timeout}]

\* The daemons without clocks.  Lost KEEP-ALIVEs are counted here, no other
\* message is lost.
Untimed ==
  INSTANCE RoutingDaemon WITH overdue <- Overdue, wireFaults <- 0,
                              MaxWireFaults <- 0

NoTime == [s \in Node |-> [d \in Node |-> 0]]

\* Every timer is armed when its daemon starts; no neighbour is known.
InitClocks ==
  /\ armed = [n \in Node |-> 0]
  /\ silence = NoTime
  /\ underWay = NoTime
  /\ aliveFor = NoTime
  /\ missed = NoTime

Init == InitClocks /\ Untimed!Init

InitEstablished == InitClocks /\ Untimed!InitEstablished

\* The next message of each channel named has just become the next one.
NextOf(s, n) == underWay' = [underWay EXCEPT ![s][n] = 0]

-----------------------------------------------------------------------------
(* The daemon.                                                             *)

\* timerfd_settime in main.
Start(n) ==
  /\ armed' = [armed EXCEPT ![n] = 0]
  /\ UNCHANGED <<silence, underWay, aliveFor, missed>>
  /\ Untimed!Start(n)

HandleHandshakeReply(n) ==
  /\ UNCHANGED clocks
  /\ Untimed!HandleHandshakeReply(n)

\* Mutant: the time is not reset.
KeepTime(n, s) == silence

\* updateTime(s); silence is 0 anyway if s is not on the list.
UpdateTime(n, s) == [silence EXCEPT ![n][s] = 0]

HandleHello(n, s) ==
  /\ silence' = UpdateTime(n, s)
  /\ NextOf(s, n)
  /\ UNCHANGED <<armed, aliveFor, missed>>
  /\ Untimed!HandleHello(n, s)

\* addToRoutingTable and updateRoutingEntry note the time of a neighbour they
\* put on the list; a neighbour that is on it has to send KEEP-ALIVEs.
HandleUpdate(n, s) ==
  /\ Untimed!Next2Read(n, s, "UPDATE")
  /\ silence' = [silence EXCEPT ![n] = [m \in Node |->
       IF m \in NewNeighbours(table[n], Head(chan[s][n]).adv, s) THEN 0 ELSE @[m]]]
  /\ NextOf(s, n)
  /\ UNCHANGED <<armed, aliveFor, missed>>
  /\ Untimed!HandleUpdate(n, s)

HandleKeepAlive(n, s) ==
  /\ process[n] = "running"
  /\ <<s, n>> \in alive
  /\ alive' = alive \ {<<s, n>>}
  /\ silence' = UpdateTime(n, s)
  /\ aliveFor' = [aliveFor EXCEPT ![s][n] = 0]
  /\ missed' = [missed EXCEPT ![s][n] = 0]
  /\ UNCHANGED <<process, table, neighbourList, chan, crashed, armed, underWay>>

\* Mutant: the entry of a dismissed neighbour is not freed.
KeepEntries(n) == silence

\* removeFromList of every overdue neighbour.
FreeEntries(n) ==
  [silence EXCEPT ![n] = [m \in Node |-> IF m \in Overdue[n] THEN 0 ELSE @[m]]]

\* alarm_ and the timerfd_settime after it: KEEP-ALIVEs to every neighbour,
\* then controlTime dismisses those that were silent for too long.
Alarm(n) ==
  LET nbs == neighbourList[n] \ Overdue[n]
      to  == IF Overdue[n] # {} THEN nbs ELSE {}
  IN  /\ process[n] # "down"
      /\ armed[n] >= Period
      /\ Untimed!RoomFor(n, to)
      /\ armed' = [armed EXCEPT ![n] = 0]
      /\ alive' = alive \cup {<<n, m>> : m \in neighbourList[n]}
      /\ table' = [table EXCEPT ![n] = RemoveFromRouting(@, Overdue[n])]
      /\ neighbourList' = [neighbourList EXCEPT ![n] = nbs]
      /\ silence' = FreeEntries(n)
      /\ chan' = Untimed!Announced(n, table'[n], to)
      /\ UNCHANGED <<process, crashed, underWay, aliveFor, missed>>

-----------------------------------------------------------------------------
(* The environment.                                                        *)

Crash(n) ==
  /\ armed' = [armed EXCEPT ![n] = 0]
  /\ silence' = [silence EXCEPT ![n] = [m \in Node |-> 0]]
  /\ UNCHANGED <<aliveFor, missed>>
  /\ Untimed!Crash(n)
  /\ underWay' = [underWay EXCEPT ![n] = [d \in Node |->
                    IF chan'[n][d] = <<>> THEN 0 ELSE @[d]]]

DropMessage(n, s) ==
  /\ NextOf(s, n)
  /\ UNCHANGED <<armed, silence, aliveFor, missed>>
  /\ Untimed!DropMessage(n, s)

\* Nobody is there to miss the KEEP-ALIVE.
DropKeepAlive(n, s) ==
  /\ aliveFor' = [aliveFor EXCEPT ![s][n] = 0]
  /\ missed' = [missed EXCEPT ![s][n] = 0]
  /\ UNCHANGED <<armed, silence, underWay>>
  /\ Untimed!DropKeepAlive(n, s)

LoseKeepAlive(n, s) ==
  /\ <<s, n>> \in alive
  /\ missed[s][n] < MaxMissed
  /\ missed' = [missed EXCEPT ![s][n] = @ + 1]
  /\ aliveFor' = [aliveFor EXCEPT ![s][n] = 0]
  /\ alive' = alive \ {<<s, n>>}
  /\ UNCHANGED <<process, table, neighbourList, chan, crashed,
                 armed, silence, underWay>>

\* A second passes, unless something must happen before it is over.
Tick ==
  /\ \A n \in Node :
       /\ process[n] = "connected" => armed[n] < MaxDelay
       /\ process[n] = "running" => armed[n] < Period + MaxSlack
  /\ \A s \in Node, d \in Node :
       /\ chan[s][d] # <<>> => underWay[s][d] < MaxDelay
       /\ <<s, d>> \in alive => aliveFor[s][d] < MaxDelay
  /\ armed' = [n \in Node |-> IF process[n] = "down" THEN 0 ELSE armed[n] + 1]
  /\ silence' = [n \in Node |-> [m \in Node |->
       IF m \in neighbourList[n] THEN silence[n][m] + 1 ELSE 0]]
  /\ underWay' = [s \in Node |-> [d \in Node |->
       IF chan[s][d] # <<>> THEN underWay[s][d] + 1 ELSE 0]]
  /\ aliveFor' = [s \in Node |-> [d \in Node |->
       IF <<s, d>> \in alive THEN aliveFor[s][d] + 1 ELSE 0]]
  /\ UNCHANGED <<process, table, neighbourList, chan, alive, crashed, missed>>

-----------------------------------------------------------------------------
Handle(n, s) ==
  \/ HandleHello(n, s) \/ HandleUpdate(n, s) \/ DropMessage(n, s)

HandleAlive(n, s) ==
  \/ HandleKeepAlive(n, s) \/ DropKeepAlive(n, s) \/ LoseKeepAlive(n, s)

Next ==
  \/ \E n \in Node : Start(n) \/ HandleHandshakeReply(n) \/ Alarm(n) \/ Crash(n)
  \/ \E n \in Node, s \in Node : Handle(n, s) \/ HandleAlive(n, s)
  \/ Tick

Spec == Init /\ [][Next]_vars

EstablishedSpec == InitEstablished /\ [][Next]_vars

\* Time passes, and what is due is done.
Fairness ==
  /\ WF_vars(Tick)
  /\ \A n \in Node :
       /\ WF_vars(HandleHandshakeReply(n))
       /\ WF_vars(Alarm(n))
       /\ \A s \in Node : WF_vars(Handle(n, s)) /\ WF_vars(HandleAlive(n, s))

FairSpec == Spec /\ Fairness

-----------------------------------------------------------------------------
(* Properties.                                                             *)

\* Time is kept of monitored neighbours and of what is in flight only, and
\* nothing is later than its bound.
TypeOK ==
  /\ armed \in [Node -> 0 .. (Period + MaxSlack)]
  /\ silence \in [Node -> [Node -> Nat]]
  /\ underWay \in [Node -> [Node -> 0 .. MaxDelay]]
  /\ aliveFor \in [Node -> [Node -> 0 .. MaxDelay]]
  /\ missed \in [Node -> [Node -> 0 .. MaxMissed]]
  /\ \A n \in Node, m \in Node : m \notin neighbourList[n] => silence[n][m] = 0

\* A neighbour that has stopped is dismissed by the first alarm after the
\* timeout: its paths are used for so long and no longer.
DismissedInTime ==
  \A n \in Node, m \in Node : silence[n][m] <= Timeout + Period + MaxSlack

\* routingTable.c:150-152: only a neighbour that has stopped is dismissed, or
\* one that is just coming back: its HELLO has not been answered yet.
OnlyTheDeadAreDismissed ==
  [][\A n \in Node : \A m \in neighbourList[n] \ neighbourList'[n] :
        \/ process'[n] = "down"
        \/ chan[m][n] = <<>> /\ process[m] # "running"
        \/ chan[m][n] # <<>> /\ Head(chan[m][n]).type = "HELLO" ]_vars

\* The clocks keep what RoutingDaemon assumes of them: silence of 30 s means
\* that the neighbour is not sending (FallSilent), and an alarm finds no
\* KEEP-ALIVE of the last one in flight.
KeepsUntimed == Untimed!Spec

\* The timeout leaves room for the longest gap between two alarms, once more
\* for every lost KEEP-ALIVE, and for the way of the one that arrives.
GraceAssumption ==
  (MaxMissed + 1) * (Period + MaxSlack) + MaxDelay <= Timeout

\* The timeout also covers that a HELLO, and the UPDATE that answers it, wait
\* behind all that a channel holds; and both of a daemon's first messages are
\* read before it sends its first KEEP-ALIVE.
JoinAssumption ==
  /\ 2 * (MaxChan * MaxDelay) + (MaxMissed + 1) * (Period + MaxSlack) <= Timeout
  /\ MaxChan * MaxDelay + MaxDelay < Period

\* Two neighbours that never stop never lose sight of each other, whatever
\* the other daemons do.
LiveNeighboursStay ==
  \A l \in Link : {l[1], l[2]} \cap MayCrash = {} => l[2] \in neighbourList[l[1]]

\* Two neighbours that stay up end up monitoring each other, whatever the
\* moment at which one of them came back, and stay so.
Reunited ==
  <>[](\A n \in Node : process[n] = "running") =>
    <>[](\A l \in Link : l[2] \in neighbourList[l[1]])
=============================================================================
