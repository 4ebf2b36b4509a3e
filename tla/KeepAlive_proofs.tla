-------------------------- MODULE KeepAlive_proofs --------------------------
(***************************************************************************)
(* Proofs about KeepAlive, for every network and every choice of the       *)
(* times: the clocks keep their bounds, a dead neighbour is dismissed in   *)
(* time, and a live one is never dismissed.                                *)
(***************************************************************************)
EXTENDS KeepAlive, SequenceTheorems, TLAPS

\* What the clocks rest on: only a daemon that runs has neighbours, and the
\* last alarm left nobody who had been silent for longer than the timeout.
ClocksSound ==
  /\ TypeOK
  /\ process \in [Node -> {"down", "connected", "running"}]
  /\ neighbourList \in [Node -> SUBSET Node]
  /\ \A n \in Node : process[n] # "running" => neighbourList[n] = {}
  /\ \A n \in Node, m \in Node : silence[n][m] <= Timeout + armed[n]

LEMMA InitClocksSound ==
  ASSUME InitClocks
  PROVE  /\ TypeOK
         /\ \A n \in Node, m \in Node : silence[n][m] <= Timeout + armed[n]
BY TimeAssumption DEF InitClocks, NoTime, TypeOK

LEMMA InitSound == Init => ClocksSound
<1> SUFFICES ASSUME Init PROVE ClocksSound
  OBVIOUS
<1>1. process = [n \in Node |-> "down"] /\ neighbourList = [n \in Node |-> {}]
  BY DEF Init, Untimed!Init
<1> QED
  BY <1>1, InitClocksSound DEF Init, ClocksSound

LEMMA InitEstablishedSound == InitEstablished => ClocksSound
<1> SUFFICES ASSUME InitEstablished PROVE ClocksSound
  OBVIOUS
<1>1. /\ process = [n \in Node |-> "running"]
      /\ neighbourList = [n \in Node |-> Untimed!LinkedTo(n)]
  BY DEF InitEstablished, Untimed!InitEstablished
<1>2. \A n \in Node : Untimed!LinkedTo(n) \in SUBSET Node
  BY DEF Untimed!LinkedTo
<1> QED
  BY <1>1, <1>2, InitClocksSound DEF InitEstablished, ClocksSound

\* Resetting one clock of a table of clocks.
LEMMA ZeroClock ==
  ASSUME NEW S, 0 \in S, NEW f \in [Node -> [Node -> S]],
         NEW s \in Node, NEW n \in Node
  PROVE  /\ [f EXCEPT ![s][n] = 0] \in [Node -> [Node -> S]]
         /\ \A a \in Node, b \in Node :
              [f EXCEPT ![s][n] = 0][a][b] = IF a = s /\ b = n THEN 0 ELSE f[a][b]
<1> DEFINE g == [f[s] EXCEPT ![n] = 0]
<1>1. g \in [Node -> S] /\ g[n] = 0 /\ \A b \in Node \ {n} : g[b] = f[s][b]
  OBVIOUS
<1>2. [f EXCEPT ![s][n] = 0] = [f EXCEPT ![s] = g]
  OBVIOUS
<1> HIDE DEF g
<1>3. \A a \in Node : [f EXCEPT ![s] = g][a] = IF a = s THEN g ELSE f[a]
  OBVIOUS
<1>4. [f EXCEPT ![s] = g] \in [Node -> [Node -> S]]
  BY <1>1
<1> QED
  BY <1>1, <1>2, <1>3, <1>4

\* An action that leaves the timers and the list alone and at most resets
\* the time of one neighbour.
LEMMA ResetSound ==
  ASSUME ClocksSound, NEW n \in Node, NEW s \in Node,
         silence' = silence \/ silence' = UpdateTime(n, s),
         UNCHANGED <<process, neighbourList, armed>>,
         underWay' \in [Node -> [Node -> 0 .. MaxDelay]],
         aliveFor' \in [Node -> [Node -> 0 .. MaxDelay]],
         missed' \in [Node -> [Node -> 0 .. MaxMissed]]
  PROVE  ClocksSound'
<1>0. silence \in [Node -> [Node -> Nat]]
  BY DEF ClocksSound, TypeOK
<1>a. /\ UpdateTime(n, s) \in [Node -> [Node -> Nat]]
      /\ \A k \in Node, m \in Node :
           UpdateTime(n, s)[k][m] = IF k = n /\ m = s THEN 0 ELSE silence[k][m]
  <2>1. 0 \in Nat
    OBVIOUS
  <2> QED
    BY <1>0, <2>1, ZeroClock DEF UpdateTime
<1>1. silence' \in [Node -> [Node -> Nat]]
  BY <1>0, <1>a
<1>2. \A k \in Node, m \in Node : silence'[k][m] = silence[k][m] \/ silence'[k][m] = 0
  BY <1>0, <1>a
<1>3. TypeOK'
  BY <1>1, <1>2 DEF ClocksSound, TypeOK
<1>4. \A k \in Node, m \in Node : silence'[k][m] <= Timeout + armed'[k]
  BY <1>2, TimeAssumption DEF ClocksSound, TypeOK
<1> QED
  BY <1>3, <1>4 DEF ClocksSound

LEMMA StartSound ==
  ASSUME ClocksSound, NEW n \in Node, Start(n)
  PROVE  ClocksSound'
<1>1. /\ process[n] = "down"
      /\ process' = [process EXCEPT ![n] = "connected"]
      /\ neighbourList' = neighbourList
      /\ armed' = [armed EXCEPT ![n] = 0]
      /\ UNCHANGED <<silence, underWay, aliveFor, missed>>
  BY DEF Start, Untimed!Start, Untimed!daemonVars
<1>2. \A m \in Node : silence[n][m] = 0
  BY <1>1 DEF ClocksSound, TypeOK
<1>3. TypeOK'
  BY <1>1, TimeAssumption DEF ClocksSound, TypeOK
<1>4. \A k \in Node, m \in Node : silence'[k][m] <= Timeout + armed'[k]
  BY <1>1, <1>2, TimeAssumption DEF ClocksSound, TypeOK
<1> QED
  BY <1>1, <1>3, <1>4 DEF ClocksSound

LEMMA HandleHandshakeReplySound ==
  ASSUME ClocksSound, NEW n \in Node, HandleHandshakeReply(n)
  PROVE  ClocksSound'
<1>1. /\ process' = [process EXCEPT ![n] = "running"]
      /\ neighbourList' = neighbourList
      /\ UNCHANGED clocks
  BY DEF HandleHandshakeReply, Untimed!HandleHandshakeReply
<1> QED
  BY <1>1 DEF ClocksSound, TypeOK, clocks

LEMMA HandleHelloSound ==
  ASSUME ClocksSound, NEW n \in Node, NEW s \in Node, HandleHello(n, s)
  PROVE  ClocksSound'
<1>1. UNCHANGED <<process, neighbourList, armed, aliveFor, missed>>
  BY DEF HandleHello, Untimed!HandleHello
<1>2. silence' = UpdateTime(n, s) /\ underWay' = [underWay EXCEPT ![s][n] = 0]
  BY DEF HandleHello, NextOf
<1>3. 0 \in 0 .. MaxDelay
  BY TimeAssumption
<1>4. underWay' \in [Node -> [Node -> 0 .. MaxDelay]]
  BY <1>2, <1>3, ZeroClock DEF ClocksSound, TypeOK
<1> QED
  BY ZenonT(30), <1>1, <1>2, <1>4, ResetSound DEF ClocksSound, TypeOK

LEMMA HandleUpdateSound ==
  ASSUME ClocksSound, NEW n \in Node, NEW s \in Node, HandleUpdate(n, s)
  PROVE  ClocksSound'
<1> DEFINE new == NewNeighbours(table[n], Head(chan[s][n]).adv, s)
<1>1. /\ UNCHANGED <<process, armed, aliveFor, missed>>
      /\ process[n] = "running"
      /\ neighbourList' = [neighbourList EXCEPT ![n] = neighbourList[n] \cup new]
  <2>1. UNCHANGED <<armed, aliveFor, missed>> /\ Untimed!HandleUpdate(n, s)
    BY DEF HandleUpdate
  <2>2. UNCHANGED process /\ process[n] = "running"
    BY <2>1 DEF Untimed!HandleUpdate, Untimed!Next2Read
  <2>3. neighbourList' = [neighbourList EXCEPT ![n] = neighbourList[n] \cup new]
    BY <2>1 DEF Untimed!HandleUpdate, NewNeighbours, Untimed!NewNeighbours,
                Adds, Untimed!Adds, Improves, Untimed!Improves
  <2> QED
    BY <2>1, <2>2, <2>3
<1>2. /\ silence' = [silence EXCEPT ![n] =
                       [m \in Node |-> IF m \in new THEN 0 ELSE silence[n][m]]]
      /\ underWay' = [underWay EXCEPT ![s][n] = 0]
  BY DEF HandleUpdate, NextOf
<1>3. new \subseteq Node
  BY DEF NewNeighbours
<1>9. 0 \in 0 .. MaxDelay
  BY TimeAssumption
<1> HIDE DEF new
<1>4. \A k \in Node, m \in Node : silence'[k][m] = silence[k][m] \/ silence'[k][m] = 0
  BY <1>2 DEF ClocksSound, TypeOK
<1>5. /\ silence' \in [Node -> [Node -> Nat]]
      /\ neighbourList' \in [Node -> SUBSET Node]
      /\ \A k \in Node : neighbourList[k] \subseteq neighbourList'[k]
      /\ \A k \in Node : process'[k] # "running" => neighbourList'[k] = {}
  BY <1>1, <1>2, <1>3 DEF ClocksSound, TypeOK
<1>6. underWay' \in [Node -> [Node -> 0 .. MaxDelay]]
  BY <1>2, <1>9, ZeroClock DEF ClocksSound, TypeOK
<1>7. TypeOK'
  BY <1>1, <1>4, <1>5, <1>6 DEF ClocksSound, TypeOK
<1>8. \A k \in Node, m \in Node : silence'[k][m] <= Timeout + armed'[k]
  <2>1. armed' = armed
    BY <1>1
  <2>2. ASSUME NEW k \in Node, NEW m \in Node
        PROVE  silence'[k][m] <= Timeout + armed'[k]
    <3>1. armed[k] \in Nat /\ Timeout \in Nat /\ silence[k][m] <= Timeout + armed[k]
      BY TimeAssumption DEF ClocksSound, TypeOK
    <3>2. silence'[k][m] = silence[k][m] \/ silence'[k][m] = 0
      BY <1>4
    <3> QED
      BY <2>1, <3>1, <3>2
  <2> QED
    BY <2>2
<1> QED
  BY <1>1, <1>5, <1>7, <1>8 DEF ClocksSound

LEMMA AlarmSound ==
  ASSUME ClocksSound, NEW n \in Node, Alarm(n)
  PROVE  ClocksSound'
<1>1. /\ UNCHANGED <<process, underWay, aliveFor, missed>>
      /\ armed' = [armed EXCEPT ![n] = 0]
      /\ neighbourList' = [neighbourList EXCEPT ![n] = neighbourList[n] \ Overdue[n]]
  BY DEF Alarm
<1>2. silence' = [silence EXCEPT ![n] =
                    [m \in Node |-> IF m \in Overdue[n] THEN 0 ELSE silence[n][m]]]
  BY DEF Alarm, FreeEntries
<1>3. \A m \in Node : m \in Overdue[n] <=> silence[n][m] > Timeout
  BY DEF Overdue
<1>4. /\ silence' \in [Node -> [Node -> Nat]]
      /\ armed' \in [Node -> 0 .. (Period + MaxSlack)]
      /\ neighbourList' \in [Node -> SUBSET Node]
  BY <1>1, <1>2, TimeAssumption DEF ClocksSound, TypeOK
<1>5. ASSUME NEW k \in Node, NEW m \in Node
      PROVE  /\ silence'[k][m] <= Timeout + armed'[k]
             /\ m \notin neighbourList'[k] => silence'[k][m] = 0
  <2>1. CASE k = n
    <3>1. /\ silence'[k][m] = IF m \in Overdue[n] THEN 0 ELSE silence[n][m]
          /\ armed'[k] = 0
          /\ neighbourList'[k] = neighbourList[n] \ Overdue[n]
      BY <1>1, <1>2, <2>1 DEF ClocksSound, TypeOK
    <3>2. silence[n][m] \in Nat /\ (m \notin neighbourList[n] => silence[n][m] = 0)
      BY DEF ClocksSound, TypeOK
    <3> QED
      BY <1>3, <3>1, <3>2, TimeAssumption
  <2>2. CASE k # n
    <3>1. /\ silence'[k][m] = silence[k][m] /\ armed'[k] = armed[k]
          /\ neighbourList'[k] = neighbourList[k]
      BY <1>1, <1>2, <2>2 DEF ClocksSound, TypeOK
    <3> QED
      BY <3>1 DEF ClocksSound, TypeOK
  <2> QED
    BY <2>1, <2>2
<1>6. \A k \in Node : process'[k] # "running" => neighbourList'[k] = {}
  BY <1>1 DEF ClocksSound
<1> QED
  BY <1>1, <1>4, <1>5, <1>6 DEF ClocksSound, TypeOK

LEMMA CrashSound ==
  ASSUME ClocksSound, NEW n \in Node, Crash(n)
  PROVE  ClocksSound'
<1>1. /\ process' = [process EXCEPT ![n] = "down"]
      /\ neighbourList' = [neighbourList EXCEPT ![n] = {}]
  BY DEF Crash, Untimed!Crash
<1>2. /\ armed' = [armed EXCEPT ![n] = 0]
      /\ silence' = [silence EXCEPT ![n] = [m \in Node |-> 0]]
      /\ UNCHANGED <<aliveFor, missed>>
      /\ underWay' = [underWay EXCEPT ![n] = [d \in Node |->
                        IF chan'[n][d] = <<>> THEN 0 ELSE underWay[n][d]]]
  BY DEF Crash
<1>3. /\ silence' \in [Node -> [Node -> Nat]]
      /\ armed' \in [Node -> 0 .. (Period + MaxSlack)]
      /\ neighbourList' \in [Node -> SUBSET Node]
      /\ process' \in [Node -> {"down", "connected", "running"}]
      /\ underWay' \in [Node -> [Node -> 0 .. MaxDelay]]
  BY <1>1, <1>2, TimeAssumption DEF ClocksSound, TypeOK
<1>4. \A k \in Node : process'[k] # "running" => neighbourList'[k] = {}
  BY <1>1 DEF ClocksSound
<1>5. ASSUME NEW k \in Node, NEW m \in Node
      PROVE  /\ silence'[k][m] <= Timeout + armed'[k]
             /\ m \notin neighbourList'[k] => silence'[k][m] = 0
  BY <1>1, <1>2, TimeAssumption DEF ClocksSound, TypeOK
<1> QED
  BY <1>2, <1>3, <1>4, <1>5 DEF ClocksSound, TypeOK

LEMMA DropMessageSound ==
  ASSUME ClocksSound, NEW n \in Node, NEW s \in Node, DropMessage(n, s)
  PROVE  ClocksSound'
<1>1. /\ UNCHANGED <<process, neighbourList, armed, silence, aliveFor, missed>>
      /\ underWay' = [underWay EXCEPT ![s][n] = 0]
  BY DEF DropMessage, NextOf, Untimed!DropMessage, Untimed!daemonVars
<1>2. 0 \in 0 .. MaxDelay
  BY TimeAssumption
<1>3. underWay' \in [Node -> [Node -> 0 .. MaxDelay]]
  BY <1>1, <1>2, ZeroClock DEF ClocksSound, TypeOK
<1>4. /\ aliveFor' \in [Node -> [Node -> 0 .. MaxDelay]]
      /\ missed' \in [Node -> [Node -> 0 .. MaxMissed]]
  BY <1>1 DEF ClocksSound, TypeOK
<1>5. UNCHANGED <<process, neighbourList, armed>> /\ silence' = silence
  BY <1>1
<1> QED
  BY <1>3, <1>4, <1>5, ResetSound

\* What the three ends of a KEEP-ALIVE from s to n have in common.
LEMMA HandleAliveEffect ==
  ASSUME ClocksSound, NEW n \in Node, NEW s \in Node, HandleAlive(n, s)
  PROVE  /\ UNCHANGED <<process, neighbourList, armed, underWay>>
         /\ alive' = alive \ {<<s, n>>}
         /\ <<s, n>> \in alive
         /\ aliveFor' = [aliveFor EXCEPT ![s][n] = 0]
         /\ \/ silence' = UpdateTime(n, s) /\ missed' = [missed EXCEPT ![s][n] = 0]
            \/ /\ process[n] # "running" /\ silence' = silence
               /\ missed' = [missed EXCEPT ![s][n] = 0]
            \/ /\ missed[s][n] < MaxMissed /\ silence' = silence
               /\ missed' = [missed EXCEPT ![s][n] = missed[s][n] + 1]
<1>1. CASE HandleKeepAlive(n, s)
  BY <1>1 DEF HandleKeepAlive
<1>2. CASE DropKeepAlive(n, s)
  BY <1>2 DEF DropKeepAlive, Untimed!DropKeepAlive, Untimed!daemonVars
<1>3. CASE LoseKeepAlive(n, s)
  BY <1>3 DEF LoseKeepAlive
<1> QED
  BY <1>1, <1>2, <1>3 DEF HandleAlive

LEMMA HandleAliveSound ==
  ASSUME ClocksSound, NEW n \in Node, NEW s \in Node, HandleAlive(n, s)
  PROVE  ClocksSound'
<1>1. /\ UNCHANGED <<process, neighbourList, armed, underWay>>
      /\ aliveFor' = [aliveFor EXCEPT ![s][n] = 0]
      /\ silence' = silence \/ silence' = UpdateTime(n, s)
      /\ \/ missed' = [missed EXCEPT ![s][n] = 0]
         \/ /\ missed[s][n] < MaxMissed
            /\ missed' = [missed EXCEPT ![s][n] = missed[s][n] + 1]
  BY HandleAliveEffect
<1>2. 0 \in 0 .. MaxDelay
  BY TimeAssumption
<1>3. aliveFor' \in [Node -> [Node -> 0 .. MaxDelay]]
  BY <1>1, <1>2, ZeroClock DEF ClocksSound, TypeOK
<1>4. missed' \in [Node -> [Node -> 0 .. MaxMissed]]
  <2>1. missed \in [Node -> [Node -> 0 .. MaxMissed]] /\ missed[s][n] \in 0 .. MaxMissed
    BY DEF ClocksSound, TypeOK
  <2>2. 0 \in 0 .. MaxMissed
    BY TimeAssumption
  <2>3. missed[s][n] < MaxMissed => missed[s][n] + 1 \in 0 .. MaxMissed
    BY <2>1, TimeAssumption
  <2>4. ASSUME NEW x \in 0 .. MaxMissed
        PROVE  [missed EXCEPT ![s][n] = x] \in [Node -> [Node -> 0 .. MaxMissed]]
    BY <2>1
  <2> QED
    BY <1>1, <2>2, <2>3, <2>4
<1>5. underWay' \in [Node -> [Node -> 0 .. MaxDelay]]
  BY <1>1 DEF ClocksSound, TypeOK
<1>6. UNCHANGED <<process, neighbourList, armed>>
  BY <1>1
<1>7. silence' = silence \/ silence' = UpdateTime(n, s)
  BY <1>1
<1> QED
  BY <1>3, <1>4, <1>5, <1>6, <1>7, ResetSound

LEMMA TickSound ==
  ASSUME ClocksSound, Tick
  PROVE  ClocksSound'
<1>1. UNCHANGED <<process, neighbourList, missed>>
  BY DEF Tick
<1>2. ASSUME NEW n \in Node
      PROVE  armed'[n] \in 0 .. (Period + MaxSlack)
  <2>1. armed'[n] = IF process[n] = "down" THEN 0 ELSE armed[n] + 1
    BY DEF Tick
  <2>2. /\ process[n] = "connected" => armed[n] < MaxDelay
        /\ process[n] = "running" => armed[n] < Period + MaxSlack
    BY DEF Tick
  <2>3. process[n] \in {"down", "connected", "running"} /\ armed[n] \in Nat
    BY DEF ClocksSound, TypeOK
  <2> QED
    BY <2>1, <2>2, <2>3, TimeAssumption
<1>3. armed' \in [Node -> 0 .. (Period + MaxSlack)]
  BY <1>2 DEF Tick
<1>4. ASSUME NEW s \in Node, NEW d \in Node
      PROVE  underWay'[s][d] \in 0 .. MaxDelay /\ aliveFor'[s][d] \in 0 .. MaxDelay
  <2>1. /\ underWay'[s][d] = IF chan[s][d] # <<>> THEN underWay[s][d] + 1 ELSE 0
        /\ aliveFor'[s][d] = IF <<s, d>> \in alive THEN aliveFor[s][d] + 1 ELSE 0
    BY DEF Tick
  <2>2. /\ chan[s][d] # <<>> => underWay[s][d] < MaxDelay
        /\ <<s, d>> \in alive => aliveFor[s][d] < MaxDelay
    BY DEF Tick
  <2>3. underWay[s][d] \in 0 .. MaxDelay /\ aliveFor[s][d] \in 0 .. MaxDelay
    BY DEF ClocksSound, TypeOK
  <2> QED
    BY <2>1, <2>2, <2>3, TimeAssumption
<1>5. /\ underWay' \in [Node -> [Node -> 0 .. MaxDelay]]
      /\ aliveFor' \in [Node -> [Node -> 0 .. MaxDelay]]
  BY <1>4 DEF Tick
<1>6. ASSUME NEW n \in Node, NEW m \in Node
      PROVE  /\ silence'[n][m] \in Nat
             /\ silence'[n][m] <= Timeout + armed'[n]
             /\ m \notin neighbourList'[n] => silence'[n][m] = 0
  <2>1. silence'[n][m] = IF m \in neighbourList[n] THEN silence[n][m] + 1 ELSE 0
    BY DEF Tick
  <2>2. armed'[n] = IF process[n] = "down" THEN 0 ELSE armed[n] + 1
    BY DEF Tick
  <2>3. process[n] = "down" => m \notin neighbourList[n]
    BY DEF ClocksSound
  <2>4. silence[n][m] \in Nat /\ armed[n] \in Nat /\ silence[n][m] <= Timeout + armed[n]
    BY DEF ClocksSound, TypeOK
  <2> QED
    BY <1>1, <2>1, <2>2, <2>3, <2>4, TimeAssumption
<1>7. silence' \in [Node -> [Node -> Nat]]
  BY <1>6 DEF Tick
<1> QED
  BY <1>1, <1>3, <1>5, <1>6, <1>7 DEF ClocksSound, TypeOK

LEMMA NextSound == ClocksSound /\ [Next]_vars => ClocksSound'
<1> SUFFICES ASSUME ClocksSound, [Next]_vars PROVE ClocksSound'
  OBVIOUS
<1>1. CASE UNCHANGED vars
  BY <1>1 DEF vars, clocks, ClocksSound, TypeOK
<1>2. CASE \E n \in Node : Start(n) \/ HandleHandshakeReply(n) \/ Alarm(n) \/ Crash(n)
  BY <1>2, StartSound, HandleHandshakeReplySound, AlarmSound, CrashSound
<1>3. CASE \E n \in Node, s \in Node : Handle(n, s) \/ HandleAlive(n, s)
  BY <1>3, HandleHelloSound, HandleUpdateSound, DropMessageSound, HandleAliveSound
     DEF Handle
<1>4. CASE Tick
  BY <1>4, TickSound
<1> QED
  BY <1>1, <1>2, <1>3, <1>4 DEF Next

\* From boot no clock ever leaves its bounds, and none runs for a neighbour
\* that is not on the list (routingTable.c:137-176, 216-233).
THEOREM ClocksAreTyped == Spec => []TypeOK
<1>1. ClocksSound => TypeOK
  BY DEF ClocksSound
<1> QED
  BY <1>1, InitSound, NextSound, PTL DEF Spec

\* Whatever crashes and whatever the times are, no neighbour stays on the
\* list for longer than a timeout, a period and the lateness of an alarm
\* after its last sign of life (routingTable.c:137-176).
THEOREM DeadIsDismissedInTime == Spec => []DismissedInTime
<1>1. ClocksSound => DismissedInTime
  BY TimeAssumption DEF ClocksSound, TypeOK, DismissedInTime
<1> QED
  BY <1>1, InitSound, NextSound, PTL DEF Spec

-----------------------------------------------------------------------------
(* A live neighbour is never dismissed.                                    *)

\* The longest time between two alarms of a daemon.
Gap == Period + MaxSlack

\* m, which runs and knows n, keeps its entry in the list of n alive: what n
\* has not heard of it is the time since m's last alarm and a gap for every
\* KEEP-ALIVE that was lost or is still in flight.
KeptAlive(n, m) ==
  /\ process[n] = "running"
  /\ m \in neighbourList[n]
  /\ <<m, n>> \in alive => /\ aliveFor[m][n] = armed[m]
                          /\ silence[n][m] <= armed[m] + (missed[m][n] + 1) * Gap
  /\ <<m, n>> \notin alive => /\ aliveFor[m][n] = 0
                             /\ silence[n][m] <= armed[m] + missed[m][n] * Gap

\* Neither of two neighbours may stop.
Lasting(n, m) == <<n, m>> \in Link /\ n \notin MayCrash /\ m \notin MayCrash

AllKeptAlive ==
  /\ ClocksSound
  /\ \A n \in Node, m \in Node : Lasting(n, m) => KeptAlive(n, m)

LEMMA LastingIsMutual ==
  ASSUME NEW n \in Node, NEW m \in Node, Lasting(n, m)
  PROVE  Lasting(m, n) /\ n # m
BY LinkAssumption DEF Lasting

LEMMA GapArithmetic ==
  ASSUME NEW k \in Nat
  PROVE  /\ Gap \in Nat /\ k * Gap \in Nat /\ (k + 1) * Gap \in Nat
         /\ (k + 1) * Gap = k * Gap + Gap
BY TimeAssumption DEF Gap

\* The silence stays within the timeout.
LEMMA KeptAliveIsNotOverdue ==
  ASSUME GraceAssumption, ClocksSound, NEW n \in Node, NEW m \in Node, KeptAlive(n, m)
  PROVE  m \notin Overdue[n]
<1>1. /\ armed[m] \in Nat /\ armed[m] <= Gap
      /\ missed[m][n] \in Nat /\ missed[m][n] <= MaxMissed
      /\ aliveFor[m][n] <= MaxDelay
      /\ silence[n][m] \in Nat
  BY TimeAssumption DEF ClocksSound, TypeOK, Gap
<1>2. PICK k \in Nat : k = MaxMissed - missed[m][n]
  BY <1>1, TimeAssumption
<1>3. /\ Gap \in Nat /\ k * Gap \in Nat /\ missed[m][n] * Gap \in Nat
      /\ (MaxMissed + 1) * Gap = missed[m][n] * Gap + k * Gap + Gap
      /\ (missed[m][n] + 1) * Gap = missed[m][n] * Gap + Gap
  BY <1>1, <1>2, TimeAssumption DEF Gap
<1>4. missed[m][n] * Gap + k * Gap + Gap + MaxDelay <= Timeout
  BY <1>3 DEF GraceAssumption, Gap
<1>5. CASE <<m, n>> \in alive
  <2>1. silence[n][m] <= MaxDelay + missed[m][n] * Gap + Gap
    BY <1>1, <1>3, <1>5, TimeAssumption DEF KeptAlive
  <2> QED
    BY <1>1, <1>3, <1>4, <2>1, TimeAssumption DEF Overdue
<1>6. CASE <<m, n>> \notin alive
  <2>1. silence[n][m] <= Gap + missed[m][n] * Gap
    BY <1>1, <1>3, <1>6, TimeAssumption DEF KeptAlive
  <2> QED
    BY <1>1, <1>3, <1>4, <2>1, TimeAssumption DEF Overdue
<1> QED
  BY <1>5, <1>6

LEMMA InitKeptAlive == InitEstablished => AllKeptAlive
<1> SUFFICES ASSUME InitEstablished PROVE AllKeptAlive
  OBVIOUS
<1>1. /\ process = [n \in Node |-> "running"]
      /\ neighbourList = [n \in Node |-> Untimed!LinkedTo(n)]
      /\ alive = {}
  BY DEF InitEstablished, Untimed!InitEstablished
<1>2. /\ armed = [n \in Node |-> 0] /\ silence = NoTime
      /\ aliveFor = NoTime /\ missed = NoTime
  BY DEF InitEstablished, InitClocks
<1>3. ASSUME NEW n \in Node, NEW m \in Node, Lasting(n, m) PROVE KeptAlive(n, m)
  <2>1. m \in neighbourList[n]
    BY <1>1, <1>3 DEF Untimed!LinkedTo, Lasting
  <2>2. silence[n][m] = 0 /\ armed[m] = 0 /\ missed[m][n] = 0 /\ aliveFor[m][n] = 0
    BY <1>2 DEF NoTime
  <2>3. silence[n][m] <= armed[m] + missed[m][n] * Gap
    BY <2>2, GapArithmetic, TimeAssumption DEF Gap
  <2> QED
    BY <1>1, <2>1, <2>2, <2>3 DEF KeptAlive
<1> QED
  BY <1>3, InitEstablishedSound DEF AllKeptAlive

\* A step that takes no neighbour from the list, leaves KEEP-ALIVEs and
\* timers of running daemons alone, and at most resets the silence.
LEMMA PairUndisturbed ==
  ASSUME ClocksSound, NEW n \in Node, NEW m \in Node, KeptAlive(n, m),
         process'[n] = "running", m \in neighbourList'[n],
         armed'[m] = armed[m], <<m, n>> \in alive' <=> <<m, n>> \in alive,
         aliveFor'[m][n] = aliveFor[m][n], missed'[m][n] = missed[m][n],
         silence'[n][m] = silence[n][m] \/ silence'[n][m] = 0
  PROVE  KeptAlive(n, m)'
<1>1. armed[m] \in Nat /\ missed[m][n] \in Nat
  BY TimeAssumption DEF ClocksSound, TypeOK
<1>2. /\ 0 <= armed[m] + (missed[m][n] + 1) * Gap
      /\ 0 <= armed[m] + missed[m][n] * Gap
  <2>1. missed[m][n] * Gap \in Nat /\ (missed[m][n] + 1) * Gap \in Nat
    BY <1>1, GapArithmetic, Zenon
  <2> QED
    BY <1>1, <2>1
<1> QED
  BY <1>2 DEF KeptAlive, Gap

LEMMA DaemonKeepsPair ==
  ASSUME ClocksSound, NEW n \in Node, NEW m \in Node,
         Lasting(n, m), KeptAlive(n, m), KeptAlive(m, n), NEW k \in Node,
         Start(k) \/ HandleHandshakeReply(k) \/ Crash(k)
  PROVE  KeptAlive(n, m)'
<1>1. process[n] = "running" /\ process[m] = "running" /\ m \in neighbourList[n]
  BY DEF KeptAlive
<1>2. CASE Start(k)
  <2>1. /\ process[k] = "down"
        /\ process' = [process EXCEPT ![k] = "connected"]
        /\ armed' = [armed EXCEPT ![k] = 0]
        /\ UNCHANGED <<neighbourList, alive, silence, aliveFor, missed>>
    BY <1>2 DEF Start, Untimed!Start, Untimed!daemonVars
  <2>2. k # n /\ k # m
    BY <1>1, <2>1
  <2> QED
    BY <1>1, <2>1, <2>2, PairUndisturbed DEF ClocksSound, TypeOK
<1>3. CASE HandleHandshakeReply(k)
  <2>1. /\ process' = [process EXCEPT ![k] = "running"]
        /\ UNCHANGED <<neighbourList, alive, armed, silence, aliveFor, missed>>
    BY <1>3 DEF HandleHandshakeReply, Untimed!HandleHandshakeReply, clocks
  <2>2. process'[n] = "running"
    BY <1>1, <2>1 DEF ClocksSound
  <2> QED
    BY <1>1, <2>1, <2>2, PairUndisturbed
<1>4. CASE Crash(k)
  <2>1. /\ k \in MayCrash
        /\ process' = [process EXCEPT ![k] = "down"]
        /\ neighbourList' = [neighbourList EXCEPT ![k] = {}]
        /\ UNCHANGED alive
    BY <1>4 DEF Crash, Untimed!Crash
  <2>2. /\ armed' = [armed EXCEPT ![k] = 0]
        /\ silence' = [silence EXCEPT ![k] = [d \in Node |-> 0]]
        /\ UNCHANGED <<aliveFor, missed>>
    BY <1>4 DEF Crash
  <2>3. k # n /\ k # m
    BY <2>1 DEF Lasting
  <2> QED
    BY <1>1, <2>1, <2>2, <2>3, PairUndisturbed DEF ClocksSound, TypeOK
<1> QED
  BY <1>2, <1>3, <1>4

LEMMA MessageKeepsPair ==
  ASSUME ClocksSound, NEW n \in Node, NEW m \in Node,
         KeptAlive(n, m), NEW k \in Node, NEW s \in Node, Handle(k, s)
  PROVE  KeptAlive(n, m)'
<1>1. process[n] = "running" /\ m \in neighbourList[n]
  BY DEF KeptAlive
<1>2. CASE HandleHello(k, s)
  <2>1. UNCHANGED <<process, neighbourList, alive, armed, aliveFor, missed>>
    BY <1>2 DEF HandleHello, Untimed!HandleHello
  <2>2. silence' = UpdateTime(k, s)
    BY <1>2 DEF HandleHello
  <2>3. silence'[n][m] = silence[n][m] \/ silence'[n][m] = 0
    BY <2>2 DEF UpdateTime, ClocksSound, TypeOK
  <2> QED
    BY <1>1, <2>1, <2>3, PairUndisturbed
<1>3. CASE HandleUpdate(k, s)
  <2> DEFINE new == NewNeighbours(table[k], Head(chan[s][k]).adv, s)
  <2>1. UNCHANGED <<armed, aliveFor, missed>> /\ Untimed!HandleUpdate(k, s)
    BY <1>3 DEF HandleUpdate
  <2>2. UNCHANGED <<process, alive>>
    BY <2>1 DEF Untimed!HandleUpdate
  <2>3. neighbourList' = [neighbourList EXCEPT ![k] = neighbourList[k] \cup new]
    BY <2>1 DEF Untimed!HandleUpdate, NewNeighbours, Untimed!NewNeighbours,
                Adds, Untimed!Adds, Improves, Untimed!Improves
  <2>4. silence' = [silence EXCEPT ![k] =
                      [d \in Node |-> IF d \in new THEN 0 ELSE silence[k][d]]]
    BY <1>3 DEF HandleUpdate
  <2> HIDE DEF new
  <2>5. silence'[n][m] = silence[n][m] \/ silence'[n][m] = 0
    BY <2>4 DEF ClocksSound, TypeOK
  <2>6. m \in neighbourList'[n]
    BY <1>1, <2>3 DEF ClocksSound
  <2> QED
    BY <1>1, <2>1, <2>2, <2>5, <2>6, PairUndisturbed
<1>4. CASE DropMessage(k, s)
  <2>1. UNCHANGED <<process, neighbourList, alive, armed, silence, aliveFor, missed>>
    BY <1>4 DEF DropMessage, Untimed!DropMessage, Untimed!daemonVars
  <2> QED
    BY <1>1, <2>1, PairUndisturbed
<1> QED
  BY <1>2, <1>3, <1>4 DEF Handle

LEMMA AlarmKeepsPair ==
  ASSUME GraceAssumption, ClocksSound, NEW n \in Node, NEW m \in Node,
         Lasting(n, m), KeptAlive(n, m), KeptAlive(m, n), NEW k \in Node, Alarm(k)
  PROVE  KeptAlive(n, m)'
<1>1. /\ n # m /\ process[n] = "running"
      /\ m \in neighbourList[n] /\ n \in neighbourList[m]
  BY LastingIsMutual DEF KeptAlive
<1>2. m \notin Overdue[n]
  BY KeptAliveIsNotOverdue
<1>3. /\ armed[k] >= Period
      /\ UNCHANGED <<process, aliveFor, missed>>
      /\ armed' = [armed EXCEPT ![k] = 0]
      /\ alive' = alive \cup {<<k, d>> : d \in neighbourList[k]}
      /\ neighbourList' = [neighbourList EXCEPT ![k] = neighbourList[k] \ Overdue[k]]
  BY DEF Alarm
<1>4. silence' = [silence EXCEPT ![k] =
                    [d \in Node |-> IF d \in Overdue[k] THEN 0 ELSE silence[k][d]]]
  BY DEF Alarm, FreeEntries
<1>5. silence'[n][m] = silence[n][m]
  BY <1>2, <1>4 DEF ClocksSound, TypeOK
<1>6. m \in neighbourList'[n]
  BY <1>1, <1>2, <1>3 DEF ClocksSound
<1>7. CASE k # m
  <2>1. armed'[m] = armed[m] /\ (<<m, n>> \in alive' <=> <<m, n>> \in alive)
    BY <1>3, <1>7 DEF ClocksSound, TypeOK
  <2> QED
    BY <1>1, <1>3, <1>5, <1>6, <2>1, PairUndisturbed
<1>8. CASE k = m
  <2>1. armed'[m] = 0 /\ <<m, n>> \in alive'
    BY <1>1, <1>3, <1>8 DEF ClocksSound, TypeOK
  <2>2. /\ armed[m] \in Nat /\ armed[m] <= Gap /\ silence[n][m] \in Nat
        /\ missed[m][n] \in Nat /\ aliveFor[m][n] <= MaxDelay
    BY TimeAssumption DEF ClocksSound, TypeOK, Gap
  <2>3. <<m, n>> \notin alive
    BY <1>3, <1>8, <2>2, TimeAssumption DEF KeptAlive
  <2>4. silence[n][m] <= armed[m] + missed[m][n] * Gap /\ aliveFor[m][n] = 0
    BY <2>3 DEF KeptAlive
  <2>5. silence[n][m] <= (missed[m][n] + 1) * Gap
    <3>1. /\ Gap \in Nat /\ missed[m][n] * Gap \in Nat
          /\ (missed[m][n] + 1) * Gap = missed[m][n] * Gap + Gap
      BY <2>2, GapArithmetic, Zenon
    <3> QED
      BY <2>2, <2>4, <3>1
  <2>6. (missed[m][n] + 1) * Gap \in Nat
    BY <2>2, GapArithmetic
  <2>7. silence'[n][m] <= armed'[m] + (missed'[m][n] + 1) * Gap
    BY <1>3, <1>5, <2>1, <2>5, <2>6
  <2>8. process'[n] = "running" /\ aliveFor'[m][n] = armed'[m]
    BY <1>1, <1>3, <2>1, <2>4
  <2> QED
    BY <1>6, <2>1, <2>7, <2>8 DEF KeptAlive, Gap
<1> QED
  BY <1>7, <1>8

LEMMA HandleAliveKeepsPair ==
  ASSUME ClocksSound, NEW n \in Node, NEW m \in Node,
         KeptAlive(n, m), NEW k \in Node, NEW s \in Node, HandleAlive(k, s)
  PROVE  KeptAlive(n, m)'
<1>1. /\ process[n] = "running" /\ m \in neighbourList[n]
      /\ armed[m] \in Nat /\ missed[m][n] \in Nat
  BY TimeAssumption DEF KeptAlive, ClocksSound, TypeOK
<1>2. /\ UNCHANGED <<process, neighbourList, armed>>
      /\ alive' = alive \ {<<s, k>>}
      /\ <<s, k>> \in alive
      /\ aliveFor' = [aliveFor EXCEPT ![s][k] = 0]
      /\ \/ silence' = UpdateTime(k, s) /\ missed' = [missed EXCEPT ![s][k] = 0]
         \/ /\ process[k] # "running" /\ silence' = silence
            /\ missed' = [missed EXCEPT ![s][k] = 0]
         \/ /\ missed[s][k] < MaxMissed /\ silence' = silence
            /\ missed' = [missed EXCEPT ![s][k] = missed[s][k] + 1]
  BY HandleAliveEffect
<1>3. CASE k = n /\ s = m
  <2>1. <<m, n>> \notin alive' /\ aliveFor'[m][n] = 0
    BY <1>2, <1>3 DEF ClocksSound, TypeOK
  <2>2. \/ silence'[n][m] = 0 /\ missed'[m][n] = 0
        \/ silence'[n][m] = silence[n][m] /\ missed'[m][n] = missed[m][n] + 1
    BY <1>1, <1>2, <1>3 DEF ClocksSound, TypeOK, UpdateTime
  <2>3. silence[n][m] <= armed[m] + (missed[m][n] + 1) * Gap
    BY <1>2, <1>3 DEF KeptAlive
  <2>4. 0 * Gap = 0
    BY TimeAssumption DEF Gap
  <2>5. silence'[n][m] <= armed'[m] + missed'[m][n] * Gap
    BY <1>1, <1>2, <2>2, <2>3, <2>4
  <2> QED
    BY <1>1, <1>2, <2>1, <2>5 DEF KeptAlive, Gap
<1>4. CASE ~(k = n /\ s = m)
  <2>1. /\ <<m, n>> \in alive' <=> <<m, n>> \in alive
        /\ aliveFor'[m][n] = aliveFor[m][n]
    BY <1>2, <1>4 DEF ClocksSound, TypeOK
  <2>2. missed'[m][n] = missed[m][n]
    BY <1>2, <1>4 DEF ClocksSound, TypeOK
  <2>3. silence'[n][m] = silence[n][m]
    BY <1>2, <1>4 DEF ClocksSound, TypeOK, UpdateTime
  <2> QED
    BY <1>1, <1>2, <2>1, <2>2, <2>3, PairUndisturbed
<1> QED
  BY <1>3, <1>4

LEMMA TickKeepsPair ==
  ASSUME ClocksSound, NEW n \in Node, NEW m \in Node,
         KeptAlive(n, m), KeptAlive(m, n), Tick
  PROVE  KeptAlive(n, m)'
<1>1. /\ process[n] = "running" /\ process[m] = "running" /\ m \in neighbourList[n]
      /\ armed[m] \in Nat /\ missed[m][n] \in Nat /\ silence[n][m] \in Nat
  BY TimeAssumption DEF KeptAlive, ClocksSound, TypeOK
<1>2. /\ UNCHANGED <<process, neighbourList, alive, missed>>
      /\ armed'[m] = armed[m] + 1
      /\ silence'[n][m] = silence[n][m] + 1
      /\ aliveFor'[m][n] = IF <<m, n>> \in alive THEN aliveFor[m][n] + 1 ELSE 0
  BY <1>1 DEF Tick
<1>3. (missed[m][n] + 1) * Gap \in Nat /\ missed[m][n] * Gap \in Nat
  BY <1>1, GapArithmetic
<1>4. <<m, n>> \in alive =>
        /\ aliveFor'[m][n] = armed'[m]
        /\ silence'[n][m] <= armed'[m] + (missed'[m][n] + 1) * Gap
  BY <1>1, <1>2, <1>3 DEF KeptAlive
<1>5. <<m, n>> \notin alive =>
        /\ aliveFor'[m][n] = 0
        /\ silence'[n][m] <= armed'[m] + missed'[m][n] * Gap
  BY <1>1, <1>2, <1>3 DEF KeptAlive
<1> QED
  BY <1>1, <1>2, <1>4, <1>5 DEF KeptAlive, Gap

LEMMA NextKeptAlive ==
  ASSUME GraceAssumption
  PROVE  AllKeptAlive /\ [Next]_vars => AllKeptAlive'
<1> SUFFICES ASSUME AllKeptAlive, [Next]_vars PROVE AllKeptAlive'
  OBVIOUS
<1>1. ClocksSound
  BY DEF AllKeptAlive
<1>2. ClocksSound'
  BY <1>1, NextSound
<1>3. ASSUME NEW n \in Node, NEW m \in Node, Lasting(n, m)
      PROVE  KeptAlive(n, m)'
  <2>1. KeptAlive(n, m) /\ KeptAlive(m, n)
    BY <1>3, LastingIsMutual DEF AllKeptAlive
  <2>2. CASE UNCHANGED vars
    BY <2>1, <2>2 DEF vars, clocks, KeptAlive
  <2>3. CASE \E k \in Node : Start(k) \/ HandleHandshakeReply(k) \/ Alarm(k) \/ Crash(k)
    BY <1>1, <1>3, <2>1, <2>3, DaemonKeepsPair, AlarmKeepsPair
  <2>4. CASE \E k \in Node, s \in Node : Handle(k, s) \/ HandleAlive(k, s)
    BY <1>1, <2>1, <2>4, MessageKeepsPair, HandleAliveKeepsPair
  <2>5. CASE Tick
    BY <1>1, <2>1, <2>5, TickKeepsPair
  <2> QED
    BY <2>2, <2>3, <2>4, <2>5 DEF Next
<1> QED
  BY <1>2, <1>3 DEF AllKeptAlive, Lasting

\* Between two neighbours that do not stop the list entries stay for ever if
\* the timeout covers the longest gap between two alarms, once more for every
\* KEEP-ALIVE that may be lost in a row, and the way of a KEEP-ALIVE; with 10
\* and 30 s that is one lost KEEP-ALIVE, not two (routing_daemon.c:287-301).
THEOREM NoFalseAlarm ==
  ASSUME GraceAssumption
  PROVE  EstablishedSpec => []LiveNeighboursStay
<1>1. AllKeptAlive => LiveNeighboursStay
  <2> SUFFICES ASSUME AllKeptAlive, NEW l \in Link, {l[1], l[2]} \cap MayCrash = {}
               PROVE  l[2] \in neighbourList[l[1]]
    BY DEF LiveNeighboursStay
  <2>1. l[1] \in Node /\ l[2] \in Node /\ l = <<l[1], l[2]>>
    BY LinkAssumption
  <2>2. Lasting(l[1], l[2])
    BY <2>1 DEF Lasting
  <2> QED
    BY <2>1, <2>2 DEF AllKeptAlive, KeptAlive
<1>2. AllKeptAlive /\ [Next]_vars => AllKeptAlive'
  BY NextKeptAlive
<1> QED
  BY <1>1, <1>2, InitKeptAlive, PTL DEF EstablishedSpec

-----------------------------------------------------------------------------
(* What is in flight between two daemons, and for how long.                *)

R == INSTANCE RoutingDaemon_proofs WITH
       overdue <- Overdue, wireFaults <- 0, MaxWireFaults <- 0

HelloAt(s, d, i)  == i \in DOMAIN chan[s][d] /\ chan[s][d][i].type = "HELLO"
UpdateAt(s, d, i) == i \in DOMAIN chan[s][d] /\ chan[s][d][i].type = "UPDATE"

\* The message at place i of a channel has come from place MaxChan at most,
\* and each place took it MaxDelay at most.
Way(i)       == (MaxChan - i) * MaxDelay
Age(s, d, i) == Way(i) + underWay[s][d]
Longest      == MaxChan * MaxDelay

\* m has missed so much of n for what the wire has lost, and never more than
\* Grace.
Lost(n, m) == missed[m][n] * Gap
Grace      == (MaxMissed + 1) * Gap

\* Behind place j there is an UPDATE that n wrote to m after it last noted
\* the time of m.
JoinsBehind(n, m, j) ==
  \E i \in DOMAIN chan[n][m] :
    i > j /\ UpdateAt(n, m, i) /\ silence[n][m] <= Age(n, m, i)

\* m has n on its list and sends it KEEP-ALIVEs.
Served(n, m) ==
  /\ n \in neighbourList[m]
  /\ silence[n][m] <= Longest + Lost(n, m) + armed[m]
                        + IF <<m, n>> \in alive THEN Gap ELSE 0

\* A daemon that has started says HELLO at once; its timer is stopped when it
\* is down.
Prompt(n) ==
  /\ process[n] = "down" => armed[n] = 0
  /\ process[n] = "connected" => armed[n] <= MaxDelay

\* From s to d: no more than there is room for, a HELLO that is older than the
\* timer of s, and a KEEP-ALIVE of its last alarm.
Flight(s, d) ==
  /\ Len(chan[s][d]) <= MaxChan
  /\ \A i \in DOMAIN chan[s][d] :
       HelloAt(s, d, i) => armed[s] <= Age(s, d, i) + MaxDelay
  /\ <<s, d>> \notin alive => aliveFor[s][d] = 0
  /\ <<s, d>> \in alive => armed[s] <= aliveFor[s][d]

\* n monitors m.  If n has said HELLO to m it also has told m its table since.
Told(n, m) ==
  \A j \in DOMAIN chan[n][m] : HelloAt(n, m, j) => JoinsBehind(n, m, j)

\* If m runs, it is about to say HELLO to n, serves it, or will when it has
\* read what n has written.
Attended(n, m) ==
  process[m] = "running" =>
    \/ \E j \in DOMAIN chan[m][n] : HelloAt(m, n, j)
    \/ Served(n, m)
    \/ JoinsBehind(n, m, 0)

\* How long n can have been silent about m when m's KEEP-ALIVE arrives, and
\* when an UPDATE with which m does not come back does.
AliveInTime(n, m) ==
  <<m, n>> \in alive =>
    silence[n][m] <= Longest + Lost(n, m) + Gap + aliveFor[m][n]
UpdateInTime(n, m) ==
  \A i \in DOMAIN chan[m][n] :
    /\ <<m, n>> \notin alive /\ UpdateAt(m, n, i)
    /\ \A j \in 1 .. i : ~HelloAt(m, n, j)
    => silence[n][m] <= Longest + Grace + Age(m, n, i)

Pair(n, m) ==
  m \in neighbourList[n] =>
    /\ Told(n, m) /\ Attended(n, m) /\ AliveInTime(n, m) /\ UpdateInTime(n, m)

JInv ==
  /\ ClocksSound /\ R!IInv
  /\ \A n \in Node : Prompt(n)
  /\ \A s \in Node, d \in Node : Flight(s, d)
  /\ \A n \in Node, m \in Node : Pair(n, m)

\* An overdue neighbour has stopped, or says HELLO next.
OverdueIsAway ==
  \A n \in Node : \A m \in Overdue[n] :
    /\ <<m, n>> \notin alive
    /\ IF chan[m][n] = <<>> THEN process[m] # "running"
       ELSE Head(chan[m][n]).type = "HELLO"

\* The names of Untimed and R mean the same.
LEMMA SameActions ==
  ASSUME NEW n, NEW s, NEW S
  PROVE  /\ R!Start(n) <=> Untimed!Start(n)
         /\ R!HandleHandshakeReply(n) <=> Untimed!HandleHandshakeReply(n)
         /\ R!HandleHello(n, s) <=> Untimed!HandleHello(n, s)
         /\ R!HandleKeepAlive(n, s) <=> Untimed!HandleKeepAlive(n, s)
         /\ R!DropMessage(n, s) <=> Untimed!DropMessage(n, s)
         /\ R!DropKeepAlive(n, s) <=> Untimed!DropKeepAlive(n, s)
         /\ R!FallSilent(S) <=> Untimed!FallSilent(S)
         /\ R!LoseKeepAlives(n, s) <=> Untimed!LoseKeepAlives(n, s)
         /\ R!Lose(n, s) <=> Untimed!Lose(n, s)
         /\ R!Overtake(n, s) <=> Untimed!Overtake(n, s)
         /\ R!Crash(n) <=> Untimed!Crash(n)
         /\ R!Silent = Untimed!Silent
<1> USE DEF R!daemonVars, Untimed!daemonVars, R!faultVars, Untimed!faultVars, R!Next2Read, Untimed!Next2Read, R!LinkedTo, Untimed!LinkedTo, R!RoomFor, Untimed!RoomFor
<1>1. R!Start(n) <=> Untimed!Start(n)
  BY DEF R!Start, Untimed!Start
<1>2. R!HandleHandshakeReply(n) <=> Untimed!HandleHandshakeReply(n)
  BY DEF R!HandleHandshakeReply, Untimed!HandleHandshakeReply, R!Hello, Untimed!Hello
<1>3. R!HandleHello(n, s) <=> Untimed!HandleHello(n, s)
  BY DEF R!HandleHello, Untimed!HandleHello, R!Replied, Untimed!Replied, R!Update, Untimed!Update, R!Advertise, Untimed!Advertise, R!HasEntry, Untimed!HasEntry
<1>4. R!HandleKeepAlive(n, s) <=> Untimed!HandleKeepAlive(n, s)
  BY DEF R!HandleKeepAlive, Untimed!HandleKeepAlive
<1>5. R!DropMessage(n, s) <=> Untimed!DropMessage(n, s)
  BY DEF R!DropMessage, Untimed!DropMessage
<1>6. R!DropKeepAlive(n, s) <=> Untimed!DropKeepAlive(n, s)
  BY DEF R!DropKeepAlive, Untimed!DropKeepAlive
<1>7. R!Silent = Untimed!Silent
  BY DEF R!Silent, Untimed!Silent, R!AwaitsHello, Untimed!AwaitsHello
<1>8. R!FallSilent(S) <=> Untimed!FallSilent(S)
  BY <1>7 DEF R!FallSilent, Untimed!FallSilent
<1>9. R!LoseKeepAlives(n, s) <=> Untimed!LoseKeepAlives(n, s)
  BY DEF R!LoseKeepAlives, Untimed!LoseKeepAlives
<1>10. R!Lose(n, s) <=> Untimed!Lose(n, s)
  BY DEF R!Lose, Untimed!Lose
<1>11. R!Overtake(n, s) <=> Untimed!Overtake(n, s)
  BY DEF R!Overtake, Untimed!Overtake
<1>12. R!Crash(n) <=> Untimed!Crash(n)
  BY DEF R!Crash, Untimed!Crash, R!EmptyTable, Untimed!EmptyTable
<1> QED
  BY <1>1, <1>2, <1>3, <1>4, <1>5, <1>6, <1>7, <1>8, <1>9, <1>10, <1>11, <1>12

LEMMA SameUpdate ==
  ASSUME NEW n, NEW s
  PROVE  R!HandleUpdate(n, s) <=> Untimed!HandleUpdate(n, s)
<1>1. ASSUME NEW t, NEW adv
      PROVE  /\ R!MergeUpdate(t, adv, s) = Untimed!MergeUpdate(t, adv, s)
             /\ R!NewNeighbours(t, adv, s) = Untimed!NewNeighbours(t, adv, s)
             /\ R!Changed(t, adv, s) <=> Untimed!Changed(t, adv, s)
  BY DEF R!MergeUpdate, Untimed!MergeUpdate, R!Merge, Untimed!Merge,
         R!NewNeighbours, Untimed!NewNeighbours, R!Changed, Untimed!Changed,
         R!Adds, Untimed!Adds, R!Poisons, Untimed!Poisons,
         R!Improves, Untimed!Improves, R!Learned, Untimed!Learned
<1>2. ASSUME NEW t, NEW to
      PROVE  R!Replied(s, n, t, to) = Untimed!Replied(s, n, t, to)
  BY DEF R!Replied, Untimed!Replied, R!Update, Untimed!Update, R!Advertise,
         Untimed!Advertise, R!HasEntry, Untimed!HasEntry
<1> DEFINE adv == Head(chan[s][n]).adv
<1>3. /\ R!MergeUpdate(table[n], adv, s) = Untimed!MergeUpdate(table[n], adv, s)
      /\ R!NewNeighbours(table[n], adv, s) = Untimed!NewNeighbours(table[n], adv, s)
      /\ R!Changed(table[n], adv, s) <=> Untimed!Changed(table[n], adv, s)
  BY <1>1
<1> DEFINE t  == Untimed!MergeUpdate(table[n], adv, s)
           nbs == neighbourList[n] \cup Untimed!NewNeighbours(table[n], adv, s)
           to == IF Untimed!Changed(table[n], adv, s) THEN nbs ELSE {}
<1>4. R!Replied(s, n, t, to) = Untimed!Replied(s, n, t, to)
  BY <1>2
<1>5. R!RoomFor(n, to) <=> Untimed!RoomFor(n, to)
  BY DEF R!RoomFor, Untimed!RoomFor
<1>6. to = IF R!Changed(table[n], adv, s) THEN nbs ELSE {}
  BY <1>3
<1>7. Untimed!HandleUpdate(n, s) <=>
        /\ Untimed!Next2Read(n, s, "UPDATE") /\ Untimed!RoomFor(n, to)
        /\ table' = [table EXCEPT ![n] = t]
        /\ neighbourList' = [neighbourList EXCEPT ![n] = nbs]
        /\ chan' = Untimed!Replied(s, n, t, to)
        /\ UNCHANGED <<process, Overdue, alive, Untimed!faultVars>>
  BY DEF Untimed!HandleUpdate
<1>8. R!HandleUpdate(n, s) <=>
        /\ R!Next2Read(n, s, "UPDATE") /\ R!RoomFor(n, to)
        /\ table' = [table EXCEPT ![n] = t]
        /\ neighbourList' = [neighbourList EXCEPT ![n] = nbs]
        /\ chan' = R!Replied(s, n, t, to)
        /\ UNCHANGED <<process, Overdue, alive, R!faultVars>>
  <2> HIDE DEF adv
  <2> QED
    BY <1>3, <1>6, Zenon DEF R!HandleUpdate, adv
<1>9. R!Next2Read(n, s, "UPDATE") <=> Untimed!Next2Read(n, s, "UPDATE")
  BY DEF R!Next2Read, Untimed!Next2Read
<1> HIDE DEF adv, t, nbs, to
<1> QED
  BY <1>4, <1>5, <1>7, <1>8, <1>9 DEF R!faultVars, Untimed!faultVars

LEMMA SameAlarm ==
  ASSUME NEW n
  PROVE  R!Alarm(n) <=> Untimed!Alarm(n)
<1>1. ASSUME NEW t, NEW d
      PROVE  R!RemoveFromRouting(t, d) = Untimed!RemoveFromRouting(t, d)
  BY DEF R!RemoveFromRouting, Untimed!RemoveFromRouting, R!HasEntry, Untimed!HasEntry
<1>2. ASSUME NEW t, NEW to
      PROVE  R!Announced(n, t, to) = Untimed!Announced(n, t, to)
  BY DEF R!Announced, Untimed!Announced, R!Update, Untimed!Update, R!Advertise,
         Untimed!Advertise, R!HasEntry, Untimed!HasEntry
<1>3. R!ControlTime(n) <=> Untimed!ControlTime(n)
  BY <1>1, <1>2 DEF R!ControlTime, Untimed!ControlTime, R!RoomFor, Untimed!RoomFor
<1> QED
  BY <1>3 DEF R!Alarm, Untimed!Alarm, R!faultVars, Untimed!faultVars

LEMMA UntimedSound ==
  ASSUME R!IInv, [Untimed!Next]_(Untimed!vars)
  PROVE  R!IInv'
<1>1. R!InfinityAssumption /\ R!NoEntryAssumption
  BY InfinityAssumption, NoEntryAssumption DEF R!Cost, R!Entry, Cost, Entry
<1>2. R!LinkAssumption /\ R!DistAssumption /\ R!BoundAssumption
  BY LinkAssumption, DistAssumption, RoomAssumption DEF R!Cost, Cost
<1>3. [R!Next]_(R!vars)
  BY SameActions, SameUpdate, SameAlarm DEF R!Next, Untimed!Next, R!vars, Untimed!vars
<1> QED
  BY <1>1, <1>2, <1>3, R!NextSound

-----------------------------------------------------------------------------
(* Arithmetic.                                                             *)

LEMMA Times ==
  ASSUME JoinAssumption
  PROVE  /\ Longest \in Nat /\ Gap \in Nat /\ Grace \in Nat /\ Timeout \in Nat
         /\ MaxDelay \in Nat /\ Period \in Nat /\ MaxChan \in Nat
         /\ Longest + Longest + Grace <= Timeout
         /\ Longest + MaxDelay < Period /\ Period <= Gap /\ Gap <= Grace
         /\ MaxDelay <= Longest
<1>1. /\ MaxChan \in Nat /\ MaxDelay \in Nat /\ MaxMissed \in Nat
      /\ Period \in Nat /\ MaxSlack \in Nat /\ Timeout \in Nat
  BY TimeAssumption, RoomAssumption
<1>2. Gap \in Nat /\ Period <= Gap
  BY <1>1 DEF Gap
<1>3. Grace \in Nat /\ Gap <= Grace
  <2>1. MaxMissed * Gap \in Nat /\ (MaxMissed + 1) * Gap = MaxMissed * Gap + Gap
    BY <1>1, GapArithmetic, Zenon
  <2>2. Grace = MaxMissed * Gap + Gap
    BY <2>1 DEF Grace
  <2> HIDE DEF Gap, Grace
  <2> QED
    BY <1>2, <2>1, <2>2
<1>4. Longest \in Nat /\ MaxDelay <= Longest
  <2>1. PICK k \in Nat : MaxChan = k + 1
    BY RoomAssumption
  <2>2. Longest = k * MaxDelay + MaxDelay /\ k * MaxDelay \in Nat
    BY <1>1, <2>1 DEF Longest
  <2> QED
    BY <1>1, <2>2
<1>5. Longest + MaxDelay < Period
  BY DEF JoinAssumption, Longest
<1>6. 2 * Longest + Grace <= Timeout
  BY DEF JoinAssumption, Longest, Grace, Gap
<1> QED
  BY <1>1, <1>2, <1>3, <1>4, <1>5, <1>6

LEMMA Ways ==
  ASSUME NEW i \in 1 .. MaxChan
  PROVE  /\ Way(i) \in Nat /\ Way(i) + MaxDelay <= Longest
         /\ Way(i - 1) = Way(i) + MaxDelay
<1>1. MaxChan \in Nat /\ MaxDelay \in Nat
  BY TimeAssumption, RoomAssumption
<1>2. PICK k \in Nat : k = MaxChan - i
  BY <1>1
<1>3. PICK h \in Nat : i = h + 1
  BY <1>1
<1>4. Way(i) = k * MaxDelay /\ k * MaxDelay \in Nat
  BY <1>1, <1>2 DEF Way
<1>5. Way(i - 1) = k * MaxDelay + MaxDelay
  <2>1. MaxChan - (i - 1) = k + 1
    BY <1>1, <1>2
  <2> QED
    BY <1>1, <2>1 DEF Way
<1>6. Longest = k * MaxDelay + h * MaxDelay + MaxDelay /\ h * MaxDelay \in Nat
  <2>1. MaxChan = k + (h + 1)
    BY <1>1, <1>2, <1>3
  <2> QED
    BY <1>1, <2>1 DEF Longest
<1> QED
  BY <1>1, <1>4, <1>5, <1>6

LEMMA Losses ==
  ASSUME JoinAssumption, ClocksSound, NEW n \in Node, NEW m \in Node
  PROVE  /\ Lost(n, m) \in Nat /\ Lost(n, m) + Gap <= Grace
         /\ missed[m][n] < MaxMissed => Lost(n, m) + Gap + Gap <= Grace
         /\ missed[m][n] = 0 => Lost(n, m) = 0
<1>1. missed[m][n] \in 0 .. MaxMissed /\ MaxMissed \in Nat
  BY TimeAssumption DEF ClocksSound, TypeOK
<1>2. PICK k \in Nat : MaxMissed = missed[m][n] + k
  <2>1. PICK k \in Int : k = MaxMissed - missed[m][n]
    BY <1>1
  <2>2. k \in Nat /\ MaxMissed = missed[m][n] + k
    BY <1>1, <2>1
  <2> QED
    BY <2>2
<1>3. Gap \in Nat /\ missed[m][n] \in Nat
  BY <1>1, Times
<1>4. /\ Lost(n, m) \in Nat /\ k * Gap \in Nat
      /\ Grace = Lost(n, m) + k * Gap + Gap
  BY <1>2, <1>3 DEF Grace, Lost
<1>5. k >= 1 => k * Gap >= Gap
  <2> SUFFICES ASSUME k >= 1 PROVE k * Gap >= Gap
    OBVIOUS
  <2>1. PICK h \in Nat : k = h + 1
    <3>1. k - 1 \in Nat /\ k = (k - 1) + 1
      OBVIOUS
    <3> QED
      BY <3>1
  <2>2. k * Gap = h * Gap + Gap /\ h * Gap \in Nat
    BY <1>3, <2>1
  <2> QED
    BY <1>3, <2>2
<1>6. missed[m][n] = 0 => Lost(n, m) = 0
  BY <1>3 DEF Lost
<1>7. missed[m][n] < MaxMissed => k >= 1
  BY <1>1, <1>2, <1>3
<1> HIDE DEF Lost, Grace, Gap
<1> QED
  BY <1>3, <1>4, <1>5, <1>6, <1>7

\* The types of the clocks.
LEMMA Clocks ==
  ASSUME JoinAssumption, ClocksSound, NEW n \in Node, NEW m \in Node
  PROVE  /\ armed[n] \in Nat /\ armed[n] <= Gap /\ silence[n][m] \in Nat
         /\ underWay[n][m] \in Nat /\ underWay[n][m] <= MaxDelay
         /\ aliveFor[n][m] \in Nat /\ aliveFor[n][m] <= MaxDelay
         /\ missed[n][m] \in Nat
         /\ m \in neighbourList[n] => process[n] = "running"
         /\ m \notin neighbourList[n] => silence[n][m] = 0
BY TimeAssumption DEF ClocksSound, TypeOK, Gap

\* What is in flight is a sequence of messages between linked nodes.
LEMMA Channels ==
  ASSUME R!IInv, NEW n \in Node, NEW m \in Node
  PROVE  LET c == chan[n][m]
         IN  /\ c \in Seq(R!Message) /\ c \in Seq(R!SoundMessage(n, m))
             /\ Len(c) \in Nat /\ DOMAIN c = 1 .. Len(c)
             /\ \A i \in DOMAIN c : c[i].type \in {"HELLO", "UPDATE"}
             /\ c # <<>> => /\ 1 \in DOMAIN c /\ Head(c) = c[1]
                            /\ Head(c) \in R!SoundMessage(n, m)
                            /\ <<n, m>> \in Link /\ n # m
<1> DEFINE c == chan[n][m]
<1>1. c \in Seq(R!Message) /\ c \in Seq(R!SoundMessage(n, m))
  BY DEF R!IInv, R!SoundChannels
<1>2. Len(c) \in Nat /\ DOMAIN c = 1 .. Len(c)
  BY <1>1
<1>3. \A i \in DOMAIN c : c[i] \in R!Message /\ c[i] \in R!SoundMessage(n, m)
  BY <1>1, <1>2
<1>4. \A i \in DOMAIN c : c[i].type \in {"HELLO", "UPDATE"}
  BY <1>3 DEF R!Message
<1>5. c # <<>> => 1 \in DOMAIN c /\ Head(c) = c[1]
  BY <1>1, <1>2
<1>6. \A x \in R!SoundMessage(n, m) : <<n, m>> \in Link /\ n # m
  BY LinkAssumption DEF R!SoundMessage
<1> HIDE DEF c
<1>7. c # <<>> => Head(c) \in R!SoundMessage(n, m) /\ <<n, m>> \in Link /\ n # m
  BY <1>3, <1>5, <1>6
<1> QED
  BY <1>1, <1>2, <1>4, <1>5, <1>7 DEF c

-----------------------------------------------------------------------------
(* What the invariant says of the neighbours that are overdue.             *)

LEMMA AgeBound ==
  ASSUME JoinAssumption, ClocksSound, NEW n \in Node, NEW m \in Node, Flight(n, m),
         NEW i \in DOMAIN chan[n][m], R!IInv
  PROVE  /\ i \in 1 .. MaxChan /\ Way(i) \in Nat
         /\ Age(n, m, i) \in Nat /\ Age(n, m, i) <= Longest
<1>0. Len(chan[n][m]) \in Nat /\ DOMAIN chan[n][m] = 1 .. Len(chan[n][m])
  BY Channels
<1>1. i \in 1 .. MaxChan
  BY <1>0, RoomAssumption DEF Flight
<1> QED
  BY <1>1, Ways, Clocks, Times DEF Age

LEMMA AwayIfOverdue ==
  ASSUME JoinAssumption, JInv
  PROVE  OverdueIsAway
<1> SUFFICES ASSUME NEW n \in Node, NEW m \in Overdue[n]
             PROVE  /\ <<m, n>> \notin alive
                    /\ IF chan[m][n] = <<>> THEN process[m] # "running"
                       ELSE Head(chan[m][n]).type = "HELLO"
  BY DEF OverdueIsAway
<1>0. ClocksSound /\ R!IInv
  BY DEF JInv
<1>1. m \in Node /\ silence[n][m] > Timeout
  BY DEF Overdue
<1>2. m \in neighbourList[n]
  BY <1>0, <1>1, Clocks, Times
<1>3. Pair(n, m) /\ Flight(m, n) /\ Flight(n, m)
  BY <1>1 DEF JInv
<1>4. <<m, n>> \notin alive
  BY <1>0, <1>1, <1>2, <1>3, Losses, Clocks, Times DEF Pair, AliveInTime
<1>5. ASSUME 1 \in DOMAIN chan[m][n], chan[m][n][1].type # "HELLO"
      PROVE  FALSE
  <2>1. UpdateAt(m, n, 1) /\ \A j \in 1 .. 1 : ~HelloAt(m, n, j)
    <3>1. chan[m][n][1].type = "UPDATE"
      BY <1>0, <1>1, <1>5, Channels
    <3>2. \A j \in 1 .. 1 : j = 1
      OBVIOUS
    <3> QED
      BY <1>5, <3>1, <3>2 DEF UpdateAt, HelloAt
  <2>2. silence[n][m] <= Longest + Grace + Age(m, n, 1)
    BY <1>2, <1>3, <1>4, <1>5, <2>1 DEF Pair, UpdateInTime
  <2>3. Age(m, n, 1) \in Nat /\ Age(m, n, 1) <= Longest
    BY <1>0, <1>1, <1>3, <1>5, AgeBound
  <2> QED
    BY <1>0, <1>1, <2>2, <2>3, Clocks, Times
<1>6. CASE chan[m][n] = <<>>
  <2> SUFFICES ASSUME process[m] = "running" PROVE FALSE
    BY <1>4, <1>6
  <2>1. Served(n, m) \/ JoinsBehind(n, m, 0)
    BY <1>2, <1>3, <1>6 DEF Pair, Attended
  <2>2. CASE Served(n, m)
    BY <1>0, <1>1, <1>4, <2>2, Losses, Clocks, Times DEF Served
  <2>3. CASE JoinsBehind(n, m, 0)
    <3>1. PICK i \in DOMAIN chan[n][m] : silence[n][m] <= Age(n, m, i)
      BY <2>3 DEF JoinsBehind
    <3>2. Age(n, m, i) \in Nat /\ Age(n, m, i) <= Longest
      BY <1>0, <1>1, <1>3, AgeBound
    <3> QED
      BY <1>0, <1>1, <3>1, <3>2, Clocks, Times
  <2> QED
    BY <2>1, <2>2, <2>3
<1>7. CASE chan[m][n] # <<>>
  <2>1. 1 \in DOMAIN chan[m][n] /\ Head(chan[m][n]) = chan[m][n][1]
    BY <1>0, <1>1, <1>7, Channels
  <2> QED
    BY <1>4, <1>5, <1>7, <2>1
<1> QED
  BY <1>6, <1>7

-----------------------------------------------------------------------------
(* What the handlers of messages do.                                       *)

\* c is a channel to which at most one UPDATE is written, within its room.
Extended(c, e) ==
  Len(c) < MaxChan /\ \E u : u.type = "UPDATE" /\ e = Append(c, u)
Grown(c, e) == e = c \/ Extended(c, e)

LEMMA AppendPlaces ==
  ASSUME NEW S, NEW c \in Seq(S), NEW u
  PROVE  LET e == Append(c, u)
         IN  /\ DOMAIN e = 1 .. Len(c) + 1 /\ Len(e) = Len(c) + 1
             /\ \A i \in DOMAIN c : e[i] = c[i]
             /\ e[Len(c) + 1] = u
<1>1. c \in Seq(S \cup {u}) /\ u \in S \cup {u}
  OBVIOUS
<1> QED
  BY <1>1, AppendProperties

LEMMA TailPlaces ==
  ASSUME NEW S, NEW c \in Seq(S), c # <<>>
  PROVE  LET e == Tail(c)
         IN  /\ Len(e) + 1 = Len(c) /\ Len(e) \in Nat /\ DOMAIN e = 1 .. Len(e)
             /\ \A i \in DOMAIN e : e[i] = c[i + 1]
<1>1. Tail(c) \in Seq(S) /\ Len(c) \in Nat \ {0}
  BY EmptySeq
<1> QED
  BY <1>1, HeadTailProperties

LEMMA GrownPlaces ==
  ASSUME NEW S, NEW c \in Seq(S), NEW e, Grown(c, e), Len(c) <= MaxChan
  PROVE  /\ Len(e) \in Nat /\ DOMAIN e = 1 .. Len(e)
         /\ Len(c) <= Len(e) /\ Len(e) <= MaxChan
         /\ \A i \in DOMAIN c : i \in DOMAIN e /\ e[i] = c[i]
         /\ \A i \in DOMAIN e : i \in DOMAIN c \/ e[i].type = "UPDATE"
<1>0. Len(c) \in Nat /\ DOMAIN c = 1 .. Len(c) /\ MaxChan \in Nat
  BY RoomAssumption
<1>1. CASE e = c
  BY <1>0, <1>1
<1>2. CASE Extended(c, e)
  <2>1. PICK u : Len(c) < MaxChan /\ u.type = "UPDATE" /\ e = Append(c, u)
    BY <1>2 DEF Extended
  <2>2. /\ DOMAIN e = 1 .. Len(c) + 1 /\ Len(e) = Len(c) + 1
        /\ \A i \in DOMAIN c : e[i] = c[i]
        /\ e[Len(c) + 1].type = "UPDATE"
    BY <2>1, AppendPlaces
  <2> QED
    BY <1>0, <2>1, <2>2
<1> QED
  BY <1>1, <1>2 DEF Grown

\* Whoever reads an UPDATE knows its sender afterwards, and tells it the table
\* if the sender is new.
LEMMA JoiningNeighbour ==
  ASSUME NEW n \in Node, NEW s \in Node, NEW t, NEW nbs,
         R!SoundTable(n, t), R!Consistent(n, t, nbs),
         NEW msg \in R!SoundMessage(s, n), msg.type = "UPDATE"
  PROVE  /\ NewNeighbours(t, msg.adv, s) \subseteq {s}
         /\ s \in NewNeighbours(t, msg.adv, s) <=> s \notin nbs
         /\ s \notin nbs => Changed(t, msg.adv, s)
<1>1. /\ s # n /\ \A d \in Node : msg.adv[d] = 0 <=> d = s
  BY LinkAssumption DEF R!SoundMessage
<1>2. NewNeighbours(t, msg.adv, s) \subseteq {s}
  BY <1>1 DEF NewNeighbours
<1>3. 0 # NoEntry /\ 0 # Infinity /\ 1 # 0
  BY NoEntryAssumption, InfinityAssumption DEF Cost
<1>4. CASE s \in nbs
  <2>1. t[s] = [cost |-> 1, next |-> s]
    BY <1>4 DEF R!Consistent
  <2>2. t[s] # NoEntry
    BY <2>1, NoEntryAssumption, InfinityAssumption DEF Entry, Cost
  <2>3. ~Adds(t[s], 0) /\ ~Improves(t[s], 0)
    BY <2>1, <2>2 DEF Adds, Improves
  <2> QED
    BY <1>1, <1>2, <1>4, <2>3 DEF NewNeighbours
<1>5. CASE s \notin nbs
  <2>1. Adds(t[s], 0) \/ Improves(t[s], 0)
    <3>1. CASE t[s] = NoEntry
      BY <1>3, <3>1 DEF Adds
    <3>2. CASE t[s] # NoEntry
      <4>1. t[s] \in [cost : 0 .. Infinity, next : Node]
        BY <3>2 DEF R!SoundTable, R!Table, R!Entry, R!Cost
      <4>2. t[s].cost # 0 /\ (t[s].cost = 1 => t[s].next = s)
        BY <1>1, <3>2 DEF R!SoundTable, R!SoundEntry, R!HasEntry
      <4>3. t[s] # [cost |-> 1, next |-> s]
        BY <1>5 DEF R!Consistent
      <4>4. t[s].cost # 1
        BY <4>1, <4>2, <4>3
      <4>5. t[s].cost > 1
        BY <4>1, <4>2, <4>4, InfinityAssumption
      <4> QED
        BY <1>3, <3>2, <4>5 DEF Improves
    <3> QED
      BY <3>1, <3>2
  <2>2. s \in NewNeighbours(t, msg.adv, s)
    BY <1>1, <2>1 DEF NewNeighbours
  <2>3. Changed(t, msg.adv, s)
    BY <1>1, <2>1 DEF Changed
  <2> QED
    BY <1>2, <1>5, <2>2, <2>3
<1> QED
  BY <1>2, <1>4, <1>5

LEMMA RepliedGrows ==
  ASSUME R!IInv, NEW n \in Node, NEW s \in Node, s # n, NEW t, NEW to,
         Untimed!RoomFor(n, to)
  PROVE  LET c == Untimed!Replied(s, n, t, to)
         IN  /\ c[s][n] = Tail(chan[s][n])
             /\ \A a \in Node, b \in Node :
                  ~(a = s /\ b = n) => Grown(chan[a][b], c[a][b])
             /\ \A a \in Node \ {n}, b \in Node :
                  ~(a = s /\ b = n) => c[a][b] = chan[a][b]
             /\ \A b \in Node \cap to : Extended(chan[n][b], c[n][b])
<1> DEFINE c == Untimed!Replied(s, n, t, to)
           u(b) == Untimed!Update(Untimed!Advertise(t, b))
<1>1. \A a \in Node, b \in Node :
        c[a][b] = IF a = s /\ b = n THEN Tail(chan[a][b])
                  ELSE IF a = n /\ b \in to THEN Append(chan[a][b], u(b))
                  ELSE chan[a][b]
  BY DEF Untimed!Replied
<1>2. \A b : u(b).type = "UPDATE"
  BY DEF Untimed!Update
<1> HIDE DEF u, c
<1>3. \A b \in Node \cap to : Extended(chan[n][b], c[n][b])
  <2> SUFFICES ASSUME NEW b \in Node \cap to PROVE Extended(chan[n][b], c[n][b])
    OBVIOUS
  <2>1. Len(chan[n][b]) < MaxChan
    BY DEF Untimed!RoomFor
  <2>2. c[n][b] = Append(chan[n][b], u(b))
    BY <1>1
  <2> QED
    BY <1>2, <2>1, <2>2 DEF Extended
<1>4. \A a \in Node, b \in Node :
        ~(a = s /\ b = n) => Grown(chan[a][b], c[a][b])
  BY <1>1, <1>3 DEF Grown
<1> QED
  BY <1>1, <1>3, <1>4 DEF c

\* n takes a message of s; what else it writes are UPDATEs, and it may learn
\* of neighbours.
Reads(n, s) ==
  /\ s # n /\ chan[s][n] # <<>>
  /\ UNCHANGED <<process, alive, armed, aliveFor, missed>>
  /\ chan'[s][n] = Tail(chan[s][n])
  /\ \A a \in Node, b \in Node :
       /\ underWay'[a][b] = IF a = s /\ b = n THEN 0 ELSE underWay[a][b]
       /\ ~(a = s /\ b = n) =>
            /\ Grown(chan[a][b], chan'[a][b])
            /\ chan'[a][b] = chan[a][b] \/ (a = n /\ process[n] = "running")
       /\ silence'[a][b] = silence[a][b] \/ silence'[a][b] = 0
  /\ \A a \in Node : neighbourList[a] \subseteq neighbourList'[a]
  /\ \A a \in Node \ {n} : neighbourList'[a] = neighbourList[a]
  /\ neighbourList'[n] \subseteq neighbourList[n] \cup {s}

LEMMA NextOfEffect ==
  ASSUME ClocksSound, NEW n \in Node, NEW s \in Node, NextOf(s, n)
  PROVE  \A a \in Node, b \in Node :
           underWay'[a][b] = IF a = s /\ b = n THEN 0 ELSE underWay[a][b]
<1>1. 0 \in 0 .. MaxDelay
  BY TimeAssumption
<1> QED
  BY <1>1, ZeroClock DEF ClocksSound, TypeOK, NextOf

LEMMA UpdateTimeEffect ==
  ASSUME ClocksSound, NEW n \in Node, NEW s \in Node, silence' = UpdateTime(n, s)
  PROVE  \A a \in Node, b \in Node :
           silence'[a][b] = IF a = n /\ b = s THEN 0 ELSE silence[a][b]
<1>1. 0 \in Nat
  OBVIOUS
<1> QED
  BY <1>1, ZeroClock DEF ClocksSound, TypeOK, UpdateTime

LEMMA HandleHelloEffect ==
  ASSUME ClocksSound, R!IInv, NEW n \in Node, NEW s \in Node, HandleHello(n, s)
  PROVE  /\ Reads(n, s) /\ process[n] = "running" /\ HelloAt(s, n, 1)
         /\ neighbourList' = neighbourList
         /\ silence'[n][s] = 0 /\ Extended(chan[n][s], chan'[n][s])
<1>1. /\ Untimed!Next2Read(n, s, "HELLO") /\ Untimed!RoomFor(n, {s})
      /\ chan' = Untimed!Replied(s, n, table[n], {s})
      /\ UNCHANGED <<process, neighbourList, alive>>
  BY DEF HandleHello, Untimed!HandleHello
<1>2. /\ silence' = UpdateTime(n, s) /\ NextOf(s, n)
      /\ UNCHANGED <<armed, aliveFor, missed>>
  BY DEF HandleHello
<1>3. /\ process[n] = "running" /\ chan[s][n] # <<>>
      /\ Head(chan[s][n]).type = "HELLO"
  BY <1>1 DEF Untimed!Next2Read
<1>4. s # n /\ HelloAt(s, n, 1)
  BY <1>3, Channels DEF HelloAt
<1>5. /\ chan'[s][n] = Tail(chan[s][n])
      /\ \A a \in Node, b \in Node :
           ~(a = s /\ b = n) => Grown(chan[a][b], chan'[a][b])
      /\ \A a \in Node \ {n}, b \in Node :
           ~(a = s /\ b = n) => chan'[a][b] = chan[a][b]
      /\ \A b \in Node \cap {s} : Extended(chan[n][b], chan'[n][b])
  <2> DEFINE to == {s}
  <2>1. Untimed!RoomFor(n, to) /\ chan' = Untimed!Replied(s, n, table[n], to)
    BY <1>1
  <2> HIDE DEF to
  <2>2. /\ chan'[s][n] = Tail(chan[s][n])
        /\ \A a \in Node, b \in Node :
             ~(a = s /\ b = n) => Grown(chan[a][b], chan'[a][b])
        /\ \A a \in Node \ {n}, b \in Node :
             ~(a = s /\ b = n) => chan'[a][b] = chan[a][b]
        /\ \A b \in Node \cap to : Extended(chan[n][b], chan'[n][b])
    BY <1>4, <2>1, RepliedGrows
  <2> QED
    BY <2>2 DEF to
<1>6. \A a \in Node, b \in Node :
        underWay'[a][b] = IF a = s /\ b = n THEN 0 ELSE underWay[a][b]
  BY <1>2, NextOfEffect
<1>7. \A a \in Node, b \in Node :
        silence'[a][b] = IF a = n /\ b = s THEN 0 ELSE silence[a][b]
  BY <1>2, UpdateTimeEffect
<1>8. Reads(n, s)
  BY ZenonT(30), <1>1, <1>2, <1>3, <1>4, <1>5, <1>6, <1>7 DEF Reads
<1> QED
  BY <1>1, <1>3, <1>4, <1>5, <1>7, <1>8

LEMMA HandleUpdateEffect ==
  ASSUME ClocksSound, R!IInv, NEW n \in Node, NEW s \in Node, HandleUpdate(n, s)
  PROVE  /\ Reads(n, s) /\ process[n] = "running" /\ UpdateAt(s, n, 1)
         /\ s \in neighbourList'[n]
         /\ s \notin neighbourList[n] =>
              silence'[n][s] = 0 /\ Extended(chan[n][s], chan'[n][s])
         /\ \A a \in Node, b \in Node : b \in neighbourList[a] =>
              silence'[a][b] = silence[a][b]
<1> DEFINE msg == Head(chan[s][n])
           new == NewNeighbours(table[n], msg.adv, s)
           t   == Untimed!MergeUpdate(table[n], msg.adv, s)
           nbs == neighbourList[n] \cup new
           to  == IF Changed(table[n], msg.adv, s) THEN nbs ELSE {}
<1>1. Untimed!HandleUpdate(n, s) /\ Untimed!Next2Read(n, s, "UPDATE")
  BY DEF HandleUpdate
<1>2. /\ NextOf(s, n) /\ UNCHANGED <<armed, aliveFor, missed>>
      /\ silence' = [silence EXCEPT ![n] =
                       [m \in Node |-> IF m \in new THEN 0 ELSE silence[n][m]]]
  BY DEF HandleUpdate
<1>3. process[n] = "running" /\ chan[s][n] # <<>> /\ msg.type = "UPDATE"
  BY <1>1 DEF Untimed!Next2Read
<1>4. s # n /\ UpdateAt(s, n, 1) /\ msg \in R!SoundMessage(s, n)
  BY <1>3, Channels DEF UpdateAt
<1>5. /\ Untimed!NewNeighbours(table[n], msg.adv, s) = new
      /\ Untimed!Changed(table[n], msg.adv, s) <=> Changed(table[n], msg.adv, s)
  BY DEF NewNeighbours, Untimed!NewNeighbours, Changed, Untimed!Changed,
         Adds, Untimed!Adds, Improves, Untimed!Improves, Poisons, Untimed!Poisons
<1>6. /\ Untimed!RoomFor(n, to) /\ chan' = Untimed!Replied(s, n, t, to)
      /\ neighbourList' = [neighbourList EXCEPT ![n] = nbs]
      /\ UNCHANGED <<process, alive>>
  <2> HIDE DEF msg, t
  <2> QED
    BY <1>1, <1>5 DEF Untimed!HandleUpdate, msg, t
<1>7. /\ new \subseteq {s}
      /\ s \in new <=> s \notin neighbourList[n]
      /\ s \notin neighbourList[n] => Changed(table[n], msg.adv, s)
  <2> DEFINE mine == table[n]
             mates == neighbourList[n]
  <2>1. R!SoundTable(n, mine) /\ R!Consistent(n, mine, mates)
    BY <1>3 DEF R!IInv, R!SoundDaemon
  <2>2. msg \in R!SoundMessage(s, n) /\ msg.type = "UPDATE"
    BY <1>3, <1>4
  <2> HIDE DEF msg, mine, mates
  <2>3. /\ NewNeighbours(mine, msg.adv, s) \subseteq {s}
        /\ s \in NewNeighbours(mine, msg.adv, s) <=> s \notin mates
        /\ s \notin mates => Changed(mine, msg.adv, s)
    BY <2>1, <2>2, JoiningNeighbour
  <2> QED
    BY <2>3 DEF mine, mates
<1> HIDE DEF msg, new, t, to
<1>8. /\ chan'[s][n] = Tail(chan[s][n])
      /\ \A a \in Node, b \in Node :
           ~(a = s /\ b = n) => Grown(chan[a][b], chan'[a][b])
      /\ \A a \in Node \ {n}, b \in Node :
           ~(a = s /\ b = n) => chan'[a][b] = chan[a][b]
      /\ \A b \in Node \cap to : Extended(chan[n][b], chan'[n][b])
  BY <1>4, <1>6, RepliedGrows
<1>9. \A a \in Node, b \in Node :
        underWay'[a][b] = IF a = s /\ b = n THEN 0 ELSE underWay[a][b]
  BY <1>2, NextOfEffect
<1>10. \A a \in Node, b \in Node :
         silence'[a][b] = IF a = n /\ b \in new THEN 0 ELSE silence[a][b]
  BY <1>2 DEF ClocksSound, TypeOK
<1>11. \A a \in Node :
         neighbourList'[a] = IF a = n THEN neighbourList[n] \cup new
                             ELSE neighbourList[a]
  BY <1>6 DEF ClocksSound
<1>12. Reads(n, s)
  BY <1>2, <1>3, <1>4, <1>6, <1>7, <1>8, <1>9, <1>10, <1>11 DEF Reads
<1>13. s \notin neighbourList[n] =>
         silence'[n][s] = 0 /\ Extended(chan[n][s], chan'[n][s])
  <2> SUFFICES ASSUME s \notin neighbourList[n]
               PROVE  silence'[n][s] = 0 /\ Extended(chan[n][s], chan'[n][s])
    OBVIOUS
  <2>1. s \in to
    BY <1>7 DEF to
  <2> QED
    BY <1>7, <1>8, <1>10, <2>1
<1>14. \A a \in Node, b \in Node : b \in neighbourList[a] =>
         silence'[a][b] = silence[a][b]
  BY <1>7, <1>10
<1> QED
  BY <1>3, <1>4, <1>7, <1>11, <1>12, <1>13, <1>14

LEMMA DropMessageEffect ==
  ASSUME ClocksSound, R!IInv, NEW n \in Node, NEW s \in Node, DropMessage(n, s)
  PROVE  /\ Reads(n, s) /\ process[n] = "down"
         /\ neighbourList' = neighbourList /\ silence' = silence
<1>1. /\ process[n] = "down" /\ chan[s][n] # <<>>
      /\ chan' = [chan EXCEPT ![s][n] = Tail(@)]
      /\ UNCHANGED <<process, neighbourList, alive>>
  BY DEF DropMessage, Untimed!DropMessage, Untimed!daemonVars
<1>2. NextOf(s, n) /\ UNCHANGED <<armed, silence, aliveFor, missed>>
  BY DEF DropMessage
<1>3. s # n
  BY <1>1, Channels
<1>4. \A a \in Node, b \in Node :
        underWay'[a][b] = IF a = s /\ b = n THEN 0 ELSE underWay[a][b]
  BY <1>2, NextOfEffect
<1>5. chan \in [Node -> [Node -> Seq(R!Message)]]
  BY DEF R!IInv, R!SoundChannels
<1>6. \A a \in Node, b \in Node :
        chan'[a][b] = IF a = s /\ b = n THEN Tail(chan[s][n]) ELSE chan[a][b]
  BY <1>1, <1>5
<1> QED
  BY <1>1, <1>2, <1>3, <1>4, <1>6 DEF Reads, Grown

-----------------------------------------------------------------------------
(* A neighbour n and its neighbour m, and a step that changes little.      *)

LEMMA StaysBehind ==
  ASSUME JoinAssumption, JInv, ClocksSound', NEW n \in Node, NEW m \in Node, NEW j \in Nat,
         Grown(chan[n][m], chan'[n][m]), underWay'[n][m] = underWay[n][m],
         silence'[n][m] <= silence[n][m], JoinsBehind(n, m, j)
  PROVE  JoinsBehind(n, m, j)'
<1>0. ClocksSound /\ R!IInv /\ Flight(n, m)
  BY DEF JInv
<1>1. PICK i \in DOMAIN chan[n][m] :
        i > j /\ UpdateAt(n, m, i) /\ silence[n][m] <= Age(n, m, i)
  BY DEF JoinsBehind
<1>2. i \in DOMAIN chan'[n][m] /\ chan'[n][m][i] = chan[n][m][i]
  BY <1>0, <1>1, Channels, GrownPlaces DEF Flight
<1>3. UpdateAt(n, m, i)'
  BY <1>1, <1>2 DEF UpdateAt
<1>4. Age(n, m, i)' = Age(n, m, i) /\ Age(n, m, i) \in Nat
  BY <1>0, <1>1, AgeBound DEF Age, Way
<1>5. silence'[n][m] <= Age(n, m, i)'
  <2>1. silence[n][m] \in Nat /\ silence'[n][m] \in Nat
    BY <1>0, Clocks DEF ClocksSound, TypeOK
  <2> QED
    BY <1>1, <1>4, <2>1
<1> QED
  BY <1>1, <1>2, <1>3, <1>5 DEF JoinsBehind

LEMMA MovesUp ==
  ASSUME JoinAssumption, JInv, NEW n \in Node, NEW m \in Node, NEW j \in Nat,
         chan[n][m] # <<>>, chan'[n][m] = Tail(chan[n][m]), underWay'[n][m] = 0,
         silence'[n][m] = silence[n][m], JoinsBehind(n, m, j + 1)
  PROVE  JoinsBehind(n, m, j)'
<1>0. ClocksSound /\ R!IInv /\ Flight(n, m)
  BY DEF JInv
<1>1. PICK i \in DOMAIN chan[n][m] :
        i > j + 1 /\ UpdateAt(n, m, i) /\ silence[n][m] <= Age(n, m, i)
  BY DEF JoinsBehind
<1>2. i \in 1 .. MaxChan /\ Way(i) \in Nat
  BY <1>0, <1>1, AgeBound
<1>3. PICK k \in Nat : i = k + 1
  <2>1. i - 1 \in Nat /\ i = (i - 1) + 1
    BY <1>2, RoomAssumption
  <2> QED
    BY <2>1
<1>4. k \in DOMAIN chan'[n][m] /\ chan'[n][m][k] = chan[n][m][i] /\ k > j
  <2>1. /\ chan[n][m] \in Seq(R!Message) /\ Len(chan[n][m]) \in Nat
        /\ DOMAIN chan[n][m] = 1 .. Len(chan[n][m])
    BY <1>0, Channels
  <2>2. /\ Len(chan'[n][m]) + 1 = Len(chan[n][m]) /\ Len(chan'[n][m]) \in Nat
        /\ DOMAIN chan'[n][m] = 1 .. Len(chan'[n][m])
        /\ \A h \in DOMAIN chan'[n][m] : chan'[n][m][h] = chan[n][m][h + 1]
    BY <2>1, TailPlaces
  <2>3. k > j /\ k >= 1 /\ k + 1 <= Len(chan[n][m])
    BY <1>1, <1>3, <2>1
  <2> QED
    BY <1>3, <2>2, <2>3
<1>5. UpdateAt(n, m, k)'
  BY <1>1, <1>4 DEF UpdateAt
<1>6. Way(k) = Way(i) + MaxDelay
  <2>1. i - 1 = k
    BY <1>3
  <2> QED
    BY <1>2, <2>1, Ways
<1>7. Age(n, m, k)' = Way(i) + MaxDelay /\ Age(n, m, i) = Way(i) + underWay[n][m]
  BY <1>2, <1>6, Times DEF Age, Way
<1>8. silence'[n][m] <= Age(n, m, k)'
  <2>1. /\ silence[n][m] \in Nat /\ MaxDelay \in Nat
        /\ underWay[n][m] \in Nat /\ underWay[n][m] <= MaxDelay
    BY <1>0, Clocks, Times
  <2> QED
    BY <1>1, <1>2, <1>7, <2>1
<1> QED
  BY <1>4, <1>5, <1>8 DEF JoinsBehind

LEMMA BehindAll ==
  ASSUME JoinAssumption, JInv, ClocksSound', NEW n \in Node, NEW m \in Node,
         Extended(chan[n][m], chan'[n][m]), silence'[n][m] = 0
  PROVE  \A j \in DOMAIN chan'[n][m] \cup {0} :
           j = 0 \/ HelloAt(n, m, j)' => JoinsBehind(n, m, j)'
<1>0. R!IInv /\ Len(chan[n][m]) <= MaxChan
  BY DEF JInv, Flight
<1>1. Len(chan[n][m]) \in Nat /\ Len(chan[n][m]) < MaxChan
  BY <1>0, Channels DEF Extended
<1>2. PICK i \in 1 .. MaxChan : i = Len(chan[n][m]) + 1
  <2>1. Len(chan[n][m]) + 1 \in 1 .. MaxChan
    BY <1>1, RoomAssumption
  <2> QED
    BY <2>1
<1>3. i \in Nat
  BY RoomAssumption
<1>4. DOMAIN chan'[n][m] = 1 .. i /\ chan'[n][m][i].type = "UPDATE"
  <2>1. PICK u : u.type = "UPDATE" /\ chan'[n][m] = Append(chan[n][m], u)
    BY DEF Extended
  <2> QED
    BY <1>0, <1>1, <1>2, <2>1, Channels, AppendPlaces
<1>5. UpdateAt(n, m, i)' /\ ~HelloAt(n, m, i)'
  BY <1>3, <1>4 DEF UpdateAt, HelloAt
<1>6. Age(n, m, i)' = Way(i) + underWay'[n][m] /\ Way(i) \in Nat
  BY Ways DEF Age, Way
<1>7. underWay'[n][m] \in Nat
  BY TimeAssumption DEF ClocksSound, TypeOK
<1>8. silence'[n][m] <= Age(n, m, i)'
  BY <1>6, <1>7
<1> QED
  BY <1>3, <1>4, <1>5, <1>8 DEF JoinsBehind

\* m runs, has said no HELLO that n has not read, and no KEEP-ALIVE of its is
\* under way.
LEMMA HeardBound ==
  ASSUME JoinAssumption, JInv, NEW n \in Node, NEW m \in neighbourList[n], m \in Node,
         process[m] = "running", <<m, n>> \notin alive,
         \A j \in DOMAIN chan[m][n] : ~HelloAt(m, n, j)
  PROVE  silence[n][m] <= Longest + Lost(n, m) + armed[m]
<1>0. ClocksSound /\ R!IInv /\ Flight(n, m) /\ Pair(n, m)
  BY DEF JInv
<1>1. CASE Served(n, m)
  BY <1>0, <1>1, Losses, Clocks, Times DEF Served
<1>2. CASE JoinsBehind(n, m, 0)
  <2>1. PICK i \in DOMAIN chan[n][m] : silence[n][m] <= Age(n, m, i)
    BY <1>2 DEF JoinsBehind
  <2>2. Age(n, m, i) \in Nat /\ Age(n, m, i) <= Longest
    BY <1>0, AgeBound
  <2> QED
    BY <1>0, <2>1, <2>2, Losses, Clocks, Times
<1> QED
  BY <1>0, <1>1, <1>2 DEF Pair, Attended

\* UPDATEs that are written to the end of a channel come in time.
LEMMA UpdateStaysInTime ==
  ASSUME JoinAssumption, JInv, ClocksSound', NEW n \in Node, NEW m \in neighbourList[n],
         m \in Node, Grown(chan[m][n], chan'[m][n]),
         chan'[m][n] = chan[m][n] \/ process[m] = "running",
         <<m, n>> \in alive => <<m, n>> \in alive',
         underWay'[m][n] = underWay[m][n], silence'[n][m] <= silence[n][m]
  PROVE  UpdateInTime(n, m)'
<1>0. ClocksSound /\ R!IInv /\ Flight(m, n) /\ Pair(n, m)
  BY DEF JInv
<1> SUFFICES ASSUME NEW i \in DOMAIN chan'[m][n], <<m, n>> \notin alive',
                    UpdateAt(m, n, i)', \A j \in 1 .. i : ~HelloAt(m, n, j)'
             PROVE  silence'[n][m] <= Longest + Grace + Age(m, n, i)'
  BY DEF UpdateInTime, Longest, Grace, Gap
<1>1. /\ Len(chan'[m][n]) \in Nat /\ DOMAIN chan'[m][n] = 1 .. Len(chan'[m][n])
      /\ Len(chan'[m][n]) <= MaxChan
      /\ \A j \in DOMAIN chan[m][n] :
           j \in DOMAIN chan'[m][n] /\ chan'[m][n][j] = chan[m][n][j]
      /\ DOMAIN chan[m][n] = 1 .. Len(chan[m][n]) /\ Len(chan[m][n]) \in Nat
  BY <1>0, Channels, GrownPlaces DEF Flight
<1>2. i \in 1 .. MaxChan /\ MaxChan \in Nat
  BY <1>1, RoomAssumption
<1>3. Way(i) \in Nat /\ Age(m, n, i)' = Way(i) + underWay[m][n]
  BY <1>2, Ways DEF Age, Way
<1>4. \A j \in DOMAIN chan[m][n] : j <= i => ~HelloAt(m, n, j)
  BY SMTT(30), <1>1, <1>2 DEF HelloAt
<1>5. silence[n][m] \in Nat /\ silence'[n][m] \in Nat /\ underWay[m][n] \in Nat
  BY <1>0, Clocks DEF ClocksSound, TypeOK
<1>6. CASE i \in DOMAIN chan[m][n]
  <2>1. UpdateAt(m, n, i) /\ \A j \in 1 .. i : ~HelloAt(m, n, j)
    BY <1>1, <1>4, <1>6 DEF UpdateAt
  <2>2. silence[n][m] <= Longest + Grace + Age(m, n, i)
    BY <1>0, <1>6, <2>1 DEF Pair, UpdateInTime
  <2> QED
    BY <1>3, <1>5, <2>2, Times DEF Age
<1>7. CASE i \notin DOMAIN chan[m][n]
  <2>1. process[m] = "running"
    BY <1>7
  <2>2. \A j \in DOMAIN chan[m][n] : ~HelloAt(m, n, j)
    BY <1>1, <1>2, <1>4, <1>7
  <2>3. silence[n][m] <= Longest + Lost(n, m) + armed[m]
    BY <2>1, <2>2, HeardBound
  <2> QED
    BY <1>0, <1>3, <1>5, <2>3, Losses, Clocks, Times
<1> QED
  BY <1>6, <1>7

\* Nothing of the pair is read, and neither of the two has an alarm.
LEMMA PairGrows ==
  ASSUME JoinAssumption, JInv, ClocksSound', NEW n \in Node, NEW m \in Node,
         m \in neighbourList'[n] => m \in neighbourList[n],
         n \in neighbourList[m] => n \in neighbourList'[m],
         Grown(chan[n][m], chan'[n][m]), Grown(chan[m][n], chan'[m][n]),
         chan'[m][n] = chan[m][n] \/ process[m] = "running",
         process'[m] = "running" => process[m] = "running",
         armed'[m] = armed[m],
         underWay'[n][m] = underWay[n][m], underWay'[m][n] = underWay[m][n],
         <<m, n>> \in alive' <=> <<m, n>> \in alive,
         aliveFor'[m][n] = aliveFor[m][n], missed'[m][n] = missed[m][n],
         silence'[n][m] = silence[n][m] \/ silence'[n][m] = 0
  PROVE  Pair(n, m)'
<1> SUFFICES ASSUME m \in neighbourList[n]
             PROVE  Told(n, m)' /\ Attended(n, m)' /\ AliveInTime(n, m)'
                    /\ UpdateInTime(n, m)'
  BY DEF Pair
<1>0. ClocksSound /\ R!IInv /\ Pair(n, m) /\ Flight(n, m) /\ Flight(m, n)
  BY DEF JInv
<1>1. /\ silence'[n][m] \in Nat /\ silence[n][m] \in Nat
      /\ silence'[n][m] <= silence[n][m]
  BY <1>0, Clocks
<1>2. \A j \in Nat : JoinsBehind(n, m, j) => JoinsBehind(n, m, j)'
  BY <1>1, StaysBehind
<1>3. Told(n, m)'
  <2> SUFFICES ASSUME NEW j \in DOMAIN chan'[n][m], HelloAt(n, m, j)'
               PROVE  JoinsBehind(n, m, j)'
    BY DEF Told
  <2>1. j \in DOMAIN chan[n][m] /\ chan'[n][m][j] = chan[n][m][j] /\ j \in Nat
    BY <1>0, Channels, GrownPlaces DEF HelloAt, Flight
  <2>2. JoinsBehind(n, m, j)
    BY <1>0, <2>1 DEF HelloAt, Pair, Told
  <2> QED
    BY <1>2, <2>1, <2>2
<1>4. Attended(n, m)'
  <2> SUFFICES ASSUME process[m] = "running"
               PROVE  \/ \E j \in DOMAIN chan'[m][n] : HelloAt(m, n, j)'
                      \/ Served(n, m)'
                      \/ JoinsBehind(n, m, 0)'
    BY DEF Attended
  <2>1. CASE \E j \in DOMAIN chan[m][n] : HelloAt(m, n, j)
    <3>1. PICK j \in DOMAIN chan[m][n] : HelloAt(m, n, j)
      BY <2>1
    <3>2. j \in DOMAIN chan'[m][n] /\ chan'[m][n][j] = chan[m][n][j]
      BY <1>0, Channels, GrownPlaces DEF Flight
    <3> QED
      BY <3>1, <3>2 DEF HelloAt
  <2>2. CASE Served(n, m)
    <3>1. /\ armed[m] \in Nat /\ Longest \in Nat /\ Gap \in Nat /\ Lost(n, m) \in Nat
      BY <1>0, Clocks, Times, Losses
    <3>2. Lost(n, m)' = Lost(n, m) /\ Longest' = Longest /\ Gap' = Gap
      BY DEF Lost, Longest, Gap
    <3> QED
      BY <1>1, <2>2, <3>1, <3>2 DEF Served
  <2>3. CASE JoinsBehind(n, m, 0)
    BY <1>2, <2>3
  <2> QED
    BY <1>0, <2>1, <2>2, <2>3 DEF Pair, Attended
<1>5. AliveInTime(n, m)'
  <2>1. /\ aliveFor[m][n] \in Nat /\ Longest \in Nat /\ Gap \in Nat
        /\ Lost(n, m) \in Nat
    BY <1>0, Clocks, Times, Losses
  <2>2. Lost(n, m)' = Lost(n, m) /\ Longest' = Longest /\ Gap' = Gap
    BY DEF Lost, Longest, Gap
  <2> QED
    BY <1>0, <1>1, <2>1, <2>2 DEF Pair, AliveInTime
<1>6. UpdateInTime(n, m)'
  BY <1>1, UpdateStaysInTime
<1> QED
  BY <1>3, <1>4, <1>5, <1>6

\* n notes the time of m and tells it its table.
LEMMA PairFresh ==
  ASSUME JoinAssumption, JInv, ClocksSound', NEW n \in Node, NEW m \in Node,
         Extended(chan[n][m], chan'[n][m]), silence'[n][m] = 0,
         DOMAIN chan'[m][n] \subseteq 1 .. MaxChan
  PROVE  Pair(n, m)'
<1>1. /\ Longest \in Nat /\ Gap \in Nat /\ Grace \in Nat /\ MaxDelay \in Nat
      /\ Lost(n, m)' \in Nat /\ aliveFor'[m][n] \in Nat
  <2>1. missed'[m][n] \in Nat /\ aliveFor'[m][n] \in Nat
    BY TimeAssumption DEF ClocksSound, TypeOK
  <2>2. missed'[m][n] * Gap \in Nat
    BY <2>1, GapArithmetic
  <2> QED
    BY <2>1, <2>2, Times DEF Lost, Gap
<1>2. Longest' = Longest /\ Gap' = Gap /\ Grace' = Grace
  BY DEF Longest, Gap, Grace
<1>3. Told(n, m)' /\ Attended(n, m)'
  BY BehindAll DEF Told, Attended
<1>4. AliveInTime(n, m)'
  BY <1>1, <1>2 DEF AliveInTime
<1>5. UpdateInTime(n, m)'
  <2> SUFFICES ASSUME NEW i \in DOMAIN chan'[m][n]
               PROVE  silence'[n][m] <= Longest + Grace + Age(m, n, i)'
    BY <1>2 DEF UpdateInTime
  <2>1. Way(i) \in Nat /\ underWay'[m][n] \in Nat
    BY Ways, TimeAssumption DEF ClocksSound, TypeOK
  <2>2. Age(m, n, i)' = Way(i) + underWay'[m][n]
    BY DEF Age, Way
  <2> QED
    BY <1>1, <2>1, <2>2
<1> QED
  BY <1>3, <1>4, <1>5 DEF Pair

\* m reads what n has written.
LEMMA PairRead ==
  ASSUME JoinAssumption, JInv, ClocksSound', NEW n \in Node, NEW m \in Node, Reads(m, n),
         UpdateAt(n, m, 1) /\ process[m] = "running" => n \in neighbourList'[m],
         silence'[n][m] = silence[n][m]
  PROVE  Pair(n, m)'
<1>r. /\ n # m /\ chan[n][m] # <<>> /\ chan'[n][m] = Tail(chan[n][m])
      /\ UNCHANGED <<process, alive, armed, aliveFor, missed>>
      /\ underWay'[n][m] = 0 /\ underWay'[m][n] = underWay[m][n]
      /\ Grown(chan[m][n], chan'[m][n])
      /\ chan'[m][n] = chan[m][n] \/ process[m] = "running"
      /\ neighbourList'[n] = neighbourList[n]
      /\ neighbourList[m] \subseteq neighbourList'[m]
  BY DEF Reads
<1> SUFFICES ASSUME m \in neighbourList[n]
             PROVE  Told(n, m)' /\ Attended(n, m)' /\ AliveInTime(n, m)'
                    /\ UpdateInTime(n, m)'
  BY <1>r DEF Pair
<1>0. ClocksSound /\ R!IInv /\ Pair(n, m) /\ Flight(n, m) /\ Flight(m, n)
  BY DEF JInv
<1>1. /\ silence[n][m] \in Nat /\ armed[m] \in Nat /\ Longest \in Nat /\ Gap \in Nat
      /\ Lost(n, m) \in Nat
  BY <1>0, Clocks, Times, Losses
<1>2. Lost(n, m)' = Lost(n, m) /\ Longest' = Longest /\ Gap' = Gap
  BY <1>r DEF Lost, Longest, Gap
<1>3. \A j \in Nat : JoinsBehind(n, m, j + 1) => JoinsBehind(n, m, j)'
  BY <1>r, MovesUp
<1>8. /\ Len(chan'[n][m]) \in Nat /\ DOMAIN chan'[n][m] = 1 .. Len(chan'[n][m])
      /\ DOMAIN chan[n][m] = 1 .. Len(chan'[n][m]) + 1
      /\ \A i \in DOMAIN chan'[n][m] : chan'[n][m][i] = chan[n][m][i + 1]
  BY <1>0, <1>r, Channels, TailPlaces
<1>4. Told(n, m)'
  <2> SUFFICES ASSUME NEW j \in DOMAIN chan'[n][m], HelloAt(n, m, j)'
               PROVE  JoinsBehind(n, m, j)'
    BY DEF Told
  <2>1. /\ j \in Nat /\ j + 1 \in DOMAIN chan[n][m]
        /\ chan'[n][m][j] = chan[n][m][j + 1]
    BY <1>8 DEF HelloAt
  <2>2. JoinsBehind(n, m, j + 1)
    BY <1>0, <2>1 DEF HelloAt, Pair, Told
  <2> QED
    BY <1>3, <2>1, <2>2
<1>5. Attended(n, m)'
  <2> SUFFICES ASSUME process[m] = "running"
               PROVE  \/ \E j \in DOMAIN chan'[m][n] : HelloAt(m, n, j)'
                      \/ Served(n, m)'
                      \/ JoinsBehind(n, m, 0)'
    BY <1>r DEF Attended
  <2>1. CASE \E j \in DOMAIN chan[m][n] : HelloAt(m, n, j)
    <3>1. PICK j \in DOMAIN chan[m][n] : HelloAt(m, n, j)
      BY <2>1
    <3>2. j \in DOMAIN chan'[m][n] /\ chan'[m][n][j] = chan[m][n][j]
      BY <1>0, <1>r, Channels, GrownPlaces DEF Flight
    <3> QED
      BY <3>1, <3>2 DEF HelloAt
  <2>2. CASE Served(n, m)
    BY <1>r, <1>1, <1>2, <2>2 DEF Served
  <2>3. CASE JoinsBehind(n, m, 0)
    <3>1. PICK i \in DOMAIN chan[n][m] :
            i > 0 /\ UpdateAt(n, m, i) /\ silence[n][m] <= Age(n, m, i)
      BY <2>3 DEF JoinsBehind
    <3>2. CASE i = 1
      <4>1. n \in neighbourList'[m]
        BY <3>1, <3>2
      <4>2. silence[n][m] <= Longest
        BY <1>0, <1>1, <3>1, AgeBound
      <4> QED
        BY <1>r, <1>1, <1>2, <4>1, <4>2 DEF Served
    <3>3. CASE i # 1
      <4>1. i > 0 + 1
        BY <1>0, <3>1, <3>3, AgeBound, RoomAssumption
      <4>2. JoinsBehind(n, m, 0 + 1)
        BY <3>1, <4>1 DEF JoinsBehind
      <4> QED
        BY <1>3, <4>2
    <3> QED
      BY <3>2, <3>3
  <2> QED
    BY <1>0, <2>1, <2>2, <2>3 DEF Pair, Attended
<1>6. AliveInTime(n, m)'
  BY <1>0, <1>r, <1>1, <1>2 DEF Pair, AliveInTime
<1>7. UpdateInTime(n, m)'
  <2>1. silence'[n][m] <= silence[n][m]
    BY <1>1
  <2> QED
    BY <1>r, <2>1, UpdateStaysInTime
<1> QED
  BY <1>4, <1>5, <1>6, <1>7

\* n reads an UPDATE of m.
LEMMA PairHeard ==
  ASSUME JoinAssumption, JInv, ClocksSound', NEW n \in Node, NEW m \in neighbourList[n],
         m \in Node, Reads(n, m), UpdateAt(m, n, 1), silence'[n][m] = silence[n][m]
  PROVE  Pair(n, m)'
<1>r. /\ n # m /\ chan[m][n] # <<>> /\ chan'[m][n] = Tail(chan[m][n])
      /\ UNCHANGED <<process, alive, armed, aliveFor, missed>>
      /\ underWay'[m][n] = 0 /\ underWay'[n][m] = underWay[n][m]
      /\ Grown(chan[n][m], chan'[n][m])
      /\ neighbourList'[m] = neighbourList[m]
  BY DEF Reads
<1>0. ClocksSound /\ R!IInv /\ Pair(n, m) /\ Flight(n, m) /\ Flight(m, n)
  BY DEF JInv
<1>1. /\ silence[n][m] \in Nat /\ armed[m] \in Nat /\ Longest \in Nat /\ Gap \in Nat
      /\ Lost(n, m) \in Nat
  BY <1>0, Clocks, Times, Losses
<1>2. Lost(n, m)' = Lost(n, m) /\ Longest' = Longest /\ Gap' = Gap /\ Grace' = Grace
  BY <1>r DEF Lost, Longest, Gap, Grace
<1>3. \A j \in Nat : JoinsBehind(n, m, j) => JoinsBehind(n, m, j)'
  BY <1>r, <1>1, StaysBehind
<1>8. /\ Len(chan'[m][n]) \in Nat /\ DOMAIN chan'[m][n] = 1 .. Len(chan'[m][n])
      /\ DOMAIN chan[m][n] = 1 .. Len(chan'[m][n]) + 1
      /\ \A i \in DOMAIN chan'[m][n] : chan'[m][n][i] = chan[m][n][i + 1]
  BY <1>0, <1>r, Channels, TailPlaces
<1>4. Told(n, m)'
  <2> SUFFICES ASSUME NEW j \in DOMAIN chan'[n][m], HelloAt(n, m, j)'
               PROVE  JoinsBehind(n, m, j)'
    BY DEF Told
  <2>1. j \in DOMAIN chan[n][m] /\ chan'[n][m][j] = chan[n][m][j] /\ j \in Nat
    BY <1>0, <1>r, Channels, GrownPlaces DEF HelloAt, Flight
  <2>2. JoinsBehind(n, m, j)
    BY <1>0, <2>1 DEF HelloAt, Pair, Told
  <2> QED
    BY <1>3, <2>1, <2>2
<1>5. Attended(n, m)'
  <2> SUFFICES ASSUME process[m] = "running"
               PROVE  \/ \E j \in DOMAIN chan'[m][n] : HelloAt(m, n, j)'
                      \/ Served(n, m)'
                      \/ JoinsBehind(n, m, 0)'
    BY <1>r DEF Attended
  <2>1. CASE \E j \in DOMAIN chan[m][n] : HelloAt(m, n, j)
    <3>1. PICK j \in DOMAIN chan[m][n] : HelloAt(m, n, j)
      BY <2>1
    <3>2. j # 1
      BY <3>1 DEF HelloAt, UpdateAt
    <3>3. j - 1 \in DOMAIN chan'[m][n] /\ chan'[m][n][j - 1] = chan[m][n][j]
      BY <1>8, <3>2
    <3> QED
      BY <3>1, <3>3 DEF HelloAt
  <2>2. CASE Served(n, m)
    BY <1>r, <1>1, <1>2, <2>2 DEF Served
  <2>3. CASE JoinsBehind(n, m, 0)
    BY <1>3, <2>3
  <2> QED
    BY <1>0, <2>1, <2>2, <2>3 DEF Pair, Attended
<1>6. AliveInTime(n, m)'
  BY <1>0, <1>r, <1>1, <1>2 DEF Pair, AliveInTime
<1>7. UpdateInTime(n, m)'
  <2> SUFFICES ASSUME NEW i \in DOMAIN chan'[m][n], <<m, n>> \notin alive,
                      UpdateAt(m, n, i)', \A j \in 1 .. i : ~HelloAt(m, n, j)'
               PROVE  silence[n][m] <= Longest + Grace + Age(m, n, i)'
    BY <1>r, <1>2 DEF UpdateInTime
  <2>1. i \in Nat /\ i + 1 \in DOMAIN chan[m][n] /\ chan'[m][n][i] = chan[m][n][i + 1]
    BY <1>8
  <2>2. UpdateAt(m, n, i + 1)
    BY <2>1 DEF UpdateAt
  <2>3. \A j \in 1 .. i + 1 : ~HelloAt(m, n, j)
    <3> SUFFICES ASSUME NEW j \in 1 .. i + 1, HelloAt(m, n, j) PROVE FALSE
      OBVIOUS
    <3>1. j # 1 /\ j \in DOMAIN chan[m][n]
      BY DEF HelloAt, UpdateAt
    <3>2. /\ j - 1 \in 1 .. i /\ j - 1 \in DOMAIN chan'[m][n]
          /\ chan'[m][n][j - 1] = chan[m][n][j]
      BY SMTT(30), <1>8, <2>1, <3>1
    <3> QED
      BY <3>2 DEF HelloAt
  <2>4. silence[n][m] <= Longest + Grace + Age(m, n, i + 1)
    BY <1>0, <2>1, <2>2, <2>3 DEF Pair, UpdateInTime
  <2>5. i + 1 \in 1 .. MaxChan /\ Way(i + 1) \in Nat
    BY <1>0, <2>1, AgeBound
  <2>6. Way(i) = Way(i + 1) + MaxDelay
    <3>1. (i + 1) - 1 = i
      BY <2>1
    <3> QED
      BY <2>5, <3>1, Ways
  <2>7. Age(m, n, i)' = Way(i) /\ Age(m, n, i + 1) = Way(i + 1) + underWay[m][n]
    BY <1>r, <2>5, <2>6, Times DEF Age, Way
  <2>8. underWay[m][n] \in Nat /\ underWay[m][n] <= MaxDelay /\ Grace \in Nat
    BY <1>0, Clocks, Times
  <2> QED
    BY <1>1, <2>4, <2>5, <2>6, <2>7, <2>8, Times
<1> QED
  BY <1>4, <1>5, <1>6, <1>7 DEF Pair

LEMMA FlightGrows ==
  ASSUME JoinAssumption, JInv, ClocksSound', NEW s \in Node, NEW d \in Node,
         Grown(chan[s][d], chan'[s][d]), underWay'[s][d] = underWay[s][d],
         armed'[s] = armed[s] \/ armed'[s] = 0,
         <<s, d>> \in alive' <=> <<s, d>> \in alive, aliveFor'[s][d] = aliveFor[s][d]
  PROVE  Flight(s, d)'
<1>0. ClocksSound /\ R!IInv /\ Flight(s, d)
  BY DEF JInv
<1>1. /\ armed[s] \in Nat /\ armed'[s] \in Nat /\ armed'[s] <= armed[s]
      /\ aliveFor[s][d] \in Nat /\ MaxDelay \in Nat
  BY <1>0, Clocks, Times
<1>2. Len(chan'[s][d]) <= MaxChan
  BY <1>0, Channels, GrownPlaces DEF Flight
<1>3. ASSUME NEW i \in DOMAIN chan'[s][d], HelloAt(s, d, i)'
      PROVE  armed'[s] <= Age(s, d, i)' + MaxDelay
  <2>1. i \in DOMAIN chan[s][d] /\ chan'[s][d][i] = chan[s][d][i]
    BY <1>0, <1>3, Channels, GrownPlaces DEF HelloAt, Flight
  <2>2. armed[s] <= Age(s, d, i) + MaxDelay /\ Age(s, d, i) \in Nat
    BY <1>0, <1>3, <2>1, AgeBound DEF Flight, HelloAt
  <2>3. Age(s, d, i)' = Age(s, d, i)
    BY DEF Age, Way
  <2> QED
    BY <1>1, <2>2, <2>3
<1> QED
  BY <1>0, <1>1, <1>2, <1>3 DEF Flight

LEMMA FlightRead ==
  ASSUME JoinAssumption, JInv, ClocksSound', NEW s \in Node, NEW d \in Node,
         chan[s][d] # <<>>, chan'[s][d] = Tail(chan[s][d]), underWay'[s][d] = 0,
         UNCHANGED <<armed, alive, aliveFor>>
  PROVE  Flight(s, d)'
<1>0. ClocksSound /\ R!IInv /\ Flight(s, d)
  BY DEF JInv
<1>1. /\ Len(chan'[s][d]) \in Nat /\ DOMAIN chan'[s][d] = 1 .. Len(chan'[s][d])
      /\ Len(chan'[s][d]) + 1 = Len(chan[s][d])
      /\ DOMAIN chan[s][d] = 1 .. Len(chan'[s][d]) + 1
      /\ \A i \in DOMAIN chan'[s][d] : chan'[s][d][i] = chan[s][d][i + 1]
  BY <1>0, Channels, TailPlaces
<1>2. Len(chan'[s][d]) <= MaxChan
  BY <1>0, <1>1, RoomAssumption DEF Flight
<1>3. ASSUME NEW i \in DOMAIN chan'[s][d], HelloAt(s, d, i)'
      PROVE  armed'[s] <= Age(s, d, i)' + MaxDelay
  <2>1. i \in Nat /\ i + 1 \in DOMAIN chan[s][d] /\ HelloAt(s, d, i + 1)
    BY <1>1, <1>3 DEF HelloAt
  <2>2. armed[s] <= Age(s, d, i + 1) + MaxDelay
    BY <1>0, <2>1 DEF Flight
  <2>3. i + 1 \in 1 .. MaxChan /\ Way(i + 1) \in Nat
    BY <1>0, <2>1, AgeBound
  <2>4. Way(i) = Way(i + 1) + MaxDelay
    <3>1. (i + 1) - 1 = i
      BY <2>1
    <3> QED
      BY <2>3, <3>1, Ways
  <2>5. /\ underWay[s][d] \in Nat /\ underWay[s][d] <= MaxDelay /\ MaxDelay \in Nat
        /\ armed[s] \in Nat
    BY <1>0, Clocks, Times
  <2>6. Age(s, d, i)' = Way(i) /\ Age(s, d, i + 1) = Way(i + 1) + underWay[s][d]
    BY <2>3, <2>4, <2>5 DEF Age, Way
  <2> QED
    BY <2>2, <2>3, <2>4, <2>5, <2>6
<1> QED
  BY <1>0, <1>2, <1>3 DEF Flight

LEMMA NotItsOwnNeighbour ==
  ASSUME R!IInv, NEW n \in Node, NEW m \in neighbourList[n]
  PROVE  m \in Node /\ m # n /\ <<n, m>> \in Link /\ <<m, n>> \in Link
<1>1. process[n] = "running"
  BY DEF R!IInv, R!SoundDaemon
<1>2. m \in R!LinkedTo(n)
  BY <1>1 DEF R!IInv, R!SoundDaemon, R!Consistent
<1> QED
  BY <1>2, LinkAssumption DEF R!LinkedTo

LEMMA ReadsKeepsFlights ==
  ASSUME JoinAssumption, JInv, ClocksSound', NEW n \in Node, NEW s \in Node, Reads(n, s)
  PROVE  /\ \A a \in Node : Prompt(a)'
         /\ \A a \in Node, b \in Node : Flight(a, b)'
<1>1. \A a \in Node : Prompt(a)'
  BY DEF JInv, Prompt, Reads
<1>2. ASSUME NEW a \in Node, NEW b \in Node PROVE Flight(a, b)'
  <2>1. CASE a = s /\ b = n
    BY <2>1, FlightRead DEF Reads
  <2>2. CASE ~(a = s /\ b = n)
    BY <2>2, FlightGrows DEF Reads
  <2> QED
    BY <2>1, <2>2
<1> QED
  BY <1>1, <1>2

LEMMA ReadsKeepsOtherPairs ==
  ASSUME JoinAssumption, JInv, ClocksSound', NEW k \in Node, NEW s \in Node, Reads(k, s),
         NEW n \in Node, NEW m \in Node, ~(n = k /\ m = s), ~(n = s /\ m = k)
  PROVE  Pair(n, m)'
<1>1. /\ m \in neighbourList'[n] => m \in neighbourList[n]
      /\ n \in neighbourList[m] => n \in neighbourList'[m]
      /\ Grown(chan[n][m], chan'[n][m]) /\ Grown(chan[m][n], chan'[m][n])
      /\ chan'[m][n] = chan[m][n] \/ process[m] = "running"
      /\ process'[m] = process[m] /\ armed'[m] = armed[m]
      /\ underWay'[n][m] = underWay[n][m] /\ underWay'[m][n] = underWay[m][n]
      /\ <<m, n>> \in alive' <=> <<m, n>> \in alive
      /\ aliveFor'[m][n] = aliveFor[m][n] /\ missed'[m][n] = missed[m][n]
      /\ silence'[n][m] = silence[n][m] \/ silence'[n][m] = 0
  BY DEF Reads
<1> QED
  BY <1>1, PairGrows

LEMMA HandleHelloJoins ==
  ASSUME JoinAssumption, JInv, ClocksSound', R!IInv',
         NEW n \in Node, NEW s \in Node, HandleHello(n, s)
  PROVE  JInv'
<1>1. /\ Reads(n, s) /\ process[n] = "running" /\ HelloAt(s, n, 1)
      /\ neighbourList' = neighbourList
      /\ silence'[n][s] = 0 /\ Extended(chan[n][s], chan'[n][s])
  BY HandleHelloEffect DEF JInv
<1>2. /\ \A a \in Node : Prompt(a)'
      /\ \A a \in Node, b \in Node : Flight(a, b)'
  BY <1>1, ReadsKeepsFlights
<1>3. Pair(n, s)'
  <2>1. DOMAIN chan'[s][n] \subseteq 1 .. MaxChan
    <3>1. chan[s][n] # <<>> /\ chan'[s][n] = Tail(chan[s][n])
      BY <1>1 DEF Reads
    <3>2. /\ DOMAIN chan'[s][n] = 1 .. Len(chan'[s][n]) /\ Len(chan'[s][n]) \in Nat
      BY <3>1, Channels, TailPlaces DEF JInv
    <3>3. Len(chan'[s][n]) <= MaxChan
      BY <1>2 DEF Flight
    <3> QED
      BY <3>2, <3>3, RoomAssumption
  <2> QED
    BY <1>1, <2>1, PairFresh
<1>4. Pair(s, n)'
  <2>1. CASE n \in neighbourList[s]
    <3>1. silence'[s][n] = silence[s][n]
      <4>1. s # n
        BY <1>1 DEF Reads
      <4>2. \A a \in Node, b \in Node :
              silence'[a][b] = IF a = n /\ b = s THEN 0 ELSE silence[a][b]
        BY UpdateTimeEffect DEF HandleHello, JInv
      <4> QED
        BY <4>1, <4>2
    <3>2. ~UpdateAt(s, n, 1)
      BY <1>1 DEF HelloAt, UpdateAt
    <3> QED
      BY <1>1, <3>1, <3>2, PairRead
  <2>2. CASE n \notin neighbourList[s]
    BY <1>1, <2>2 DEF Pair
  <2> QED
    BY <2>1, <2>2
<1>5. \A a \in Node, b \in Node : Pair(a, b)'
  BY <1>1, <1>3, <1>4, ReadsKeepsOtherPairs
<1> QED
  BY <1>2, <1>5 DEF JInv

LEMMA HandleUpdateJoins ==
  ASSUME JoinAssumption, JInv, ClocksSound', R!IInv',
         NEW n \in Node, NEW s \in Node, HandleUpdate(n, s)
  PROVE  JInv'
<1>1. /\ Reads(n, s) /\ process[n] = "running" /\ UpdateAt(s, n, 1)
      /\ s \in neighbourList'[n]
      /\ s \notin neighbourList[n] =>
           silence'[n][s] = 0 /\ Extended(chan[n][s], chan'[n][s])
      /\ \A a \in Node, b \in Node : b \in neighbourList[a] =>
           silence'[a][b] = silence[a][b]
  BY HandleUpdateEffect DEF JInv
<1>2. /\ \A a \in Node : Prompt(a)'
      /\ \A a \in Node, b \in Node : Flight(a, b)'
  BY <1>1, ReadsKeepsFlights
<1>3. Pair(n, s)'
  <2>1. CASE s \in neighbourList[n]
    BY <1>1, <2>1, PairHeard
  <2>2. CASE s \notin neighbourList[n]
    <3>1. DOMAIN chan'[s][n] \subseteq 1 .. MaxChan
      <4>1. chan[s][n] # <<>> /\ chan'[s][n] = Tail(chan[s][n])
        BY <1>1 DEF Reads
      <4>2. /\ DOMAIN chan'[s][n] = 1 .. Len(chan'[s][n]) /\ Len(chan'[s][n]) \in Nat
        BY <4>1, Channels, TailPlaces DEF JInv
      <4>3. Len(chan'[s][n]) <= MaxChan
        BY <1>2 DEF Flight
      <4> QED
        BY <4>2, <4>3, RoomAssumption
    <3> QED
      BY <1>1, <2>2, <3>1, PairFresh
  <2> QED
    BY <2>1, <2>2
<1>4. Pair(s, n)'
  <2>1. CASE n \in neighbourList[s]
    BY <1>1, <2>1, PairRead
  <2>2. CASE n \notin neighbourList[s]
    BY <1>1, <2>2 DEF Pair, Reads
  <2> QED
    BY <2>1, <2>2
<1>5. \A a \in Node, b \in Node : Pair(a, b)'
  BY <1>1, <1>3, <1>4, ReadsKeepsOtherPairs
<1> QED
  BY <1>2, <1>5 DEF JInv

LEMMA DropMessageJoins ==
  ASSUME JoinAssumption, JInv, ClocksSound', R!IInv',
         NEW n \in Node, NEW s \in Node, DropMessage(n, s)
  PROVE  JInv'
<1>1. /\ Reads(n, s) /\ process[n] = "down"
      /\ neighbourList' = neighbourList /\ silence' = silence
  BY DropMessageEffect DEF JInv
<1>2. /\ \A a \in Node : Prompt(a)'
      /\ \A a \in Node, b \in Node : Flight(a, b)'
  BY <1>1, ReadsKeepsFlights
<1>3. Pair(n, s)'
  BY <1>1 DEF JInv, ClocksSound, Pair
<1>4. Pair(s, n)'
  BY <1>1, PairRead
<1>5. \A a \in Node, b \in Node : Pair(a, b)'
  BY <1>1, <1>3, <1>4, ReadsKeepsOtherPairs
<1> QED
  BY <1>2, <1>5 DEF JInv

LEMMA StartJoins ==
  ASSUME JoinAssumption, JInv, ClocksSound', R!IInv', NEW k \in Node, Start(k)
  PROVE  JInv'
<1>0. ClocksSound
  BY DEF JInv
<1>1. /\ process[k] = "down" /\ process' = [process EXCEPT ![k] = "connected"]
      /\ armed' = [armed EXCEPT ![k] = 0]
      /\ UNCHANGED <<silence, underWay, aliveFor, missed, neighbourList, chan, alive>>
  BY DEF Start, Untimed!Start, Untimed!daemonVars
<1>2. \A n \in Node : armed'[n] = armed[n]
  BY <1>1 DEF JInv, ClocksSound, TypeOK, Prompt
<1>3. ASSUME NEW n \in Node PROVE Prompt(n)'
  <2>1. Prompt(n) /\ Prompt(k) /\ MaxDelay \in Nat
    BY Times DEF JInv
  <2> QED
    BY <1>0, <1>1, <1>2, <2>1 DEF Prompt, ClocksSound
<1>4. ASSUME NEW s \in Node, NEW d \in Node PROVE Flight(s, d)'
  BY <1>1, <1>2, FlightGrows DEF Grown
<1>5. ASSUME NEW n \in Node, NEW m \in Node PROVE Pair(n, m)'
  <2>1. process'[m] = "running" => process[m] = "running"
    BY <1>0, <1>1 DEF ClocksSound
  <2> QED
    BY <1>1, <1>2, <2>1, PairGrows DEF Grown
<1> QED
  BY <1>3, <1>4, <1>5 DEF JInv

\* k greets every node on its wires.
LEMMA GreetingPlaces ==
  ASSUME JoinAssumption, JInv, NEW k \in Node, HandleHandshakeReply(k), NEW d \in Node
  PROVE  LET c == chan[k][d]
             e == chan'[k][d]
         IN  /\ <<k, d>> \notin Link => e = c
             /\ <<k, d>> \in Link =>
                  /\ DOMAIN c = 1 .. Len(c) /\ Len(c) \in Nat /\ Len(c) < MaxChan
                  /\ DOMAIN e = 1 .. Len(c) + 1 /\ Len(e) = Len(c) + 1
                  /\ \A i \in DOMAIN c : e[i] = c[i]
                  /\ e[Len(c) + 1].type = "HELLO"
<1>1. /\ Untimed!RoomFor(k, Untimed!LinkedTo(k))
      /\ chan' = [chan EXCEPT ![k] = [b \in Node |->
                    IF b \in Untimed!LinkedTo(k) THEN Append(chan[k][b], Untimed!Hello)
                                                 ELSE chan[k][b]]]
  BY DEF HandleHandshakeReply, Untimed!HandleHandshakeReply
<1>2. chan \in [Node -> [Node -> Seq(R!Message)]]
  BY DEF JInv, R!IInv, R!SoundChannels
<1>3. chan'[k][d] = IF d \in Untimed!LinkedTo(k)
                    THEN Append(chan[k][d], Untimed!Hello) ELSE chan[k][d]
  BY <1>1, <1>2
<1>4. d \in Untimed!LinkedTo(k) <=> <<k, d>> \in Link
  BY DEF Untimed!LinkedTo
<1>5. Untimed!Hello.type = "HELLO"
  BY DEF Untimed!Hello
<1>6. CASE <<k, d>> \in Link
  <2>1. Len(chan[k][d]) < MaxChan
    BY <1>1, <1>4, <1>6 DEF Untimed!RoomFor
  <2>2. chan'[k][d] = Append(chan[k][d], Untimed!Hello) /\ chan[k][d] \in Seq(R!Message)
    BY <1>2, <1>3, <1>4, <1>6
  <2>3. /\ DOMAIN chan'[k][d] = 1 .. Len(chan[k][d]) + 1
        /\ Len(chan'[k][d]) = Len(chan[k][d]) + 1
        /\ \A i \in DOMAIN chan[k][d] : chan'[k][d][i] = chan[k][d][i]
        /\ chan'[k][d][Len(chan[k][d]) + 1] = Untimed!Hello
    BY <2>2, AppendPlaces
  <2> QED
    BY <1>5, <1>6, <2>1, <2>2, <2>3
<1> QED
  BY <1>3, <1>4, <1>6

LEMMA HandleHandshakeReplyJoins ==
  ASSUME JoinAssumption, JInv, ClocksSound', R!IInv',
         NEW k \in Node, HandleHandshakeReply(k)
  PROVE  JInv'
<1>0. ClocksSound /\ R!IInv
  BY DEF JInv
<1>1. /\ process[k] = "connected" /\ process' = [process EXCEPT ![k] = "running"]
      /\ UNCHANGED <<silence, underWay, aliveFor, missed, neighbourList, alive, armed>>
      /\ \A a \in Node \ {k} : chan'[a] = chan[a]
  <2>1. chan \in [Node -> [Node -> Seq(R!Message)]]
    BY <1>0 DEF R!IInv, R!SoundChannels
  <2> QED
    BY <2>1 DEF HandleHandshakeReply, Untimed!HandleHandshakeReply, clocks
<1>2. \A n \in Node : process'[n] = IF n = k THEN "running" ELSE process[n]
  BY <1>0, <1>1 DEF ClocksSound
<1>3. \A n \in Node : Prompt(n)'
  BY <1>1, <1>2 DEF JInv, Prompt
<1>4. ASSUME NEW s \in Node, NEW d \in Node PROVE Flight(s, d)'
  <2>1. CASE s = k /\ <<k, d>> \in Link
    <3>1. /\ DOMAIN chan[k][d] = 1 .. Len(chan[k][d])
          /\ Len(chan[k][d]) \in Nat /\ Len(chan[k][d]) < MaxChan
          /\ DOMAIN chan'[k][d] = 1 .. Len(chan[k][d]) + 1
          /\ Len(chan'[k][d]) = Len(chan[k][d]) + 1
          /\ \A i \in DOMAIN chan[k][d] : chan'[k][d][i] = chan[k][d][i]
      BY <2>1, GreetingPlaces
    <3>2. Len(chan'[k][d]) <= MaxChan
      BY <3>1, RoomAssumption
    <3>3. ASSUME NEW i \in DOMAIN chan'[k][d], HelloAt(k, d, i)'
          PROVE  armed'[k] <= Age(k, d, i)' + MaxDelay
      <4>1. Age(k, d, i)' = Age(k, d, i)
        BY <1>1 DEF Age, Way
      <4>2. CASE i \in DOMAIN chan[k][d]
        <5>1. HelloAt(k, d, i) /\ Flight(k, d)
          BY <3>1, <3>3, <4>2 DEF HelloAt, JInv
        <5> QED
          BY <1>1, <4>1, <4>2, <5>1 DEF Flight
      <4>3. CASE i \notin DOMAIN chan[k][d]
        <5>1. i \in 1 .. MaxChan
          BY <3>1, <3>2, RoomAssumption
        <5>2. Way(i) \in Nat /\ Age(k, d, i) = Way(i) + underWay[k][d]
          BY <5>1, Ways DEF Age
        <5>3. armed[k] \in Nat /\ armed[k] <= MaxDelay /\ underWay[k][d] \in Nat
          BY <1>0, <1>1, Clocks DEF JInv, Prompt
        <5> QED
          BY <1>1, <4>1, <5>2, <5>3, Times
      <4> QED
        BY <4>2, <4>3
    <3>4. Flight(k, d)
      BY DEF JInv
    <3> QED
      BY <1>1, <2>1, <3>2, <3>3, <3>4 DEF Flight
  <2>2. CASE ~(s = k /\ <<k, d>> \in Link)
    <3>1. chan'[s][d] = chan[s][d]
      BY <1>1, <2>2, GreetingPlaces
    <3> QED
      BY <1>1, <3>1, FlightGrows DEF Grown
  <2> QED
    BY <2>1, <2>2
<1>5. ASSUME NEW n \in Node, NEW m \in Node PROVE Pair(n, m)'
  <2>1. CASE n = k
    BY <1>0, <1>1, <2>1 DEF Pair, ClocksSound
  <2>2. CASE n # k /\ m # k
    <3>1. chan'[n][m] = chan[n][m] /\ chan'[m][n] = chan[m][n] /\ process'[m] = process[m]
      BY <1>1, <1>2, <2>2
    <3> QED
      BY <1>1, <3>1, PairGrows DEF Grown
  <2>3. CASE n # k /\ m = k
    <3> SUFFICES ASSUME m \in neighbourList[n]
                 PROVE  Told(n, m)' /\ Attended(n, m)' /\ AliveInTime(n, m)'
                        /\ UpdateInTime(n, m)'
      BY <1>1 DEF Pair
    <3>1. /\ DOMAIN chan[m][n] = 1 .. Len(chan[m][n]) /\ Len(chan[m][n]) \in Nat
          /\ DOMAIN chan'[m][n] = 1 .. Len(chan[m][n]) + 1
          /\ \A i \in DOMAIN chan[m][n] : chan'[m][n][i] = chan[m][n][i]
          /\ chan'[m][n][Len(chan[m][n]) + 1].type = "HELLO"
      BY ZenonT(30), <1>0, <2>3, NotItsOwnNeighbour, GreetingPlaces
    <3>2. Pair(n, m) /\ chan'[n][m] = chan[n][m]
      BY <1>1, <2>3 DEF JInv
    <3>3. Told(n, m)'
      BY <1>1, <3>2 DEF Pair, Told, HelloAt, JoinsBehind, UpdateAt, Age, Way
    <3>4. Attended(n, m)'
      BY <3>1 DEF Attended, HelloAt
    <3>5. AliveInTime(n, m)'
      BY <1>1, <3>2 DEF Pair, AliveInTime, Longest, Lost, Gap
    <3>6. UpdateInTime(n, m)'
      <4> SUFFICES ASSUME NEW i \in DOMAIN chan'[m][n], <<m, n>> \notin alive,
                          UpdateAt(m, n, i)', \A j \in 1 .. i : ~HelloAt(m, n, j)'
                   PROVE  silence[n][m] <= Longest + Grace + Age(m, n, i)'
        BY <1>1 DEF UpdateInTime, Longest, Grace, Gap
      <4>1. i \in DOMAIN chan[m][n] /\ UpdateAt(m, n, i)
        BY SMTT(30), <3>1 DEF UpdateAt
      <4>2. \A j \in 1 .. i : ~HelloAt(m, n, j)
        BY <3>1, <4>1 DEF HelloAt
      <4>3. silence[n][m] <= Longest + Grace + Age(m, n, i)
        BY <3>2, <4>1, <4>2 DEF Pair, UpdateInTime
      <4> QED
        BY <1>1, <4>3 DEF Age, Way
    <3> QED
      BY <3>3, <3>4, <3>5, <3>6
  <2> QED
    BY <2>1, <2>2, <2>3
<1> QED
  BY <1>3, <1>4, <1>5 DEF JInv

\* What k has written and its MIP daemon has not read is cut off.
LEMMA CrashEffect ==
  ASSUME JInv, NEW k \in Node, Crash(k)
  PROVE  /\ \A n \in Node : process'[n] = IF n = k THEN "down" ELSE process[n]
         /\ \A n \in Node : neighbourList'[n] = IF n = k THEN {} ELSE neighbourList[n]
         /\ \A n \in Node : armed'[n] = IF n = k THEN 0 ELSE armed[n]
         /\ \A n \in Node \ {k} : /\ chan'[n] = chan[n] /\ silence'[n] = silence[n]
                                  /\ underWay'[n] = underWay[n]
         /\ UNCHANGED <<aliveFor, missed, alive>>
         /\ \A d \in Node :
              /\ Len(chan'[k][d]) \in Nat /\ Len(chan'[k][d]) <= Len(chan[k][d])
              /\ DOMAIN chan'[k][d] = 1 .. Len(chan'[k][d])
              /\ \A i \in DOMAIN chan'[k][d] : /\ i \in DOMAIN chan[k][d]
                                               /\ chan'[k][d][i] = chan[k][d][i]
                                               /\ underWay'[k][d] = underWay[k][d]
<1>0. ClocksSound /\ R!IInv
  BY DEF JInv
<1>1. /\ process' = [process EXCEPT ![k] = "down"]
      /\ neighbourList' = [neighbourList EXCEPT ![k] = {}]
      /\ UNCHANGED alive
      /\ \E kept \in [Node -> 0 .. MaxChan] :
            /\ \A d \in Node : kept[d] <= Len(chan[k][d])
            /\ chan' = [chan EXCEPT ![k] =
                          [d \in Node |-> SubSeq(chan[k][d], 1, kept[d])]]
  BY <1>0 DEF Crash, Untimed!Crash
<1>2. /\ armed' = [armed EXCEPT ![k] = 0]
      /\ silence' = [silence EXCEPT ![k] = [m \in Node |-> 0]]
      /\ UNCHANGED <<aliveFor, missed>>
      /\ underWay' = [underWay EXCEPT ![k] = [d \in Node |->
                        IF chan'[k][d] = <<>> THEN 0 ELSE underWay[k][d]]]
  BY DEF Crash
<1>3. PICK kept \in [Node -> 0 .. MaxChan] :
            /\ \A d \in Node : kept[d] <= Len(chan[k][d])
            /\ chan' = [chan EXCEPT ![k] =
                          [d \in Node |-> SubSeq(chan[k][d], 1, kept[d])]]
  BY <1>1
<1>4. chan \in [Node -> [Node -> Seq(R!Message)]]
  BY <1>0 DEF R!IInv, R!SoundChannels
<1>5. ASSUME NEW d \in Node
      PROVE  /\ Len(chan'[k][d]) \in Nat /\ Len(chan'[k][d]) <= Len(chan[k][d])
             /\ DOMAIN chan'[k][d] = 1 .. Len(chan'[k][d])
             /\ \A i \in DOMAIN chan'[k][d] : /\ i \in DOMAIN chan[k][d]
                                              /\ chan'[k][d][i] = chan[k][d][i]
                                              /\ underWay'[k][d] = underWay[k][d]
  <2>1. chan'[k][d] = SubSeq(chan[k][d], 1, kept[d])
    BY <1>3, <1>4
  <2>2. kept[d] \in Nat /\ kept[d] <= Len(chan[k][d]) /\ chan[k][d] \in Seq(R!Message)
    BY <1>3, <1>4, RoomAssumption
  <2>3. /\ Len(chan'[k][d]) = kept[d] /\ DOMAIN chan'[k][d] = 1 .. kept[d]
        /\ \A i \in 1 .. kept[d] : chan'[k][d][i] = chan[k][d][i]
        /\ DOMAIN chan[k][d] = 1 .. Len(chan[k][d]) /\ Len(chan[k][d]) \in Nat
    BY <2>1, <2>2
  <2>4. underWay'[k][d] = IF chan'[k][d] = <<>> THEN 0 ELSE underWay[k][d]
    BY <1>0, <1>2 DEF ClocksSound, TypeOK
  <2>5. \A i \in DOMAIN chan'[k][d] : chan'[k][d] # <<>>
    OBVIOUS
  <2> QED
    BY <2>2, <2>3, <2>4, <2>5
<1>6. /\ \A n \in Node : process'[n] = IF n = k THEN "down" ELSE process[n]
      /\ \A n \in Node : neighbourList'[n] = IF n = k THEN {} ELSE neighbourList[n]
      /\ \A n \in Node : armed'[n] = IF n = k THEN 0 ELSE armed[n]
  BY <1>0, <1>1, <1>2 DEF ClocksSound, TypeOK
<1>7. \A n \in Node \ {k} : /\ chan'[n] = chan[n] /\ silence'[n] = silence[n]
                            /\ underWay'[n] = underWay[n]
  <2>1. silence \in [Node -> [Node -> Nat]] /\ underWay \in [Node -> [Node -> 0 .. MaxDelay]]
    BY <1>0 DEF ClocksSound, TypeOK
  <2>2. \A n \in Node \ {k} : silence'[n] = silence[n] /\ underWay'[n] = underWay[n]
    BY <1>2, <2>1
  <2>3. \A n \in Node \ {k} : chan'[n] = chan[n]
    BY <1>3, <1>4
  <2> QED
    BY <2>2, <2>3
<1> QED
  BY <1>1, <1>2, <1>5, <1>6, <1>7

LEMMA CrashJoins ==
  ASSUME JoinAssumption, JInv, ClocksSound', R!IInv', NEW k \in Node, Crash(k)
  PROVE  JInv'
<1>0. ClocksSound /\ R!IInv
  BY DEF JInv
<1>1. /\ \A n \in Node : process'[n] = IF n = k THEN "down" ELSE process[n]
      /\ \A n \in Node : neighbourList'[n] = IF n = k THEN {} ELSE neighbourList[n]
      /\ \A n \in Node : armed'[n] = IF n = k THEN 0 ELSE armed[n]
      /\ \A n \in Node \ {k} : /\ chan'[n] = chan[n] /\ silence'[n] = silence[n]
                               /\ underWay'[n] = underWay[n]
      /\ UNCHANGED <<aliveFor, missed, alive>>
  BY CrashEffect
<1>2. \A d \in Node :
              /\ Len(chan'[k][d]) \in Nat /\ Len(chan'[k][d]) <= Len(chan[k][d])
              /\ DOMAIN chan'[k][d] = 1 .. Len(chan'[k][d])
              /\ \A i \in DOMAIN chan'[k][d] : /\ i \in DOMAIN chan[k][d]
                                               /\ chan'[k][d][i] = chan[k][d][i]
                                               /\ underWay'[k][d] = underWay[k][d]
  BY CrashEffect
<1>3. \A n \in Node : Prompt(n)'
  BY <1>1 DEF JInv, Prompt
<1>4. ASSUME NEW s \in Node, NEW d \in Node PROVE Flight(s, d)'
  <2>1. CASE s # k
    BY <1>1, <2>1, FlightGrows DEF Grown
  <2>2. CASE s = k
    <3>1. Flight(k, d) /\ Len(chan[k][d]) \in Nat
      BY <1>0, Channels DEF JInv
    <3>2. Len(chan'[k][d]) <= MaxChan
      BY <1>2, <3>1, RoomAssumption DEF Flight
    <3>3. ASSUME NEW i \in DOMAIN chan'[k][d]
          PROVE  armed'[k] <= Age(k, d, i)' + MaxDelay
      <4>1. i \in 1 .. MaxChan
        BY <1>2, <3>2, RoomAssumption
      <4>2. Way(i) \in Nat /\ Age(k, d, i)' = Way(i) + underWay'[k][d]
        BY <4>1, Ways DEF Age, Way
      <4>3. underWay'[k][d] \in Nat
        BY TimeAssumption DEF ClocksSound, TypeOK
      <4> QED
        BY <1>1, <4>2, <4>3, Times
    <3>4. aliveFor[k][d] \in Nat /\ armed'[k] = 0
      BY <1>0, <1>1, Clocks
    <3> QED
      BY <1>1, <2>2, <3>1, <3>2, <3>3, <3>4 DEF Flight
  <2> QED
    BY <2>1, <2>2
<1>5. ASSUME NEW n \in Node, NEW m \in Node PROVE Pair(n, m)'
  <2>1. CASE n = k
    BY <1>1, <2>1 DEF Pair
  <2>2. CASE n # k /\ m # k
    BY <1>1, <2>2, PairGrows DEF Grown
  <2>3. CASE n # k /\ m = k
    <3> SUFFICES ASSUME m \in neighbourList[n]
                 PROVE  Told(n, m)' /\ Attended(n, m)' /\ AliveInTime(n, m)'
                        /\ UpdateInTime(n, m)'
      BY <1>1, <2>3 DEF Pair
    <3>1. Pair(n, m) /\ chan'[n][m] = chan[n][m] /\ silence'[n][m] = silence[n][m]
          /\ underWay'[n][m] = underWay[n][m]
      BY <1>1, <2>3 DEF JInv
    <3>2. Told(n, m)'
      BY <3>1 DEF Pair, Told, HelloAt, JoinsBehind, UpdateAt, Age, Way
    <3>3. Attended(n, m)'
      BY <1>1, <2>3 DEF Attended
    <3>4. AliveInTime(n, m)'
      BY <1>1, <3>1 DEF Pair, AliveInTime, Longest, Lost, Gap
    <3>5. UpdateInTime(n, m)'
      <4> SUFFICES ASSUME NEW i \in DOMAIN chan'[m][n], <<m, n>> \notin alive,
                          UpdateAt(m, n, i)', \A j \in 1 .. i : ~HelloAt(m, n, j)'
                   PROVE  silence[n][m] <= Longest + Grace + Age(m, n, i)'
        BY <1>1, <3>1 DEF UpdateInTime, Longest, Grace, Gap
      <4>1. i \in DOMAIN chan[m][n] /\ UpdateAt(m, n, i) /\ underWay'[m][n] = underWay[m][n]
        BY <1>2, <2>3 DEF UpdateAt
      <4>2. \A j \in 1 .. i : ~HelloAt(m, n, j)
        BY <1>2, <2>3, <4>1 DEF HelloAt
      <4>3. silence[n][m] <= Longest + Grace + Age(m, n, i)
        BY <3>1, <4>1, <4>2 DEF Pair, UpdateInTime
      <4> QED
        BY <4>1, <4>3 DEF Age, Way
    <3> QED
      BY <3>2, <3>3, <3>4, <3>5
  <2> QED
    BY <2>1, <2>2, <2>3
<1> QED
  BY <1>3, <1>4, <1>5 DEF JInv

LEMMA HandleAliveJoins ==
  ASSUME JoinAssumption, JInv, ClocksSound', R!IInv',
         NEW k \in Node, NEW s \in Node, HandleAlive(k, s)
  PROVE  JInv'
<1>0. ClocksSound /\ R!IInv
  BY DEF JInv
<1>1. /\ UNCHANGED <<process, neighbourList, armed, underWay>>
      /\ alive' = alive \ {<<s, k>>} /\ <<s, k>> \in alive
      /\ aliveFor' = [aliveFor EXCEPT ![s][k] = 0]
      /\ \/ silence' = UpdateTime(k, s) /\ missed' = [missed EXCEPT ![s][k] = 0]
         \/ /\ process[k] # "running" /\ silence' = silence
            /\ missed' = [missed EXCEPT ![s][k] = 0]
         \/ /\ missed[s][k] < MaxMissed /\ silence' = silence
            /\ missed' = [missed EXCEPT ![s][k] = missed[s][k] + 1]
  BY <1>0, HandleAliveEffect
<1>2. chan' = chan
  BY DEF HandleAlive, HandleKeepAlive, DropKeepAlive, LoseKeepAlive,
         Untimed!DropKeepAlive
<1>3. /\ aliveFor'[s][k] = 0
      /\ \A a \in Node, b \in Node : ~(a = s /\ b = k) => aliveFor'[a][b] = aliveFor[a][b]
      /\ \A a \in Node, b \in Node : ~(a = s /\ b = k) => missed'[a][b] = missed[a][b]
      /\ \A a \in Node, b \in Node : ~(a = k /\ b = s) => silence'[a][b] = silence[a][b]
      /\ \/ silence'[k][s] = 0 /\ missed'[s][k] = 0
         \/ process[k] # "running" /\ silence'[k][s] = silence[k][s]
         \/ /\ missed[s][k] < MaxMissed /\ silence'[k][s] = silence[k][s]
            /\ missed'[s][k] = missed[s][k] + 1
  BY <1>0, <1>1 DEF ClocksSound, TypeOK, UpdateTime
<1>4. \A a \in Node, b \in Node :
        ~(a = s /\ b = k) => (<<a, b>> \in alive' <=> <<a, b>> \in alive)
  BY <1>1
<1>5. \A n \in Node : Prompt(n)'
  BY <1>1 DEF JInv, Prompt
<1>6. ASSUME NEW a \in Node, NEW b \in Node PROVE Flight(a, b)'
  <2>1. CASE a = s /\ b = k
    BY <1>1, <1>2, <1>3, <2>1 DEF JInv, Flight, HelloAt, Age, Way
  <2>2. CASE ~(a = s /\ b = k)
    BY ZenonT(30), <1>1, <1>2, <1>3, <1>4, <2>2, FlightGrows DEF Grown
  <2> QED
    BY <2>1, <2>2
<1>7. ASSUME NEW n \in Node, NEW m \in Node, ~(n = k /\ m = s) PROVE Pair(n, m)'
  BY ZenonT(30), <1>1, <1>2, <1>3, <1>4, <1>7, PairGrows DEF Grown
<1>8. Pair(k, s)'
  <2> SUFFICES ASSUME s \in neighbourList[k]
               PROVE  Told(k, s)' /\ Attended(k, s)' /\ AliveInTime(k, s)'
                      /\ UpdateInTime(k, s)'
    BY <1>1 DEF Pair
  <2>1. Pair(k, s) /\ Flight(s, k) /\ process[k] = "running"
    BY <1>0, Clocks DEF JInv
  <2>2. /\ silence[k][s] \in Nat /\ armed[s] \in Nat /\ aliveFor[s][k] \in Nat
        /\ aliveFor[s][k] <= MaxDelay /\ Lost(k, s) \in Nat
        /\ Longest \in Nat /\ Gap \in Nat /\ Grace \in Nat /\ MaxDelay \in Nat
        /\ MaxDelay <= Gap
    BY <1>0, Clocks, Losses, Times
  <2>3. Longest' = Longest /\ Gap' = Gap /\ Grace' = Grace
    BY DEF Longest, Gap, Grace
  <2>4. \/ silence'[k][s] = 0 /\ Lost(k, s)' = 0
        \/ /\ silence'[k][s] = silence[k][s] /\ Lost(k, s)' = Lost(k, s) + Gap
           /\ Lost(k, s) + Gap + Gap <= Grace
    <3>1. CASE silence'[k][s] = 0 /\ missed'[s][k] = 0
      <4>1. 0 * Gap = 0
        BY <2>2
      <4> QED
        BY <2>3, <3>1, <4>1 DEF Lost
    <3>2. CASE /\ missed[s][k] < MaxMissed /\ silence'[k][s] = silence[k][s]
               /\ missed'[s][k] = missed[s][k] + 1
      <4>1. missed[s][k] \in Nat /\ Lost(k, s) + Gap + Gap <= Grace
        BY <1>0, <3>2, Clocks, Losses
      <4>2. (missed[s][k] + 1) * Gap = missed[s][k] * Gap + Gap
        BY <4>1, GapArithmetic
      <4> QED
        BY <2>3, <3>2, <4>1, <4>2 DEF Lost
    <3> QED
      BY <1>3, <2>1, <3>1, <3>2
  <2>5. \A j \in Nat : JoinsBehind(k, s, j) => JoinsBehind(k, s, j)'
    BY <1>1, <1>2, <2>2, <2>4, StaysBehind DEF Grown
  <2>6. Told(k, s)'
    <3> SUFFICES ASSUME NEW j \in DOMAIN chan[k][s], HelloAt(k, s, j)
                 PROVE  JoinsBehind(k, s, j)'
      BY <1>2 DEF Told, HelloAt
    <3>1. DOMAIN chan[k][s] = 1 .. Len(chan[k][s]) /\ Len(chan[k][s]) \in Nat
      BY <1>0, Channels
    <3>2. j \in Nat
      BY <3>1
    <3> QED
      BY <2>1, <2>5, <3>2 DEF Pair, Told
  <2>7. Attended(k, s)'
    <3>1. Served(k, s) => Served(k, s)'
      BY <1>1, <2>2, <2>3, <2>4 DEF Served
    <3> QED
      BY <1>1, <1>2, <2>1, <2>5, <3>1 DEF Pair, Attended, HelloAt
  <2>8. AliveInTime(k, s)'
    BY <1>1 DEF AliveInTime
  <2>9. UpdateInTime(k, s)'
    <3> SUFFICES ASSUME NEW i \in DOMAIN chan[s][k]
                 PROVE  silence'[k][s] <= Longest + Grace + Age(s, k, i)'
      BY <1>2, <2>3 DEF UpdateInTime
    <3>1. Age(s, k, i)' = Age(s, k, i) /\ Age(s, k, i) \in Nat
      BY <1>0, <1>1, <2>1, AgeBound DEF Age, Way
    <3>2. silence[k][s] <= Longest + Lost(k, s) + Gap + aliveFor[s][k]
      BY <1>1, <2>1 DEF Pair, AliveInTime
    <3> QED
      BY <2>2, <2>4, <3>1, <3>2
  <2> QED
    BY <2>6, <2>7, <2>8, <2>9
<1>9. \A n \in Node, m \in Node : Pair(n, m)'
  BY <1>7, <1>8
<1> QED
  BY <1>5, <1>6, <1>9 DEF JInv

LEMMA AnnouncedGrows ==
  ASSUME R!IInv, NEW n \in Node, NEW t, NEW to, Untimed!RoomFor(n, to)
  PROVE  LET c == Untimed!Announced(n, t, to)
         IN  /\ \A b \in Node : Grown(chan[n][b], c[n][b])
             /\ \A a \in Node \ {n} : c[a] = chan[a]
<1> DEFINE c == Untimed!Announced(n, t, to)
           u(b) == Untimed!Update(Untimed!Advertise(t, b))
<1>1. chan \in [Node -> [Node -> Seq(R!Message)]]
  BY DEF R!IInv, R!SoundChannels
<1>2. c = [chan EXCEPT ![n] = [b \in Node |->
             IF b \in to THEN Append(chan[n][b], u(b)) ELSE chan[n][b]]]
  BY DEF Untimed!Announced
<1>3. \A b : u(b).type = "UPDATE"
  BY DEF Untimed!Update
<1> HIDE DEF u, c
<1>4. /\ \A a \in Node \ {n} : c[a] = chan[a]
      /\ \A b \in Node : c[n][b] = IF b \in to THEN Append(chan[n][b], u(b))
                                               ELSE chan[n][b]
  BY <1>1, <1>2
<1>5. ASSUME NEW b \in Node PROVE Grown(chan[n][b], c[n][b])
  <2>1. CASE b \in to
    <3>1. Len(chan[n][b]) < MaxChan
      BY <2>1 DEF Untimed!RoomFor
    <3>2. c[n][b] = Append(chan[n][b], u(b))
      BY <1>4, <2>1
    <3> QED
      BY <1>3, <3>1, <3>2 DEF Grown, Extended
  <2>2. CASE b \notin to
    BY <1>4, <2>2 DEF Grown
  <2> QED
    BY <2>1, <2>2
<1> QED
  BY <1>4, <1>5 DEF c

\* By the time of an alarm the daemon runs, and what it wrote at its start and
\* at its last alarm has been read.
LEMMA AlarmEffect ==
  ASSUME JoinAssumption, JInv, NEW k \in Node, Alarm(k)
  PROVE  /\ process[k] = "running"
         /\ \A d \in Node : /\ <<k, d>> \notin alive
                            /\ \A j \in DOMAIN chan[k][d] : ~HelloAt(k, d, j)
         /\ UNCHANGED <<process, underWay, aliveFor, missed>>
         /\ alive' = alive \cup {<<k, d>> : d \in neighbourList[k]}
         /\ \A n \in Node : armed'[n] = IF n = k THEN 0 ELSE armed[n]
         /\ \A n \in Node : neighbourList'[n] =
              IF n = k THEN neighbourList[k] \ Overdue[k] ELSE neighbourList[n]
         /\ \A n \in Node, m \in Node : silence'[n][m] =
              IF n = k /\ m \in Overdue[k] THEN 0 ELSE silence[n][m]
         /\ \A d \in Node : Grown(chan[k][d], chan'[k][d])
         /\ \A n \in Node \ {k} : chan'[n] = chan[n]
<1>0. ClocksSound /\ R!IInv
  BY DEF JInv
<1>1. /\ process[k] # "down" /\ armed[k] >= Period
      /\ armed' = [armed EXCEPT ![k] = 0]
      /\ alive' = alive \cup {<<k, m>> : m \in neighbourList[k]}
      /\ neighbourList' = [neighbourList EXCEPT ![k] = neighbourList[k] \ Overdue[k]]
      /\ UNCHANGED <<process, underWay, aliveFor, missed>>
  BY DEF Alarm
<1>2. silence' = [silence EXCEPT ![k] =
                    [m \in Node |-> IF m \in Overdue[k] THEN 0 ELSE silence[k][m]]]
  BY DEF Alarm, FreeEntries
<1>3. /\ \A d \in Node : Grown(chan[k][d], chan'[k][d])
      /\ \A n \in Node \ {k} : chan'[n] = chan[n]
  <2>1. PICK t, to : Untimed!RoomFor(k, to) /\ chan' = Untimed!Announced(k, t, to)
    BY DEF Alarm
  <2> QED
    BY <1>0, <2>1, AnnouncedGrows
<1>4. armed[k] \in Nat
  BY <1>0, Clocks
<1>5. process[k] = "running"
  <2>1. Prompt(k) /\ process[k] \in {"down", "connected", "running"}
    BY <1>0 DEF JInv, ClocksSound
  <2> QED
    BY <1>1, <1>4, <2>1, Times DEF Prompt
<1>6. ASSUME NEW d \in Node PROVE <<k, d>> \notin alive
  <2>1. Flight(k, d) /\ aliveFor[k][d] \in Nat /\ aliveFor[k][d] <= MaxDelay
    BY <1>0, Clocks DEF JInv
  <2> QED
    BY <1>1, <1>4, <2>1, Times DEF Flight
<1>7. ASSUME NEW d \in Node, NEW j \in DOMAIN chan[k][d], HelloAt(k, d, j) PROVE FALSE
  <2>1. armed[k] <= Age(k, d, j) + MaxDelay
    BY <1>7 DEF JInv, Flight
  <2>2. Flight(k, d)
    BY DEF JInv
  <2>3. Age(k, d, j) \in Nat /\ Age(k, d, j) <= Longest
    BY <1>0, <2>2, AgeBound
  <2> QED
    BY <1>1, <1>4, <2>1, <2>3, Times
<1>8. /\ \A n \in Node : armed'[n] = IF n = k THEN 0 ELSE armed[n]
      /\ \A n \in Node : neighbourList'[n] =
              IF n = k THEN neighbourList[k] \ Overdue[k] ELSE neighbourList[n]
  BY <1>0, <1>1 DEF ClocksSound, TypeOK
<1>9. \A n \in Node, m \in Node : silence'[n][m] =
              IF n = k /\ m \in Overdue[k] THEN 0 ELSE silence[n][m]
  BY <1>0, <1>2 DEF ClocksSound, TypeOK
<1> QED
  BY <1>1, <1>3, <1>5, <1>6, <1>7, <1>8, <1>9

LEMMA AlarmJoins ==
  ASSUME JoinAssumption, JInv, ClocksSound', R!IInv', NEW k \in Node, Alarm(k)
  PROVE  JInv'
<1>0. ClocksSound /\ R!IInv
  BY DEF JInv
<1>1. /\ process[k] = "running"
      /\ \A d \in Node : /\ <<k, d>> \notin alive
                         /\ \A j \in DOMAIN chan[k][d] : ~HelloAt(k, d, j)
  BY AlarmEffect
<1>2. /\ UNCHANGED <<process, underWay, aliveFor, missed>>
      /\ alive' = alive \cup {<<k, d>> : d \in neighbourList[k]}
      /\ \A n \in Node : armed'[n] = IF n = k THEN 0 ELSE armed[n]
      /\ \A n \in Node : neighbourList'[n] =
              IF n = k THEN neighbourList[k] \ Overdue[k] ELSE neighbourList[n]
      /\ \A n \in Node, m \in Node : silence'[n][m] =
              IF n = k /\ m \in Overdue[k] THEN 0 ELSE silence[n][m]
  BY AlarmEffect
<1>3. /\ \A d \in Node : Grown(chan[k][d], chan'[k][d])
      /\ \A n \in Node \ {k} : chan'[n] = chan[n]
  BY AlarmEffect
<1>4. \A n \in Node \ {k}, d \in Node :
        <<n, d>> \in alive' <=> <<n, d>> \in alive
  BY <1>2
<1>5. ASSUME NEW n \in Node PROVE Prompt(n)'
  <2>1. Prompt(n) /\ MaxDelay \in Nat
    BY Times DEF JInv
  <2> QED
    BY <1>1, <1>2, <2>1 DEF Prompt
<1>6. ASSUME NEW s \in Node, NEW d \in Node PROVE Flight(s, d)'
  <2>1. CASE s # k
    BY <1>2, <1>3, <1>4, <2>1, FlightGrows DEF Grown
  <2>2. CASE s = k
    <3>1. Flight(k, d) /\ Grown(chan[k][d], chan'[k][d])
      BY <1>3 DEF JInv
    <3>2. /\ Len(chan'[k][d]) <= MaxChan
          /\ \A i \in DOMAIN chan[k][d] : chan'[k][d][i] = chan[k][d][i]
          /\ \A i \in DOMAIN chan'[k][d] :
               i \in DOMAIN chan[k][d] \/ chan'[k][d][i].type = "UPDATE"
      BY <1>0, <3>1, Channels, GrownPlaces DEF Flight
    <3>3. \A i \in DOMAIN chan'[k][d] : ~HelloAt(k, d, i)'
      BY <1>1, <3>2 DEF HelloAt
    <3>4. aliveFor[k][d] \in Nat /\ armed'[k] = 0
      BY <1>0, <1>2, Clocks
    <3>5. aliveFor[k][d] = 0
      BY <1>1, <3>1 DEF Flight
    <3> QED
      BY <1>2, <2>2, <3>2, <3>3, <3>4, <3>5 DEF Flight
  <2> QED
    BY <2>1, <2>2
<1>7. ASSUME NEW n \in Node, NEW m \in Node PROVE Pair(n, m)'
  <2>1. CASE m # k
    <3>1. /\ m \in neighbourList'[n] => m \in neighbourList[n]
          /\ n \in neighbourList[m] => n \in neighbourList'[m]
          /\ Grown(chan[n][m], chan'[n][m]) /\ chan'[m][n] = chan[m][n]
          /\ armed'[m] = armed[m]
          /\ silence'[n][m] = silence[n][m] \/ silence'[n][m] = 0
      BY <1>2, <1>3, <2>1 DEF Grown
    <3> QED
      BY <1>2, <1>4, <2>1, <3>1, PairGrows DEF Grown
  <2>2. CASE m = k
    <3> SUFFICES ASSUME m \in neighbourList[n]
                 PROVE  Told(n, m)' /\ Attended(n, m)' /\ AliveInTime(n, m)'
                        /\ UpdateInTime(n, m)'
      BY <1>2 DEF Pair
    <3>1. n # k /\ process[n] = "running" /\ Pair(n, m)
      BY <1>0, <2>2, NotItsOwnNeighbour, Clocks DEF JInv
    <3>2. /\ chan'[n][m] = chan[n][m] /\ silence'[n][m] = silence[n][m]
          /\ underWay'[n][m] = underWay[n][m]
      BY <1>2, <1>3, <3>1
    <3>3. /\ silence[n][m] \in Nat /\ armed[m] \in Nat /\ armed[m] <= Gap
          /\ aliveFor[m][n] \in Nat
          /\ Longest \in Nat /\ Gap \in Nat /\ Lost(n, m) \in Nat
      BY <1>0, Clocks, Times, Losses
    <3>4. Lost(n, m)' = Lost(n, m) /\ Longest' = Longest /\ Gap' = Gap
      BY <1>2 DEF Lost, Longest, Gap
    <3>5. silence[n][m] <= Longest + Lost(n, m) + armed[m]
      BY <1>1, <2>2, HeardBound
    <3>6. Told(n, m)'
      BY <3>1, <3>2 DEF Pair, Told, HelloAt, JoinsBehind, UpdateAt, Age, Way
    <3>7. \A j \in {0, 1} : JoinsBehind(n, m, j) => JoinsBehind(n, m, 0)'
      <4>1. DOMAIN chan[n][m] = 1 .. Len(chan[n][m]) /\ Len(chan[n][m]) \in Nat
        BY <1>0, <2>2, Channels
      <4>2. \A i \in DOMAIN chan[n][m] : i > 1 => i > 0
        BY <4>1
      <4> QED
        BY <3>2, <4>2 DEF JoinsBehind, UpdateAt, Age, Way
    <3>8. Attended(n, m)'
      <4>1. CASE n \in neighbourList[k] \ Overdue[k]
        <5>1. n \in neighbourList'[m] /\ <<m, n>> \in alive' /\ armed'[m] = 0
          BY <1>2, <2>2, <4>1
        <5> QED
          BY <3>2, <3>3, <3>4, <3>5, <5>1 DEF Attended, Served
      <4>2. CASE n \in Overdue[k]
        <5>1. chan[n][m] # <<>> /\ Head(chan[n][m]).type = "HELLO"
          BY <2>2, <3>1, <4>2, AwayIfOverdue DEF OverdueIsAway
        <5>2. 1 \in DOMAIN chan[n][m] /\ HelloAt(n, m, 1)
          BY <1>0, <5>1, Channels DEF HelloAt
        <5>3. JoinsBehind(n, m, 1)
          BY <3>1, <5>2 DEF Pair, Told
        <5> QED
          BY <3>7, <5>3 DEF Attended
      <4>3. CASE n \notin neighbourList[k]
        <5>1. JoinsBehind(n, m, 0)
          BY <1>1, <2>2, <3>1, <4>3 DEF Pair, Attended, Served
        <5> QED
          BY <3>7, <5>1 DEF Attended
      <4> QED
        BY <4>1, <4>2, <4>3
    <3>9. AliveInTime(n, m)'
      BY <1>2, <3>2, <3>3, <3>4, <3>5 DEF AliveInTime
    <3>10. UpdateInTime(n, m)'
      <4>1. /\ Grown(chan[m][n], chan'[m][n])
            /\ <<m, n>> \in alive => <<m, n>> \in alive'
            /\ underWay'[m][n] = underWay[m][n] /\ silence'[n][m] <= silence[n][m]
        BY <1>2, <1>3, <2>2, <3>2, <3>3
      <4> QED
        BY <1>1, <2>2, <4>1, UpdateStaysInTime
    <3> QED
      BY <3>6, <3>8, <3>9, <3>10
  <2> QED
    BY <2>1, <2>2
<1> QED
  BY <1>5, <1>6, <1>7 DEF JInv

LEMMA TickJoins ==
  ASSUME JoinAssumption, JInv, ClocksSound', R!IInv', Tick
  PROVE  JInv'
<1>0. ClocksSound /\ R!IInv
  BY DEF JInv
<1>1. UNCHANGED <<process, neighbourList, chan, alive, missed>>
  BY DEF Tick
<1>2. ASSUME NEW n \in Node
      PROVE  /\ armed'[n] = IF process[n] = "down" THEN 0 ELSE armed[n] + 1
             /\ process[n] = "connected" => armed[n] < MaxDelay
             /\ armed[n] \in Nat
  BY <1>0, Clocks DEF Tick
<1>3. ASSUME NEW s \in Node, NEW d \in Node
      PROVE  /\ chan[s][d] # <<>> => underWay'[s][d] = underWay[s][d] + 1
             /\ aliveFor'[s][d] = IF <<s, d>> \in alive THEN aliveFor[s][d] + 1 ELSE 0
             /\ silence'[s][d] = IF d \in neighbourList[s] THEN silence[s][d] + 1 ELSE 0
             /\ underWay[s][d] \in Nat /\ aliveFor[s][d] \in Nat /\ silence[s][d] \in Nat
  BY <1>0, Clocks DEF Tick
<1>4. ASSUME NEW s \in Node, NEW d \in Node, NEW i \in DOMAIN chan[s][d]
      PROVE  Age(s, d, i) \in Nat /\ Age(s, d, i)' = Age(s, d, i) + 1
  <2>1. Flight(s, d) /\ chan[s][d] # <<>>
    BY DEF JInv
  <2>2. Age(s, d, i) \in Nat /\ Way(i) \in Nat
    BY <1>0, <2>1, AgeBound
  <2>3. underWay'[s][d] = underWay[s][d] + 1 /\ underWay[s][d] \in Nat
    BY <1>3, <2>1
  <2>4. Age(s, d, i) = Way(i) + underWay[s][d] /\ Age(s, d, i)' = Way(i) + underWay'[s][d]
    BY DEF Age, Way
  <2> QED
    BY <2>2, <2>3, <2>4
<1>5. ASSUME NEW n \in Node PROVE Prompt(n)'
  <2>1. Prompt(n) /\ MaxDelay \in Nat
    BY Times DEF JInv
  <2> QED
    BY <1>1, <1>2, <2>1 DEF Prompt
<1>6. ASSUME NEW s \in Node, NEW d \in Node PROVE Flight(s, d)'
  <2>1. Flight(s, d)
    BY DEF JInv
  <2>2. ASSUME NEW i \in DOMAIN chan[s][d], HelloAt(s, d, i)
        PROVE  armed'[s] <= Age(s, d, i)' + MaxDelay
    <3>1. armed[s] <= Age(s, d, i) + MaxDelay
      BY <2>1, <2>2 DEF Flight
    <3> QED
      BY <1>2, <1>4, <3>1, Times
  <2>3. <<s, d>> \in alive => armed'[s] <= aliveFor'[s][d]
    BY <1>2, <1>3, <2>1 DEF Flight
  <2>4. <<s, d>> \notin alive => aliveFor'[s][d] = 0
    BY <1>3
  <2> QED
    BY <1>1, <2>1, <2>2, <2>3, <2>4 DEF Flight, HelloAt
<1>7. ASSUME NEW n \in Node, NEW m \in neighbourList[n], m \in Node PROVE Pair(n, m)'
  <2>1. Pair(n, m) /\ silence'[n][m] = silence[n][m] + 1 /\ silence[n][m] \in Nat
    BY <1>3, <1>7 DEF JInv
  <2>2. /\ armed[m] \in Nat /\ aliveFor[m][n] \in Nat
        /\ Longest \in Nat /\ Gap \in Nat /\ Grace \in Nat /\ Lost(n, m) \in Nat
    BY <1>0, <1>7, Clocks, Times, Losses
  <2>3. Lost(n, m)' = Lost(n, m) /\ Longest' = Longest /\ Gap' = Gap /\ Grace' = Grace
    BY <1>1 DEF Lost, Longest, Gap, Grace
  <2>4. ASSUME NEW j, JoinsBehind(n, m, j) PROVE JoinsBehind(n, m, j)'
    <3>1. PICK i \in DOMAIN chan[n][m] :
            i > j /\ UpdateAt(n, m, i) /\ silence[n][m] <= Age(n, m, i)
      BY <2>4 DEF JoinsBehind
    <3>2. silence'[n][m] <= Age(n, m, i)'
      BY <1>4, <1>7, <2>1, <3>1
    <3> QED
      BY <1>1, <3>1, <3>2 DEF JoinsBehind, UpdateAt
  <2>5. Told(n, m)'
    BY <1>1, <2>1, <2>4 DEF Pair, Told, HelloAt
  <2>6. Attended(n, m)'
    <3>1. process[m] = "running" /\ Served(n, m) => Served(n, m)'
      <4>1. process[m] = "running" => armed'[m] = armed[m] + 1
        BY <1>2, <1>7
      <4> QED
        BY <1>1, <2>1, <2>2, <2>3, <4>1 DEF Served
    <3> QED
      BY <1>1, <2>1, <2>4, <3>1 DEF Pair, Attended, HelloAt
  <2>7. AliveInTime(n, m)'
    <3> SUFFICES ASSUME <<m, n>> \in alive
                 PROVE  silence'[n][m] <= Longest + Lost(n, m) + Gap + aliveFor'[m][n]
      BY <1>1, <2>3 DEF AliveInTime
    <3>1. silence[n][m] <= Longest + Lost(n, m) + Gap + aliveFor[m][n]
      BY <1>7, <2>1 DEF Pair, AliveInTime
    <3>2. aliveFor'[m][n] = aliveFor[m][n] + 1
      BY <1>3, <1>7
    <3> QED
      BY <2>1, <2>2, <3>1, <3>2
  <2>8. UpdateInTime(n, m)'
    <3> SUFFICES ASSUME NEW i \in DOMAIN chan[m][n], <<m, n>> \notin alive,
                        UpdateAt(m, n, i), \A j \in 1 .. i : ~HelloAt(m, n, j)
                 PROVE  silence'[n][m] <= Longest + Grace + Age(m, n, i)'
      BY <1>1, <2>3 DEF UpdateInTime, UpdateAt, HelloAt
    <3>1. silence[n][m] <= Longest + Grace + Age(m, n, i)
      BY <2>1, <1>7 DEF Pair, UpdateInTime
    <3>2. Age(m, n, i) \in Nat /\ Age(m, n, i)' = Age(m, n, i) + 1
      BY <1>4, <1>7
    <3> QED
      BY <2>1, <2>2, <3>1, <3>2
  <2> QED
    BY <2>5, <2>6, <2>7, <2>8 DEF Pair
<1>8. \A n \in Node, m \in Node : Pair(n, m)'
  BY <1>1, <1>7 DEF Pair
<1> QED
  BY <1>5, <1>6, <1>8 DEF JInv

-----------------------------------------------------------------------------
(* Every step of the daemons with clocks is one of those without.          *)

LEMMA SameAssumptions ==
  /\ R!InfinityAssumption /\ R!NoEntryAssumption
  /\ R!LinkAssumption /\ R!DistAssumption /\ R!BoundAssumption
<1>1. R!InfinityAssumption /\ R!NoEntryAssumption
  BY InfinityAssumption, NoEntryAssumption DEF R!Cost, R!Entry, Cost, Entry
<1>2. R!LinkAssumption /\ R!DistAssumption /\ R!BoundAssumption
  BY LinkAssumption, DistAssumption, RoomAssumption DEF R!Cost, Cost
<1> QED
  BY <1>1, <1>2

LEMMA InitJoins ==
  ASSUME JoinAssumption, Init
  PROVE  JInv
<1>1. R!Init
  BY DEF Init, Untimed!Init, R!Init, R!EmptyTable, Untimed!EmptyTable
<1>2. R!IInv
  BY <1>1, SameAssumptions, R!InitSound
<1>3. ClocksSound
  BY InitSound
<1>4. /\ neighbourList = [n \in Node |-> {}] /\ alive = {}
      /\ chan = [s \in Node |-> [d \in Node |-> <<>>]]
  BY DEF Init, Untimed!Init
<1>5. /\ \A n \in Node : armed[n] = 0
      /\ \A s \in Node, d \in Node : aliveFor[s][d] = 0
  BY DEF Init, InitClocks, NoTime
<1>6. \A n \in Node : Prompt(n)
  <2>1. 0 <= MaxDelay
    BY Times
  <2> QED
    BY <1>5, <2>1 DEF Prompt
<1>7. ASSUME NEW s \in Node, NEW d \in Node PROVE Flight(s, d)
  <2>1. chan[s][d] = <<>> /\ Len(chan[s][d]) = 0 /\ DOMAIN chan[s][d] = {}
    BY <1>4
  <2> QED
    BY <1>4, <1>5, <2>1, Times DEF Flight
<1>8. \A n \in Node, m \in Node : Pair(n, m)
  BY <1>4 DEF Pair
<1> QED
  BY <1>2, <1>3, <1>6, <1>7, <1>8 DEF JInv

LEMMA OverdueIsMonitored ==
  ASSUME ClocksSound, NEW n \in Node
  PROVE  /\ Overdue[n] \subseteq neighbourList[n]
         /\ \A m \in Node : m \in Overdue[n] <=> silence[n][m] > Timeout
<1>1. \A m \in Node : m \in Overdue[n] <=> silence[n][m] > Timeout
  BY DEF Overdue
<1>2. Overdue[n] \subseteq Node
  BY DEF Overdue
<1>3. \A m \in Node : silence[n][m] > Timeout => m \in neighbourList[n]
  BY TimeAssumption DEF ClocksSound, TypeOK
<1> QED
  BY <1>1, <1>2, <1>3

LEMMA HandleKeepAliveUntimed ==
  ASSUME ClocksSound, NEW n \in Node, NEW s \in Node, HandleKeepAlive(n, s)
  PROVE  Untimed!HandleKeepAlive(n, s)
<1>1. \A a \in Node, b \in Node :
        silence'[a][b] = IF a = n /\ b = s THEN 0 ELSE silence[a][b]
  BY UpdateTimeEffect DEF HandleKeepAlive
<1>2. Overdue' = [Overdue EXCEPT ![n] = @ \ {s}]
  <2>1. Overdue' = [a \in Node |-> {b \in Node : silence'[a][b] > Timeout}]
    BY DEF Overdue
  <2>2. \A a \in Node : {b \in Node : silence'[a][b] > Timeout}
                          = IF a = n THEN Overdue[n] \ {s} ELSE Overdue[a]
    BY <1>1, TimeAssumption DEF Overdue
  <2> QED
    BY <2>1, <2>2 DEF Overdue
<1> QED
  BY <1>2 DEF HandleKeepAlive, Untimed!HandleKeepAlive, Untimed!faultVars

LEMMA LoseKeepAliveUntimed ==
  ASSUME JoinAssumption, JInv, NEW n \in Node, NEW s \in Node, LoseKeepAlive(n, s)
  PROVE  Untimed!HandleKeepAlive(n, s) \/ Untimed!DropKeepAlive(n, s)
<1>1. /\ <<s, n>> \in alive /\ alive' = alive \ {<<s, n>>}
      /\ UNCHANGED <<process, table, neighbourList, chan, crashed, silence>>
  BY DEF LoseKeepAlive
<1>2. Overdue' = Overdue
  BY <1>1 DEF Overdue
<1>3. s \notin Overdue[n]
  BY <1>1, AwayIfOverdue DEF OverdueIsAway
<1>4. Overdue' = [Overdue EXCEPT ![n] = @ \ {s}]
  BY <1>2, <1>3 DEF Overdue
<1> QED
  BY <1>1, <1>2, <1>4 DEF Untimed!HandleKeepAlive, Untimed!DropKeepAlive,
     Untimed!faultVars, Untimed!daemonVars

LEMMA AlarmUntimed ==
  ASSUME JoinAssumption, JInv, NEW n \in Node, Alarm(n)
  PROVE  Untimed!Alarm(n) \/ UNCHANGED Untimed!vars
<1> DEFINE gone == Overdue[n]
           nbs  == neighbourList[n] \ gone
           to   == IF gone # {} THEN nbs ELSE {}
           t    == Untimed!RemoveFromRouting(table[n], gone)
<1>0. ClocksSound /\ R!IInv
  BY DEF JInv
<1>1. /\ process[n] = "running"
      /\ \A d \in Node : <<n, d>> \notin alive
      /\ \A a \in Node, m \in Node : silence'[a][m] =
              IF a = n /\ m \in gone THEN 0 ELSE silence[a][m]
  BY AlarmEffect
<1>2. /\ Untimed!RoomFor(n, to)
      /\ alive' = alive \cup {<<n, m>> : m \in neighbourList[n]}
      /\ neighbourList' = [neighbourList EXCEPT ![n] = nbs]
      /\ UNCHANGED <<process, crashed>>
  BY DEF Alarm
<1>3. /\ table \in [Node -> R!Table] /\ neighbourList \in [Node -> SUBSET Node]
      /\ chan \in [Node -> [Node -> Seq(R!Message)]]
  BY <1>0 DEF R!IInv, R!TypeOK
<1>4. table' = [table EXCEPT ![n] = t] /\ chan' = Untimed!Announced(n, t, to)
  <2>1. /\ table' = [table EXCEPT ![n] = RemoveFromRouting(table[n], gone)]
        /\ chan' = Untimed!Announced(n, table'[n], to)
    BY DEF Alarm
  <2>2. RemoveFromRouting(table[n], gone) = t
    BY DEF RemoveFromRouting, Untimed!RemoveFromRouting, HasEntry, Untimed!HasEntry
  <2>3. table'[n] = t
    BY <1>3, <2>1, <2>2
  <2> QED
    BY <2>1, <2>2, <2>3
<1>5. Overdue' = [Overdue EXCEPT ![n] = {}]
  <2>1. Overdue' = [a \in Node |-> {b \in Node : silence'[a][b] > Timeout}]
    BY DEF Overdue
  <2>2. \A a \in Node : {b \in Node : silence'[a][b] > Timeout}
                          = IF a = n THEN {} ELSE Overdue[a]
    BY <1>1, TimeAssumption DEF Overdue
  <2> QED
    BY <2>1, <2>2 DEF Overdue
<1>6. CASE neighbourList[n] # {}
  <2>1. \A m \in Node : <<n, m>> \notin alive
    BY <1>1
  <2>2. Untimed!ControlTime(n)
    <3> HIDE DEF t
    <3>1. /\ Untimed!RoomFor(n, to) /\ table' = [table EXCEPT ![n] = t]
          /\ neighbourList' = [neighbourList EXCEPT ![n] = nbs]
          /\ Overdue' = [Overdue EXCEPT ![n] = {}]
          /\ chan' = Untimed!Announced(n, t, to)
      BY <1>2, <1>4, <1>5
    <3> QED
      BY <3>1 DEF Untimed!ControlTime, t
  <2> QED
    BY <1>1, <1>2, <1>6, <2>1, <2>2 DEF Untimed!Alarm, Untimed!faultVars
<1>7. CASE neighbourList[n] = {}
  <2>1. gone = {}
    BY <1>0, <1>7, OverdueIsMonitored
  <2>2. t = table[n]
    BY <1>3, <2>1 DEF Untimed!RemoveFromRouting, R!Table
  <2>3. chan' = chan
    <3>1. to = {}
      BY <2>1
    <3> HIDE DEF to, t
    <3> QED
      BY <1>3, <1>4, <3>1 DEF Untimed!Announced
  <2>4. Overdue' = Overdue /\ alive' = alive /\ neighbourList' = neighbourList
    <3>1. Overdue' = Overdue
      BY <1>5, <2>1 DEF Overdue
    <3>2. alive' = alive
      BY <1>2, <1>7
    <3>3. neighbourList' = neighbourList
      <4>1. neighbourList[n] = nbs
        BY <1>7
      <4> HIDE DEF nbs
      <4> QED
        BY <1>2, <1>3, <4>1
    <3> QED
      BY <3>1, <3>2, <3>3
  <2>5. table' = table
    BY <1>3, <1>4, <2>2
  <2> QED
    BY <1>2, <2>3, <2>4, <2>5 DEF Untimed!vars
<1> QED
  BY <1>6, <1>7

LEMMA TickSoundUntimed ==
  ASSUME R!IInv, ClocksSound', Tick
  PROVE  R!IInv'
<1>1. UNCHANGED <<process, table, neighbourList, chan, alive, crashed>>
  BY DEF Tick
<1>2. \A n \in Node : Overdue'[n] \subseteq neighbourList'[n]
  <2>1. ASSUME NEW n \in Node, NEW m \in Overdue'[n] PROVE m \in neighbourList'[n]
    <3>1. m \in Node /\ silence'[n][m] > Timeout
      BY DEF Overdue
    <3>2. m \notin neighbourList'[n] => silence'[n][m] = 0
      BY <3>1 DEF ClocksSound, TypeOK
    <3> QED
      BY <3>1, <3>2, TimeAssumption
  <2> QED
    BY <2>1
<1>3. Overdue' \in [Node -> SUBSET Node]
  BY DEF Overdue
<1>4. R!TypeOK'
  BY <1>1, <1>3 DEF R!IInv, R!TypeOK
<1>5. R!SoundChannels(chan)'
  BY <1>1 DEF R!IInv, R!SoundChannels
<1>6. \A n \in Node : R!SoundDaemon(n)'
  BY <1>1, <1>2 DEF R!IInv, R!SoundDaemon
<1> QED
  BY <1>4, <1>5, <1>6 DEF R!IInv

LEMMA TickUntimed ==
  ASSUME JoinAssumption, ClocksSound, Tick, OverdueIsAway', ClocksSound'
  PROVE  (\E S \in SUBSET Untimed!Silent : Untimed!FallSilent(S)) \/ UNCHANGED Untimed!vars
<1> DEFINE S == {p \in Node \X Node : p[2] \in Overdue'[p[1]] \ Overdue[p[1]]}
<1>1. UNCHANGED <<process, table, neighbourList, chan, alive, crashed>>
  BY DEF Tick
<1>2. ASSUME NEW n \in Node, NEW m \in Node
      PROVE  /\ m \in Overdue[n] => m \in Overdue'[n]
             /\ m \in Overdue'[n] => m \in neighbourList[n]
  <2>1. /\ m \in Overdue[n] <=> silence[n][m] > Timeout
        /\ m \in Overdue'[n] <=> silence'[n][m] > Timeout
        /\ m \in Overdue[n] => m \in neighbourList[n]
    BY OverdueIsMonitored DEF Overdue
  <2>2. silence'[n][m] = IF m \in neighbourList[n] THEN silence[n][m] + 1 ELSE 0
    BY DEF Tick
  <2>3. silence[n][m] \in Nat
    BY DEF ClocksSound, TypeOK
  <2> QED
    BY <2>1, <2>2, <2>3, TimeAssumption
<1>3. S \subseteq Untimed!Silent
  <2> SUFFICES ASSUME NEW n \in Node, NEW m \in Overdue'[n] \ Overdue[n], m \in Node
               PROVE  <<n, m>> \in Untimed!Silent
    OBVIOUS
  <2>1. /\ <<m, n>> \notin alive
        /\ IF chan[m][n] = <<>> THEN process[m] # "running"
           ELSE Head(chan[m][n]).type = "HELLO"
    BY <1>1 DEF OverdueIsAway
  <2>2. m \in neighbourList[n] \ Overdue[n]
    BY <1>2
  <2>3. Untimed!AwaitsHello(n, m)
    BY <2>1 DEF Untimed!AwaitsHello
  <2> QED
    BY <2>1, <2>2, <2>3 DEF Untimed!Silent
<1>4. Overdue' = [n \in Node |-> Overdue[n] \cup {m \in Node : <<n, m>> \in S}]
  <2>1. \A n \in Node : Overdue[n] \subseteq Node /\ Overdue'[n] \subseteq Node
    BY DEF Overdue
  <2>2. ASSUME NEW n \in Node
        PROVE  Overdue'[n] = Overdue[n] \cup {m \in Node : <<n, m>> \in S}
    BY <1>2, <2>1
  <2>3. Overdue' = [n \in Node |-> Overdue'[n]]
    BY DEF Overdue
  <2> QED
    BY <2>2, <2>3
<1>5. CASE S # {}
  <2>1. Untimed!FallSilent(S)
    BY <1>1, <1>3, <1>4, <1>5 DEF Untimed!FallSilent, Untimed!faultVars
  <2> QED
    BY <1>3, <2>1
<1>6. CASE S = {}
  <2>1. Overdue' = Overdue
    BY <1>4, <1>6 DEF Overdue
  <2> QED
    BY <1>1, <2>1 DEF Untimed!vars
<1> QED
  BY <1>5, <1>6

\* What the invariant says holds after a step, too.
LEMMA AwayAfterwards ==
  ASSUME JoinAssumption
  PROVE  JInv' => OverdueIsAway'
<1>1. JInv => OverdueIsAway
  BY AwayIfOverdue
<1> QED
  BY <1>1, PTL

LEMMA NextJoins ==
  ASSUME JoinAssumption
  PROVE  JInv /\ [Next]_vars => JInv' /\ [Untimed!Next]_(Untimed!vars)
<1> SUFFICES ASSUME JInv, [Next]_vars
             PROVE  JInv' /\ [Untimed!Next]_(Untimed!vars)
  OBVIOUS
<1>0. ClocksSound /\ R!IInv
  BY DEF JInv
<1>1. ClocksSound'
  BY <1>0, NextSound
<1>2. [Untimed!Next]_(Untimed!vars) => R!IInv'
  BY <1>0, UntimedSound
<1>3. CASE UNCHANGED vars
  <2>1. UNCHANGED <<process, table, neighbourList, chan, alive, crashed,
                    armed, silence, underWay, aliveFor, missed>>
    BY <1>3 DEF vars, clocks
  <2>2. Overdue' = Overdue
    BY <2>1 DEF Overdue
  <2>3. UNCHANGED Untimed!vars
    BY <2>1, <2>2 DEF Untimed!vars
  <2>4. \A n \in Node : Prompt(n)'
    BY <2>1 DEF JInv, Prompt
  <2>5. \A s \in Node, d \in Node : Flight(s, d)'
    BY <2>1 DEF JInv, Flight, HelloAt, Age, Way
  <2>6. ASSUME NEW n \in Node, NEW m \in Node PROVE Pair(n, m)'
    BY <1>1, <2>1, PairGrows DEF Grown
  <2> QED
    BY <1>1, <1>2, <2>3, <2>4, <2>5, <2>6 DEF JInv
<1>4. ASSUME NEW n \in Node, Start(n) PROVE JInv' /\ Untimed!Next
  <2>1. Untimed!Start(n)
    BY <1>4 DEF Start
  <2>2. Untimed!Next
    BY <2>1 DEF Untimed!Next
  <2> QED
    BY <1>1, <1>2, <1>4, <2>2, StartJoins
<1>5. ASSUME NEW n \in Node, HandleHandshakeReply(n) PROVE JInv' /\ Untimed!Next
  <2>1. Untimed!HandleHandshakeReply(n)
    BY <1>5 DEF HandleHandshakeReply
  <2>2. Untimed!Next
    BY <2>1 DEF Untimed!Next
  <2> QED
    BY <1>1, <1>2, <1>5, <2>2, HandleHandshakeReplyJoins
<1>6. ASSUME NEW n \in Node, Alarm(n) PROVE JInv' /\ [Untimed!Next]_(Untimed!vars)
  <2>1. Untimed!Alarm(n) \/ UNCHANGED Untimed!vars
    BY <1>6, AlarmUntimed
  <2>2. [Untimed!Next]_(Untimed!vars)
    BY <2>1 DEF Untimed!Next
  <2> QED
    BY <1>1, <1>2, <1>6, <2>2, AlarmJoins
<1>7. ASSUME NEW n \in Node, Crash(n) PROVE JInv' /\ Untimed!Next
  <2>1. Untimed!Crash(n)
    BY <1>7 DEF Crash
  <2>2. Untimed!Next
    BY <2>1 DEF Untimed!Next
  <2> QED
    BY <1>1, <1>2, <1>7, <2>2, CrashJoins
<1>8. ASSUME NEW n \in Node, NEW s \in Node, Handle(n, s) PROVE JInv' /\ Untimed!Next
  <2>1. Untimed!HandleHello(n, s) \/ Untimed!HandleUpdate(n, s) \/ Untimed!DropMessage(n, s)
    BY <1>8 DEF Handle, HandleHello, HandleUpdate, DropMessage
  <2>2. Untimed!Next
    BY <2>1 DEF Untimed!Next
  <2> QED
    BY <1>1, <1>2, <1>8, <2>2, HandleHelloJoins, HandleUpdateJoins, DropMessageJoins
       DEF Handle
<1>9. ASSUME NEW n \in Node, NEW s \in Node, HandleAlive(n, s)
      PROVE  JInv' /\ Untimed!Next
  <2>1. Untimed!HandleKeepAlive(n, s) \/ Untimed!DropKeepAlive(n, s)
    <3>1. CASE HandleKeepAlive(n, s)
      BY <1>0, <3>1, HandleKeepAliveUntimed
    <3>2. CASE DropKeepAlive(n, s)
      BY <3>2 DEF DropKeepAlive
    <3>3. CASE LoseKeepAlive(n, s)
      BY <3>3, LoseKeepAliveUntimed
    <3> QED
      BY <1>9, <3>1, <3>2, <3>3 DEF HandleAlive
  <2>2. Untimed!Next
    BY <2>1 DEF Untimed!Next
  <2> QED
    BY <1>1, <1>2, <1>9, <2>2, HandleAliveJoins
<1>10. ASSUME Tick PROVE JInv' /\ [Untimed!Next]_(Untimed!vars)
  <2>1. JInv'
    BY <1>0, <1>1, <1>10, TickSoundUntimed, TickJoins
  <2>2. (\E S \in SUBSET Untimed!Silent : Untimed!FallSilent(S)) \/ UNCHANGED Untimed!vars
    BY <1>0, <1>1, <1>10, <2>1, AwayAfterwards, TickUntimed
  <2> QED
    BY <2>1, <2>2 DEF Untimed!Next
<1> QED
  BY <1>3, <1>4, <1>5, <1>6, <1>7, <1>8, <1>9, <1>10 DEF Next

\* Nobody is taken from a list but by the alarm and with its daemon.
LEMMA OnlyTheAwayAreDismissed ==
  ASSUME JoinAssumption, JInv, [Next]_vars,
         NEW n \in Node, NEW m \in neighbourList[n] \ neighbourList'[n]
  PROVE  \/ process'[n] = "down"
         \/ chan[m][n] = <<>> /\ process[m] # "running"
         \/ chan[m][n] # <<>> /\ Head(chan[m][n]).type = "HELLO"
<1>0. ClocksSound /\ R!IInv
  BY DEF JInv
<1>1. CASE UNCHANGED vars
  BY <1>1 DEF vars
<1>2. ASSUME NEW k \in Node, Alarm(k)
      PROVE  \/ chan[m][n] = <<>> /\ process[m] # "running"
             \/ chan[m][n] # <<>> /\ Head(chan[m][n]).type = "HELLO"
  <2>1. neighbourList'[n] = IF n = k THEN neighbourList[k] \ Overdue[k] ELSE neighbourList[n]
    BY <1>2, AlarmEffect
  <2>2. m \in Overdue[n]
    BY <2>1
  <2> QED
    BY <2>2, AwayIfOverdue DEF OverdueIsAway
<1>3. ASSUME NEW k \in Node, Crash(k) PROVE process'[n] = "down"
  BY <1>3, CrashEffect
<1>4. CASE \E k \in Node : Start(k) \/ HandleHandshakeReply(k)
  BY <1>4 DEF Start, HandleHandshakeReply, Untimed!Start, Untimed!HandleHandshakeReply,
              Untimed!daemonVars
<1>5. CASE \E k \in Node, s \in Node : Handle(k, s)
  <2>1. PICK k \in Node, s \in Node : Reads(k, s)
    BY <1>0, <1>5, HandleHelloEffect, HandleUpdateEffect, DropMessageEffect DEF Handle
  <2> QED
    BY <2>1 DEF Reads
<1>6. CASE \E k \in Node, s \in Node : HandleAlive(k, s)
  BY <1>0, <1>6, HandleAliveEffect
<1>7. CASE Tick
  BY <1>7 DEF Tick
<1> QED
  BY <1>1, <1>2, <1>3, <1>4, <1>5, <1>6, <1>7 DEF Next

\* With clocks the daemons do nothing that RoutingDaemon does not allow:
\* difftime(now, time) > 30 (routingTable.c:150-152) finds only neighbours
\* that have stopped or are about to say HELLO again, in every network, if
\* the timeout covers the wait for an answer as well as the lost KEEP-ALIVEs.
THEOREM ClocksKeepUntimed ==
  ASSUME JoinAssumption
  PROVE  Spec => KeepsUntimed
<1>1. Init => JInv /\ Untimed!Init
  BY InitJoins DEF Init
<1>2. JInv /\ [Next]_vars => JInv' /\ [Untimed!Next]_(Untimed!vars)
  BY NextJoins
<1> QED
  BY <1>1, <1>2, PTL DEF Spec, KeepsUntimed, Untimed!Spec

\* An alarm dismisses no neighbour that runs and has nothing more to say, and
\* none whose next message is an UPDATE (routingTable.c:150-164).
THEOREM DismissesOnlyTheDead ==
  ASSUME JoinAssumption
  PROVE  Spec => OnlyTheDeadAreDismissed
<1>1. Init => JInv
  BY InitJoins
<1>2. JInv /\ [Next]_vars => JInv'
  BY NextJoins
<1>3. JInv /\ [Next]_vars =>
        [\A n \in Node : \A m \in neighbourList[n] \ neighbourList'[n] :
           \/ process'[n] = "down"
           \/ chan[m][n] = <<>> /\ process[m] # "running"
           \/ chan[m][n] # <<>> /\ Head(chan[m][n]).type = "HELLO"]_vars
  BY OnlyTheAwayAreDismissed
<1> QED
  BY <1>1, <1>2, <1>3, PTL DEF Spec, OnlyTheDeadAreDismissed
=============================================================================
