------------------------ MODULE RoutingDaemon_proofs ------------------------
(***************************************************************************)
(* Proofs that the bookkeeping of the routing daemon is right for every    *)
(* network, every schedule and every pattern of crashes, restarts and      *)
(* losses and overtaking on the wire: TypeOK, NeighbourListMatchesTable,   *)
(* RoutesUseNeighbours and NoUnderestimate.  None of them is inductive     *)
(* alone: the two views of the neighbours agree because an UPDATE          *)
(* advertises its sender, and only its sender, at cost 0, so the invariant *)
(* IInv also says what is in flight.                                       *)
(*                                                                         *)
(* Then that every path is backed by the next hop (RouteSupported), and    *)
(* that no loop is left once the UPDATEs have settled (LoopFreeWhenQuiet), *)
(* in the networks that form before the first daemon stops for good.  The  *)
(* invariant BInv says of every path, and of every path a message in       *)
(* flight offers, that it is backed by its sender or withdrawn by a later  *)
(* message, and that a withdrawal finds all those it concerns.             *)
(***************************************************************************)
EXTENDS RoutingDaemon, SequenceTheorems, WellFoundedInduction, TLAPS

\* The messages that may travel from s to n.
SoundMessage(s, n) ==
  {m \in Message :
     /\ <<s, n>> \in Link
     /\ m.type = "UPDATE" =>
          \A d \in Node : /\ m.adv[d] = 0 <=> d = s
                          /\ m.adv[d] # NoEntry => m.adv[d] >= Dist[s][d]}

SoundChannels(c) ==
  /\ c \in [Node -> [Node -> Seq(Message)]]
  /\ \A s, n \in Node : c[s][n] \in Seq(SoundMessage(s, n))

\* An entry of n for d: no underestimate, cost 0 only for n itself, cost 1
\* and finite direct paths only for neighbours.
SoundEntry(n, d, e) ==
  /\ e.cost >= Dist[n][d]
  /\ e.cost = 0 => d = n
  /\ e.cost = 1 => e.next = d
  /\ e.next = d => e.cost \in {0, 1, Infinity}

\* The table t of n while it runs.
SoundTable(n, t) ==
  /\ t \in Table
  /\ t[n] = [cost |-> 0, next |-> n]
  /\ \A d \in Node : HasEntry(t, d) => SoundEntry(n, d, t[d])

\* The neighbour list nbs of n agrees with its table t.
Consistent(n, t, nbs) ==
  /\ nbs \subseteq LinkedTo(n)
  /\ \A m \in Node : m \in nbs <=> t[m] = [cost |-> 1, next |-> m]
  /\ \A d \in Node : (d # n /\ HasRoute(t, d)) => t[d].next \in nbs

\* A daemon that is not running knows nothing, not even itself.
SoundDaemon(n) ==
  /\ overdue[n] \subseteq neighbourList[n]
  /\ process[n] = "running" => /\ SoundTable(n, table[n])
                               /\ Consistent(n, table[n], neighbourList[n])
  /\ process[n] # "running" => /\ table[n] = EmptyTable
                               /\ neighbourList[n] = {}

IInv ==
  /\ TypeOK
  /\ SoundChannels(chan)
  /\ \A n \in Node : SoundDaemon(n)

-----------------------------------------------------------------------------
(* Lemmas about the operators.                                             *)

\* What is advertised from a sound table is sound.
LEMMA AdvertiseSound ==
  ASSUME NEW n \in Node, NEW m \in Node, <<n, m>> \in Link,
         NEW t, SoundTable(n, t)
  PROVE  Update(Advertise(t, m)) \in SoundMessage(n, m)
<1> DEFINE a == Advertise(t, m)
<1>1. n # m
  BY LinkAssumption
<1>2. a \in Advertisement
  BY DEF SoundTable, Table, Entry, Advertisement, Advertise, HasEntry
<1>3. ASSUME NEW d \in Node
      PROVE  /\ a[d] = 0 <=> d = n
             /\ a[d] # NoEntry => a[d] >= Dist[n][d]
  <2>1. CASE HasEntry(t, d) /\ (t[d].next # m \/ t[d].cost = Infinity)
    <3>1. a[d] = t[d].cost
      BY <2>1 DEF Advertise
    <3>2. QED
      BY <1>1, <2>1, <3>1, InfinityAssumption DEF SoundTable, SoundEntry, HasEntry
  <2>2. CASE ~(HasEntry(t, d) /\ (t[d].next # m \/ t[d].cost = Infinity))
    <3>1. a[d] = NoEntry
      BY <2>2 DEF Advertise
    <3>2. d # n
      <4>1. t[n] = [cost |-> 0, next |-> n] /\ t[n] \in Entry
        BY InfinityAssumption DEF SoundTable, Entry, Cost
      <4>2. QED
        BY <1>1, <2>2, <4>1, NoEntryAssumption DEF HasEntry
    <3>3. NoEntry # 0
      BY NoEntryAssumption, InfinityAssumption DEF Cost
    <3>4. QED
      BY <3>1, <3>2, <3>3
  <2>3. QED
    BY <2>1, <2>2
<1>4. QED
  BY <1>2, <1>3 DEF SoundMessage, Message, Update

\* Taking in a sound UPDATE keeps table and neighbour list sound.
LEMMA MergeSound ==
  ASSUME NEW n \in Node, NEW s \in Node, NEW t, NEW nbs,
         SoundTable(n, t), Consistent(n, t, nbs), nbs \subseteq Node,
         NEW msg \in SoundMessage(s, n), msg.type = "UPDATE"
  PROVE  /\ SoundTable(n, MergeUpdate(t, msg.adv, s))
         /\ Consistent(n, MergeUpdate(t, msg.adv, s),
                       nbs \cup NewNeighbours(t, msg.adv, s))
<1> DEFINE adv == msg.adv
           u   == MergeUpdate(t, adv, s)
           new == NewNeighbours(t, adv, s)
<1>1. /\ adv \in Advertisement
      /\ <<s, n>> \in Link /\ <<n, s>> \in Link /\ s # n
      /\ \A d \in Node : /\ adv[d] = 0 <=> d = s
                         /\ adv[d] # NoEntry => adv[d] >= Dist[s][d]
  BY LinkAssumption DEF SoundMessage, Message
<1>2. ASSUME NEW d \in Node
      PROVE  \/ /\ u[d] = t[d]
                /\ ~Adds(t[d], adv[d]) /\ ~Improves(t[d], adv[d])
             \/ /\ Adds(t[d], adv[d]) \/ Improves(t[d], adv[d])
                /\ u[d] = [cost |-> adv[d] + 1, next |-> s]
                /\ adv[d] \in 0 .. (Infinity - 1)
                /\ d # n
             \/ /\ Poisons(t[d], adv[d], s)
                /\ ~Adds(t[d], adv[d]) /\ ~Improves(t[d], adv[d])
                /\ u[d] = [cost |-> Infinity, next |-> s]
                /\ d # n /\ d # s
  <2> USE InfinityAssumption, NoEntryAssumption
  <2>1. /\ adv[d] \in Cost \cup {NoEntry}
        /\ t[d] \in Entry \cup {NoEntry}
        /\ u[d] = Merge(t[d], adv[d], s)
    BY <1>1 DEF Advertisement, SoundTable, Table, MergeUpdate
  <2>2. CASE Adds(t[d], adv[d]) \/ Improves(t[d], adv[d])
    <3>1. u[d] = [cost |-> adv[d] + 1, next |-> s]
      BY <2>1, <2>2 DEF Merge, Learned
    <3>2. adv[d] \in Cost
      BY <2>1, <2>2 DEF Adds, Improves
    <3>3. t[d] \in Entry => t[d].cost \in Cost
      BY DEF Entry
    <3>4. adv[d] \in 0 .. (Infinity - 1)
      BY <2>1, <2>2, <3>2, <3>3 DEF Adds, Improves, Cost
    <3>5. d # n
      <4>1. t[n] = [cost |-> 0, next |-> n] /\ t[n] \in Entry
        BY DEF SoundTable, Entry, Cost
      <4>2. ~Adds(t[n], adv[d])
        BY <4>1 DEF Adds
      <4>3. ~Improves(t[n], adv[d])
        BY <3>4, <4>1 DEF Improves
      <4>4. QED
        BY <2>2, <4>2, <4>3
    <3>6. QED
      BY <2>2, <3>1, <3>4, <3>5
  <2>3. CASE ~(Adds(t[d], adv[d]) \/ Improves(t[d], adv[d])) /\ Poisons(t[d], adv[d], s)
    <3>1. u[d] = [t[d] EXCEPT !.cost = Infinity]
      BY <2>1, <2>3 DEF Merge
    <3>2. t[d] \in Entry /\ t[d].next = s /\ adv[d] = Infinity
      BY <2>1, <2>3 DEF Poisons
    <3>3. u[d] = [cost |-> Infinity, next |-> s]
      BY <3>1, <3>2 DEF Entry
    <3>4. d # n /\ d # s
      BY <3>2, <1>1 DEF SoundTable
    <3>5. QED
      BY <2>3, <3>3, <3>4
  <2>4. CASE ~(Adds(t[d], adv[d]) \/ Improves(t[d], adv[d])) /\ ~Poisons(t[d], adv[d], s)
    BY <2>1, <2>4 DEF Merge
  <2>5. QED
    BY <2>2, <2>3, <2>4
<1>3. SoundTable(n, u)
  <2>1. u \in Table
    <3>1. \A d \in Node : u[d] \in Entry \cup {NoEntry}
      <4> TAKE d \in Node
      <4>1. t[d] \in Entry \cup {NoEntry}
        BY DEF SoundTable, Table
      <4>2. adv[d] \in 0 .. (Infinity - 1) => [cost |-> adv[d] + 1, next |-> s] \in Entry
        BY InfinityAssumption DEF Entry, Cost
      <4>3. [cost |-> Infinity, next |-> s] \in Entry
        BY InfinityAssumption DEF Entry, Cost
      <4>4. QED
        BY <1>2, <4>1, <4>2, <4>3
    <3>2. QED
      BY <3>1 DEF MergeUpdate, Table
  <2>2. u[n] = [cost |-> 0, next |-> n]
    BY <1>2 DEF SoundTable
  <2>3. ASSUME NEW d \in Node, HasEntry(u, d)
        PROVE  SoundEntry(n, d, u[d])
    <3>1. CASE u[d] = t[d]
      BY <2>3, <3>1 DEF SoundTable, HasEntry
    <3>2. CASE /\ u[d] = [cost |-> adv[d] + 1, next |-> s]
               /\ adv[d] \in 0 .. (Infinity - 1)
      <4>1. Dist[n][d] <= Dist[s][d] + 1 /\ Dist[n][d] \in Cost /\ Dist[s][d] \in Cost
        BY <1>1, DistAssumption
      <4>2. adv[d] >= Dist[s][d] /\ (adv[d] = 0 <=> d = s)
        BY <1>1, <3>2, NoEntryAssumption, InfinityAssumption DEF Cost
      <4>3. QED
        BY <3>2, <4>1, <4>2, InfinityAssumption DEF SoundEntry, Cost
    <3>3. CASE u[d] = [cost |-> Infinity, next |-> s]
      <4>1. Dist[n][d] \in Cost
        BY DistAssumption
      <4>2. QED
        BY <3>3, <4>1, InfinityAssumption DEF SoundEntry, Cost
    <3>4. QED
      BY <1>2, <3>1, <3>2, <3>3
  <2>4. QED
    BY <2>1, <2>2, <2>3 DEF SoundTable
<1>4. \A d \in new : d = s
  BY <1>1 DEF NewNeighbours
<1>5. nbs \cup new \subseteq LinkedTo(n)
  BY <1>1, <1>4 DEF Consistent, LinkedTo
<1>6. ASSUME NEW m \in Node
      PROVE  m \in nbs \cup new <=> u[m] = [cost |-> 1, next |-> m]
  <2>1. m \in nbs <=> t[m] = [cost |-> 1, next |-> m]
    BY DEF Consistent
  <2>2. m \in new <=> adv[m] = 0 /\ (Adds(t[m], adv[m]) \/ Improves(t[m], adv[m]))
    BY DEF NewNeighbours
  <2>3. CASE u[m] = t[m] /\ ~Adds(t[m], adv[m]) /\ ~Improves(t[m], adv[m])
    BY <2>1, <2>2, <2>3
  <2>4. CASE /\ Adds(t[m], adv[m]) \/ Improves(t[m], adv[m])
             /\ u[m] = [cost |-> adv[m] + 1, next |-> s]
             /\ adv[m] \in 0 .. (Infinity - 1)
    <3>1. u[m] = [cost |-> 1, next |-> m] <=> adv[m] = 0
      BY <1>1, <2>4, InfinityAssumption
    <3>2. m \notin nbs
      <4>1. SUFFICES ASSUME m \in nbs PROVE FALSE
        OBVIOUS
      <4>2. t[m] = [cost |-> 1, next |-> m]
        BY <2>1, <4>1
      <4>3. t[m] # NoEntry
        BY <4>2, NoEntryAssumption, InfinityAssumption DEF Entry, Cost
      <4>4. Improves(t[m], adv[m])
        BY <2>4, <4>3 DEF Adds
      <4>5. adv[m] = 0 /\ adv[m] + 1 < 1
        BY <2>4, <4>2, <4>4, InfinityAssumption DEF Improves
      <4>6. QED
        BY <4>5
    <3>3. QED
      BY <2>2, <2>4, <3>1, <3>2
  <2>5. CASE /\ Poisons(t[m], adv[m], s)
             /\ ~Adds(t[m], adv[m]) /\ ~Improves(t[m], adv[m])
             /\ u[m] = [cost |-> Infinity, next |-> s]
             /\ m # s
    <3>1. m \notin new
      BY <2>2, <2>5
    <3>2. m \notin nbs
      BY <2>1, <2>5 DEF Poisons
    <3>3. u[m] # [cost |-> 1, next |-> m]
      BY <2>5, InfinityAssumption
    <3>4. QED
      BY <3>1, <3>2, <3>3
  <2>6. QED
    BY <1>2, <2>3, <2>4, <2>5
<1>7. ASSUME NEW d \in Node, d # n, HasRoute(u, d)
      PROVE  u[d].next \in nbs \cup new
  <2>1. CASE u[d] = t[d]
    BY <1>7, <2>1 DEF Consistent, HasRoute, HasEntry
  <2>2. CASE /\ u[d] = [cost |-> adv[d] + 1, next |-> s]
             /\ adv[d] \in 0 .. (Infinity - 1)
    \* The sender itself is at cost 1 afterwards.
    <3>1. adv[s] = 0
      BY <1>1
    <3>2. u[s] = [cost |-> 1, next |-> s]
      <4>1. CASE u[s] = t[s] /\ ~Adds(t[s], adv[s]) /\ ~Improves(t[s], adv[s])
        <5>1. t[s] \in Entry
          BY <3>1, <4>1, NoEntryAssumption, InfinityAssumption
             DEF Adds, SoundTable, Table, Cost
        <5>2. t[s].cost \in {0, 1}
          BY <3>1, <4>1, <5>1, NoEntryAssumption, InfinityAssumption
             DEF Improves, Entry, Cost
        <5>3. SoundEntry(n, s, t[s])
          BY <5>1, NoEntryAssumption DEF SoundTable, HasEntry
        <5>4. QED
          BY <1>1, <4>1, <5>1, <5>2, <5>3 DEF SoundEntry, Entry
      <4>2. CASE u[s] = [cost |-> adv[s] + 1, next |-> s]
        BY <3>1, <4>2
      <4>3. QED
        BY <1>2, <4>1, <4>2
    <3>3. QED
      BY <1>6, <2>2, <3>2
  <2>3. CASE u[d] = [cost |-> Infinity, next |-> s]
    BY <1>7, <2>3 DEF HasRoute
  <2>4. QED
    BY <1>2, <2>1, <2>2, <2>3
<1>8. QED
  BY <1>3, <1>5, <1>6, <1>7 DEF Consistent

\* Dismissing neighbours keeps table and neighbour list sound.
LEMMA DismissSound ==
  ASSUME NEW n \in Node, NEW t, NEW nbs, NEW dead,
         SoundTable(n, t), Consistent(n, t, nbs), nbs \subseteq Node,
         dead \subseteq nbs
  PROVE  /\ SoundTable(n, RemoveFromRouting(t, dead))
         /\ Consistent(n, RemoveFromRouting(t, dead), nbs \ dead)
<1> DEFINE u == RemoveFromRouting(t, dead)
<1>1. n \notin dead
  <2>1. n \notin LinkedTo(n)
    BY LinkAssumption DEF LinkedTo
  <2>2. QED
    BY <2>1 DEF Consistent
<1>2. ASSUME NEW d \in Node
      PROVE  \/ u[d] = t[d] /\ ~(HasEntry(t, d) /\ t[d].next \in dead)
             \/ /\ t[d] \in Entry /\ t[d].next \in dead
                /\ u[d] = [cost |-> Infinity, next |-> t[d].next]
                /\ d # n
  <2>1. CASE HasEntry(t, d) /\ t[d].next \in dead
    <3>1. t[d] \in Entry
      BY <2>1 DEF SoundTable, Table, HasEntry
    <3>2. u[d] = [t[d] EXCEPT !.cost = Infinity]
      BY <2>1 DEF RemoveFromRouting
    <3>3. d # n
      BY <1>1, <2>1 DEF SoundTable
    <3>4. QED
      BY <2>1, <3>1, <3>2, <3>3 DEF Entry
  <2>2. CASE ~(HasEntry(t, d) /\ t[d].next \in dead)
    BY <2>2 DEF RemoveFromRouting
  <2>3. QED
    BY <2>1, <2>2
<1>3. SoundTable(n, u)
  <2>1. u \in Table
    <3>1. \A d \in Node : u[d] \in Entry \cup {NoEntry}
      <4> TAKE d \in Node
      <4>1. t[d] \in Entry \cup {NoEntry}
        BY DEF SoundTable, Table
      <4>2. t[d] \in Entry => [cost |-> Infinity, next |-> t[d].next] \in Entry
        BY InfinityAssumption DEF Entry, Cost
      <4>3. QED
        BY <1>2, <4>1, <4>2
    <3>2. QED
      BY <3>1 DEF RemoveFromRouting, Table
  <2>2. u[n] = [cost |-> 0, next |-> n]
    BY <1>2 DEF SoundTable
  <2>3. ASSUME NEW d \in Node, HasEntry(u, d)
        PROVE  SoundEntry(n, d, u[d])
    <3>1. CASE u[d] = t[d]
      BY <2>3, <3>1 DEF SoundTable, HasEntry
    <3>2. CASE u[d] = [cost |-> Infinity, next |-> t[d].next]
      <4>1. Dist[n][d] \in Cost
        BY DistAssumption
      <4>2. QED
        BY <3>2, <4>1, InfinityAssumption DEF SoundEntry, Cost
    <3>3. QED
      BY <1>2, <3>1, <3>2
  <2>4. QED
    BY <2>1, <2>2, <2>3 DEF SoundTable
<1>4. nbs \ dead \subseteq LinkedTo(n)
  BY DEF Consistent
<1>5. ASSUME NEW m \in Node
      PROVE  m \in nbs \ dead <=> u[m] = [cost |-> 1, next |-> m]
  <2>1. m \in nbs <=> t[m] = [cost |-> 1, next |-> m]
    BY DEF Consistent
  <2>2. CASE u[m] = t[m] /\ ~(HasEntry(t, m) /\ t[m].next \in dead)
    <3>1. ASSUME m \in dead PROVE FALSE
      <4>1. t[m] = [cost |-> 1, next |-> m]
        BY <2>1, <3>1
      <4>2. HasEntry(t, m)
        BY <4>1, NoEntryAssumption, InfinityAssumption DEF HasEntry, Entry, Cost
      <4>3. QED
        BY <2>2, <3>1, <4>1, <4>2
    <3>2. QED
      BY <2>1, <2>2, <3>1
  <2>3. CASE /\ t[m] \in Entry /\ t[m].next \in dead
             /\ u[m] = [cost |-> Infinity, next |-> t[m].next]
    <3>1. u[m] # [cost |-> 1, next |-> m]
      BY <2>3, InfinityAssumption
    <3>2. m \in nbs => m \in dead
      BY <2>1, <2>3
    <3>3. QED
      BY <3>1, <3>2
  <2>4. QED
    BY <1>2, <2>2, <2>3
<1>6. ASSUME NEW d \in Node, d # n, HasRoute(u, d)
      PROVE  u[d].next \in nbs \ dead
  <2>1. u[d] = t[d] /\ ~(HasEntry(t, d) /\ t[d].next \in dead)
    <3>1. CASE u[d] = [cost |-> Infinity, next |-> t[d].next]
      BY <1>6, <3>1 DEF HasRoute
    <3>2. QED
      BY <1>2, <3>1
  <2>2. HasRoute(t, d) /\ HasEntry(t, d)
    BY <1>6, <2>1 DEF HasRoute, HasEntry
  <2>3. QED
    BY <1>6, <2>1, <2>2 DEF Consistent
<1>7. QED
  BY <1>3, <1>4, <1>5, <1>6 DEF Consistent

-----------------------------------------------------------------------------
(* Lemmas about the channels.                                              *)

LEMMA SoundIsTyped ==
  ASSUME NEW c, c = [s \in Node |-> [n \in Node |-> c[s][n]]],
         \A s, n \in Node : c[s][n] \in Seq(SoundMessage(s, n))
  PROVE  SoundChannels(c)
<1>1. ASSUME NEW s \in Node, NEW n \in Node
      PROVE  c[s][n] \in Seq(Message)
  <2>1. SoundMessage(s, n) \subseteq Message
    BY DEF SoundMessage
  <2>2. QED
    BY <2>1, SeqMonotonic
<1>2. c \in [Node -> [Node -> Seq(Message)]]
  <2>1. \A s \in Node : [n \in Node |-> c[s][n]] \in [Node -> Seq(Message)]
    BY <1>1
  <2>2. [s \in Node |-> [n \in Node |-> c[s][n]]] \in [Node -> [Node -> Seq(Message)]]
    BY <2>1
  <2>3. QED
    BY <2>2, Zenon
<1>3. QED
  BY <1>2 DEF SoundChannels

\* Reading a message and writing UPDATEs of a sound table.
LEMMA RepliedSound ==
  ASSUME IInv, NEW n \in Node, NEW s \in Node, chan[s][n] # <<>>,
         NEW t, SoundTable(n, t),
         NEW targets, targets \subseteq LinkedTo(n)
  PROVE  SoundChannels(Replied(s, n, t, targets))
<1> DEFINE c == Replied(s, n, t, targets)
<1>1. ASSUME NEW a \in Node, NEW b \in Node
      PROVE  c[a][b] \in Seq(SoundMessage(a, b))
  <2>1. chan[a][b] \in Seq(SoundMessage(a, b))
    BY DEF IInv, SoundChannels
  <2>2. CASE a = s /\ b = n
    <3>1. c[a][b] = Tail(chan[a][b])
      BY <2>2 DEF Replied
    <3>2. chan[a][b] # <<>>
      BY <2>2
    <3>3. Tail(chan[a][b]) \in Seq(SoundMessage(a, b))
      BY <2>1, <3>2, HeadTailProperties, Zenon
    <3>4. QED
      BY <3>1, <3>3
  <2>3. CASE ~(a = s /\ b = n) /\ a = n /\ b \in targets
    <3>1. c[a][b] = Append(chan[a][b], Update(Advertise(t, b)))
      BY <2>3 DEF Replied
    <3>2. Update(Advertise(t, b)) \in SoundMessage(a, b)
      BY <2>3, AdvertiseSound DEF LinkedTo
    <3>3. QED
      BY <2>1, <3>1, <3>2, AppendProperties
  <2>4. CASE ~(a = s /\ b = n) /\ ~(a = n /\ b \in targets)
    <3>1. c[a][b] = chan[a][b]
      BY <2>4 DEF Replied
    <3>2. QED
      BY <2>1, <3>1
  <2>5. QED
    BY <2>2, <2>3, <2>4
<1>2. c = [x \in Node |-> [y \in Node |-> c[x][y]]]
  BY DEF Replied
<1>3. QED
  BY <1>1, <1>2, SoundIsTyped

\* Writing UPDATEs of a sound table.
LEMMA AnnouncedSound ==
  ASSUME IInv, NEW n \in Node, NEW t, SoundTable(n, t),
         NEW targets, targets \subseteq LinkedTo(n)
  PROVE  SoundChannels(Announced(n, t, targets))
<1> DEFINE c == Announced(n, t, targets)
<1>1. ASSUME NEW a \in Node, NEW b \in Node
      PROVE  c[a][b] \in Seq(SoundMessage(a, b))
  <2>1. chan[a][b] \in Seq(SoundMessage(a, b)) /\ chan \in [Node -> [Node -> Seq(Message)]]
    BY DEF IInv, SoundChannels
  <2>2. CASE a = n /\ b \in targets
    <3>1. c[a][b] = Append(chan[a][b], Update(Advertise(t, b)))
      BY <2>1, <2>2 DEF Announced
    <3>2. Update(Advertise(t, b)) \in SoundMessage(a, b)
      BY <2>2, AdvertiseSound DEF LinkedTo
    <3>3. QED
      BY <2>1, <3>1, <3>2, AppendProperties
  <2>3. CASE ~(a = n /\ b \in targets)
    <3>1. c[a][b] = chan[a][b]
      BY <2>1, <2>3 DEF Announced
    <3>2. QED
      BY <2>1, <3>1
  <2>4. QED
    BY <2>2, <2>3
<1>2. c = [x \in Node |-> [y \in Node |-> c[x][y]]]
  BY DEF Announced, IInv, SoundChannels
<1>3. QED
  BY <1>1, <1>2, SoundIsTyped

\* Losing the oldest message.
LEMMA TailSound ==
  ASSUME IInv, NEW s \in Node, NEW n \in Node, chan[s][n] # <<>>
  PROVE  SoundChannels([chan EXCEPT ![s][n] = Tail(@)])
<1> DEFINE c == [chan EXCEPT ![s][n] = Tail(@)]
<1>1. ASSUME NEW a \in Node, NEW b \in Node
      PROVE  c[a][b] \in Seq(SoundMessage(a, b))
  <2>1. chan[a][b] \in Seq(SoundMessage(a, b)) /\ chan \in [Node -> [Node -> Seq(Message)]]
    BY DEF IInv, SoundChannels
  <2>2. CASE a = s /\ b = n
    BY <2>1, <2>2, HeadTailProperties
  <2>3. CASE ~(a = s /\ b = n)
    BY <2>1, <2>3
  <2>4. QED
    BY <2>2, <2>3
<1>2. c = [x \in Node |-> [y \in Node |-> c[x][y]]]
  BY DEF IInv, SoundChannels
<1>3. QED
  BY <1>1, <1>2, SoundIsTyped

\* Two messages of a channel that change places.
LEMMA SwapSound ==
  ASSUME IInv, NEW s \in Node, NEW n \in Node,
         NEW i \in 1 .. (Len(chan[s][n]) - 1)
  PROVE  SoundChannels([chan EXCEPT ![s][n] =
           [@ EXCEPT ![i] = chan[s][n][i + 1], ![i + 1] = chan[s][n][i]]])
<1> DEFINE swapped == [chan[s][n] EXCEPT ![i] = chan[s][n][i + 1],
                                         ![i + 1] = chan[s][n][i]]
           c == [chan EXCEPT ![s][n] = swapped]
<1>1. chan \in [Node -> [Node -> Seq(Message)]] /\ chan[s][n] \in Seq(SoundMessage(s, n))
  BY DEF IInv, SoundChannels
<1>2. swapped \in Seq(SoundMessage(s, n))
  <2>1. i \in DOMAIN chan[s][n] /\ i + 1 \in DOMAIN chan[s][n]
    BY <1>1
  <2>2. chan[s][n][i] \in SoundMessage(s, n) /\ chan[s][n][i + 1] \in SoundMessage(s, n)
    BY <1>1, <2>1
  <2>3. QED
    BY <1>1, <2>2
<1>3. ASSUME NEW a \in Node, NEW b \in Node
      PROVE  c[a][b] \in Seq(SoundMessage(a, b))
  <2>1. chan[a][b] \in Seq(SoundMessage(a, b))
    BY DEF IInv, SoundChannels
  <2>2. CASE a = s /\ b = n
    <3>1. c[a][b] = swapped
      BY <1>1, <2>2
    <3>2. QED
      BY <1>2, <2>2, <3>1
  <2>3. CASE ~(a = s /\ b = n)
    <3>1. c[a][b] = chan[a][b]
      BY <1>1, <2>3
    <3>2. QED
      BY <2>1, <3>1
  <2>4. QED
    BY <2>2, <2>3
<1>4. c = [x \in Node |-> [y \in Node |-> c[x][y]]]
  BY <1>1
<1>5. QED
  BY <1>3, <1>4, SoundIsTyped
-----------------------------------------------------------------------------
(* The invariant is inductive: one lemma per action.                       *)

LEMMA InitSound == Init => IInv
<1> SUFFICES ASSUME Init PROVE IInv
  OBVIOUS
<1>1. EmptyTable \in Table
  BY DEF EmptyTable, Table
<1>2. \A S : <<>> \in Seq(S)
  BY EmptySeq
<1>3. TypeOK
  BY <1>1, <1>2, BoundAssumption DEF Init, TypeOK, ProcessState
<1>4. SoundChannels(chan)
  BY <1>2 DEF Init, SoundChannels
<1>5. \A n \in Node : SoundDaemon(n)
  BY DEF Init, SoundDaemon
<1>6. QED
  BY <1>3, <1>4, <1>5 DEF IInv

LEMMA StartSound ==
  ASSUME IInv, NEW n \in Node, Start(n)
  PROVE  IInv'
<1>1. TypeOK'
  BY DEF IInv, TypeOK, Start, daemonVars, faultVars, ProcessState
<1>2. SoundChannels(chan)'
  BY DEF IInv, SoundChannels, Start
<1>3. ASSUME NEW m \in Node PROVE SoundDaemon(m)'
  BY DEF IInv, TypeOK, SoundDaemon, Start, daemonVars
<1>4. QED
  BY <1>1, <1>2, <1>3 DEF IInv

LEMMA HandleHandshakeReplySound ==
  ASSUME IInv, NEW n \in Node, HandleHandshakeReply(n)
  PROVE  IInv'
<1> DEFINE t == [EmptyTable EXCEPT ![n] = [cost |-> 0, next |-> n]]
<1>0. /\ process[n] = "connected"
      /\ process' = [process EXCEPT ![n] = "running"]
      /\ table' = [table EXCEPT ![n][n] = [cost |-> 0, next |-> n]]
      /\ chan' = [chan EXCEPT ![n] = [b \in Node |->
                    IF b \in LinkedTo(n) THEN Append(chan[n][b], Hello)
                                         ELSE chan[n][b]]]
      /\ UNCHANGED <<neighbourList, overdue, alive, faultVars>>
  BY DEF HandleHandshakeReply
<1>1. table[n] = EmptyTable /\ neighbourList[n] = {} /\ overdue[n] = {}
  BY <1>0 DEF IInv, SoundDaemon
<1>2. table' = [table EXCEPT ![n] = t]
  BY <1>0, <1>1 DEF IInv, TypeOK
<1>3. /\ t \in Table
      /\ t[n] = [cost |-> 0, next |-> n]
      /\ \A d \in Node : d # n => t[d] = NoEntry
  BY InfinityAssumption DEF EmptyTable, Table, Entry, Cost
<1>4. SoundTable(n, t)
  BY <1>3, DistAssumption DEF SoundTable, SoundEntry, HasEntry, Cost
<1>5. Consistent(n, t, {})
  <2>1. \A m \in Node : t[m] # [cost |-> 1, next |-> m]
    BY <1>3, NoEntryAssumption, InfinityAssumption DEF Entry, Cost
  <2>2. QED
    BY <1>3, <2>1 DEF Consistent, HasRoute, HasEntry
<1>6. SoundChannels(chan')
  <2>1. ASSUME NEW a \in Node, NEW b \in Node
        PROVE  chan'[a][b] \in Seq(SoundMessage(a, b))
    <3>1. chan[a][b] \in Seq(SoundMessage(a, b)) /\ chan \in [Node -> [Node -> Seq(Message)]]
      BY DEF IInv, SoundChannels
    <3>2. CASE a = n /\ b \in LinkedTo(n)
      <4>1. chan'[a][b] = Append(chan[a][b], Hello)
        BY <1>0, <3>1, <3>2
      <4>2. Hello \in SoundMessage(a, b)
        BY <3>2 DEF Hello, SoundMessage, Message, LinkedTo
      <4>3. QED
        BY <3>1, <4>1, <4>2, AppendProperties
    <3>3. CASE ~(a = n /\ b \in LinkedTo(n))
      BY <1>0, <3>1, <3>3
    <3>4. QED
      BY <3>2, <3>3
  <2>2. chan' = [x \in Node |-> [y \in Node |-> chan'[x][y]]]
    BY <1>0 DEF IInv, SoundChannels
  <2>3. QED
    BY <2>1, <2>2, SoundIsTyped
<1> HIDE DEF t
<1>7. TypeOK'
  <2>1. table' \in [Node -> Table]
    BY <1>2, <1>3 DEF IInv, TypeOK
  <2>2. process' \in [Node -> ProcessState]
    BY <1>0 DEF IInv, TypeOK, ProcessState
  <2>3. chan' \in [Node -> [Node -> Seq(Message)]]
    BY <1>6 DEF SoundChannels
  <2>4. UNCHANGED <<neighbourList, overdue, alive, faultVars>>
    BY <1>0
  <2>5. QED
    BY <2>1, <2>2, <2>3, <2>4 DEF IInv, TypeOK, faultVars
<1>8. ASSUME NEW m \in Node PROVE SoundDaemon(m)'
  <2>1. CASE m = n
    BY <1>0, <1>1, <1>2, <1>4, <1>5, <2>1 DEF IInv, TypeOK, SoundDaemon
  <2>2. CASE m # n
    BY <1>0, <1>2, <2>2 DEF IInv, TypeOK, SoundDaemon
  <2>3. QED
    BY <2>1, <2>2
<1>9. QED
  BY <1>6, <1>7, <1>8 DEF IInv

LEMMA HandleHelloSound ==
  ASSUME IInv, NEW n \in Node, NEW s \in Node, HandleHello(n, s)
  PROVE  IInv'
<1> USE DEF HandleHello
<1>1. process[n] = "running" /\ chan[s][n] # <<>>
  BY DEF Next2Read
<1>2. SoundTable(n, table[n])
  BY <1>1 DEF IInv, SoundDaemon
<1>3. s \in LinkedTo(n)
  <2>1. Head(chan[s][n]) \in SoundMessage(s, n)
    BY <1>1, HeadTailProperties DEF IInv, SoundChannels
  <2>2. QED
    BY <2>1, LinkAssumption DEF SoundMessage, LinkedTo
<1>4. SoundChannels(chan')
  BY <1>1, <1>2, <1>3, RepliedSound
<1>5. TypeOK'
  BY <1>4 DEF IInv, TypeOK, SoundChannels, faultVars
<1>6. ASSUME NEW m \in Node PROVE SoundDaemon(m)'
  BY DEF IInv, TypeOK, SoundDaemon
<1>7. QED
  BY <1>4, <1>5, <1>6 DEF IInv

LEMMA HandleUpdateSound ==
  ASSUME IInv, NEW n \in Node, NEW s \in Node, HandleUpdate(n, s)
  PROVE  IInv'
<1> DEFINE msg == Head(chan[s][n])
           t   == MergeUpdate(table[n], msg.adv, s)
           nbs == neighbourList[n] \cup NewNeighbours(table[n], msg.adv, s)
           to  == IF Changed(table[n], msg.adv, s) THEN nbs ELSE {}
<1>1. /\ process[n] = "running" /\ chan[s][n] # <<>> /\ msg.type = "UPDATE"
      /\ table' = [table EXCEPT ![n] = t]
      /\ neighbourList' = [neighbourList EXCEPT ![n] = nbs]
      /\ chan' = Replied(s, n, t, to)
      /\ UNCHANGED <<process, overdue, alive, faultVars>>
  BY DEF HandleUpdate, Next2Read
<1> HIDE DEF to
<1>2. msg \in SoundMessage(s, n)
  BY <1>1, HeadTailProperties DEF IInv, SoundChannels
<1>3. /\ SoundTable(n, table[n])
      /\ Consistent(n, table[n], neighbourList[n])
      /\ neighbourList[n] \subseteq Node
  BY <1>1 DEF IInv, TypeOK, SoundDaemon
<1>4. SoundTable(n, t) /\ Consistent(n, t, nbs)
  BY <1>1, <1>2, <1>3, MergeSound
<1> HIDE DEF msg
<1>5. to \subseteq LinkedTo(n) /\ nbs \subseteq Node
  BY <1>4 DEF to, Consistent, LinkedTo
<1>6. SoundChannels(chan')
  BY <1>1, <1>4, <1>5, RepliedSound
<1> HIDE DEF t, nbs
<1>7. TypeOK'
  BY <1>1, <1>4, <1>5, <1>6
     DEF IInv, TypeOK, SoundChannels, SoundTable, faultVars
<1>8. ASSUME NEW m \in Node PROVE SoundDaemon(m)'
  <2>1. CASE m = n
    <3>1. neighbourList[n] \subseteq nbs
      BY DEF nbs
    <3>2. /\ table'[n] = t /\ neighbourList'[n] = nbs
          /\ overdue'[n] = overdue[n] /\ process'[n] = "running"
      BY <1>1 DEF IInv, TypeOK
    <3>3. overdue[n] \subseteq neighbourList[n]
      BY DEF IInv, SoundDaemon
    <3>4. QED
      BY <1>4, <2>1, <3>1, <3>2, <3>3 DEF SoundDaemon
  <2>2. CASE m # n
    BY <1>1, <2>2 DEF IInv, TypeOK, SoundDaemon
  <2>3. QED
    BY <2>1, <2>2
<1>9. QED
  BY <1>6, <1>7, <1>8 DEF IInv

LEMMA HandleKeepAliveSound ==
  ASSUME IInv, NEW n \in Node, NEW s \in Node, HandleKeepAlive(n, s)
  PROVE  IInv'
<1> USE DEF HandleKeepAlive
<1>1. TypeOK'
  BY DEF IInv, TypeOK, faultVars
<1>2. SoundChannels(chan')
  BY DEF IInv
<1>3. ASSUME NEW m \in Node PROVE SoundDaemon(m)'
  BY DEF IInv, TypeOK, SoundDaemon
<1>4. QED
  BY <1>1, <1>2, <1>3 DEF IInv

LEMMA AlarmSound ==
  ASSUME IInv, NEW n \in Node, Alarm(n)
  PROVE  IInv'
<1> DEFINE t   == RemoveFromRouting(table[n], overdue[n])
           nbs == neighbourList[n] \ overdue[n]
           to  == IF overdue[n] # {} THEN nbs ELSE {}
<1>1. /\ process[n] = "running"
      /\ alive' = alive \cup {<<n, m>> : m \in neighbourList[n]}
      /\ table' = [table EXCEPT ![n] = t]
      /\ neighbourList' = [neighbourList EXCEPT ![n] = nbs]
      /\ overdue' = [overdue EXCEPT ![n] = {}]
      /\ chan' = Announced(n, t, to)
      /\ UNCHANGED <<process, faultVars>>
  BY DEF Alarm, ControlTime
<1> HIDE DEF to
<1>2. /\ SoundTable(n, table[n])
      /\ Consistent(n, table[n], neighbourList[n])
      /\ neighbourList[n] \subseteq Node
      /\ overdue[n] \subseteq neighbourList[n]
  BY <1>1 DEF IInv, TypeOK, SoundDaemon
<1>3. SoundTable(n, t) /\ Consistent(n, t, nbs)
  BY <1>2, DismissSound
<1>4. to \subseteq LinkedTo(n) /\ nbs \subseteq Node
  BY <1>2, <1>3 DEF to, Consistent
<1>5. SoundChannels(chan')
  BY <1>1, <1>3, <1>4, AnnouncedSound
<1> HIDE DEF t, nbs
<1>6. TypeOK'
  <2>1. alive' \subseteq Node \X Node
    BY <1>1, <1>2 DEF IInv, TypeOK
  <2>2. QED
    BY <1>1, <1>3, <1>4, <1>5, <2>1
       DEF IInv, TypeOK, SoundChannels, SoundTable, faultVars
<1>7. ASSUME NEW m \in Node PROVE SoundDaemon(m)'
  BY <1>1, <1>3 DEF IInv, TypeOK, SoundDaemon
<1>8. QED
  BY <1>5, <1>6, <1>7 DEF IInv

LEMMA CrashSound ==
  ASSUME IInv, NEW n \in Node, Crash(n)
  PROVE  IInv'
<1> USE DEF Crash
<1>1. SoundChannels(chan')
  <2>1. PICK kept \in [Node -> 0 .. MaxChan] :
          /\ \A d \in Node : kept[d] <= Len(chan[n][d])
          /\ chan' = [chan EXCEPT ![n] =
                        [d \in Node |-> SubSeq(chan[n][d], 1, kept[d])]]
    OBVIOUS
  <2>2. ASSUME NEW a \in Node, NEW b \in Node
        PROVE  chan'[a][b] \in Seq(SoundMessage(a, b))
    <3>1. chan[a][b] \in Seq(SoundMessage(a, b)) /\ chan \in [Node -> [Node -> Seq(Message)]]
      BY DEF IInv, SoundChannels
    <3>2. CASE a = n
      <4>1. chan'[a][b] = SubSeq(chan[a][b], 1, kept[b])
        BY <2>1, <3>1, <3>2
      <4>2. kept[b] \in Int /\ kept[b] <= Len(chan[a][b])
        <5>1. kept[b] \in 0 .. MaxChan
          OBVIOUS
        <5>2. kept[b] \in Int
          BY <5>1, BoundAssumption
        <5>3. QED
          BY <2>1, <3>2, <5>2
      <4>3. \A i \in 1 .. kept[b] : chan[a][b][i] \in SoundMessage(a, b)
        <5> TAKE i \in 1 .. kept[b]
        <5>1. i \in 1 .. Len(chan[a][b])
          BY <3>1, <4>2, LenProperties
        <5>2. QED
          BY <3>1, <5>1, ElementOfSeq
      <4>4. SubSeq(chan[a][b], 1, kept[b]) \in Seq(SoundMessage(a, b))
        BY <4>2, <4>3, SubSeqProperties
      <4>5. QED
        BY <4>1, <4>4
    <3>3. CASE a # n
      BY <2>1, <3>1, <3>3
    <3>4. QED
      BY <3>2, <3>3
  <2>3. chan' = [x \in Node |-> [y \in Node |-> chan'[x][y]]]
    BY <2>1 DEF IInv, SoundChannels
  <2>4. QED
    BY <2>2, <2>3, SoundIsTyped
<1>2. TypeOK'
  <2>1. EmptyTable \in Table
    BY DEF EmptyTable, Table
  <2>2. QED
    BY <1>1, <2>1 DEF IInv, TypeOK, SoundChannels, ProcessState
<1>3. ASSUME NEW m \in Node PROVE SoundDaemon(m)'
  BY DEF IInv, TypeOK, SoundDaemon
<1>4. QED
  BY <1>1, <1>2, <1>3 DEF IInv

LEMMA DropMessageSound ==
  ASSUME IInv, NEW n \in Node, NEW s \in Node, DropMessage(n, s)
  PROVE  IInv'
<1> USE DEF DropMessage
<1>1. SoundChannels(chan')
  BY TailSound
<1>2. TypeOK'
  BY <1>1 DEF IInv, TypeOK, SoundChannels, daemonVars, faultVars
<1>3. ASSUME NEW m \in Node PROVE SoundDaemon(m)'
  BY DEF IInv, SoundDaemon, daemonVars
<1>4. QED
  BY <1>1, <1>2, <1>3 DEF IInv

LEMMA LoseSound ==
  ASSUME IInv, NEW n \in Node, NEW s \in Node, Lose(n, s)
  PROVE  IInv'
<1> USE DEF Lose
<1>1. SoundChannels(chan')
  BY TailSound
<1>2. wireFaults' \in 0 .. MaxWireFaults
  BY BoundAssumption DEF IInv, TypeOK
<1>3. TypeOK'
  BY <1>1, <1>2 DEF IInv, TypeOK, SoundChannels, daemonVars
<1>4. ASSUME NEW m \in Node PROVE SoundDaemon(m)'
  BY DEF IInv, SoundDaemon, daemonVars
<1>5. QED
  BY <1>1, <1>3, <1>4 DEF IInv

LEMMA OvertakeSound ==
  ASSUME IInv, NEW n \in Node, NEW s \in Node, Overtake(n, s)
  PROVE  IInv'
<1>1. SoundChannels(chan')
  <2>1. PICK i \in 1 .. (Len(chan[s][n]) - 1) :
          chan' = [chan EXCEPT ![s][n] =
                     [@ EXCEPT ![i] = chan[s][n][i + 1], ![i + 1] = chan[s][n][i]]]
    BY DEF Overtake
  <2>2. SoundChannels([chan EXCEPT ![s][n] =
          [@ EXCEPT ![i] = chan[s][n][i + 1], ![i + 1] = chan[s][n][i]]])
    BY SwapSound
  <2>3. QED
    BY <2>1, <2>2, Zenon
<1> USE DEF Overtake
<1>2. wireFaults' \in 0 .. MaxWireFaults
  BY BoundAssumption DEF IInv, TypeOK
<1>3. TypeOK'
  BY <1>1, <1>2 DEF IInv, TypeOK, SoundChannels, daemonVars
<1>4. ASSUME NEW m \in Node PROVE SoundDaemon(m)'
  BY DEF IInv, SoundDaemon, daemonVars
<1>5. QED
  BY <1>1, <1>3, <1>4 DEF IInv

LEMMA DropKeepAliveSound ==
  ASSUME IInv, NEW n \in Node, NEW s \in Node, DropKeepAlive(n, s)
  PROVE  IInv'
<1> USE DEF DropKeepAlive
<1>1. TypeOK'
  BY DEF IInv, TypeOK, daemonVars, faultVars
<1>2. ASSUME NEW m \in Node PROVE SoundDaemon(m)'
  BY DEF IInv, SoundDaemon, daemonVars
<1>3. QED
  BY <1>1, <1>2 DEF IInv

LEMMA FallSilentSound ==
  ASSUME IInv, NEW S \in SUBSET Silent, FallSilent(S)
  PROVE  IInv'
<1>1. /\ \A n \in Node : {m \in Node : <<n, m>> \in S} \subseteq neighbourList[n]
      /\ overdue' = [n \in Node |-> overdue[n] \cup {m \in Node : <<n, m>> \in S}]
      /\ UNCHANGED <<process, table, neighbourList, chan, alive, crashed, wireFaults>>
  BY DEF FallSilent, Silent, faultVars
<1>2. TypeOK'
  BY <1>1 DEF IInv, TypeOK
<1>3. ASSUME NEW k \in Node PROVE SoundDaemon(k)'
  BY <1>1 DEF IInv, TypeOK, SoundDaemon
<1>4. QED
  BY <1>1, <1>2, <1>3 DEF IInv

LEMMA LoseKeepAlivesSound ==
  ASSUME IInv, NEW n \in Node, NEW m \in Node, LoseKeepAlives(n, m)
  PROVE  IInv'
<1> USE DEF LoseKeepAlives
<1>1. /\ m \in neighbourList[n]
      /\ overdue' = [overdue EXCEPT ![n] = @ \cup {m}]
      /\ UNCHANGED <<process, table, neighbourList, chan, crashed>>
  OBVIOUS
<1>2. TypeOK'
  BY <1>1, BoundAssumption DEF IInv, TypeOK, faultVars
<1>3. ASSUME NEW k \in Node PROVE SoundDaemon(k)'
  BY <1>1 DEF IInv, TypeOK, SoundDaemon
<1>4. QED
  BY <1>1, <1>2, <1>3 DEF IInv

LEMMA StutterSound ==
  ASSUME IInv, UNCHANGED vars
  PROVE  IInv'
BY DEF vars, IInv, TypeOK, SoundChannels, SoundDaemon

LEMMA NextSound ==
  ASSUME IInv, [Next]_vars
  PROVE  IInv'
<1>1. CASE UNCHANGED vars
  BY <1>1, StutterSound
<1>2. CASE \E n \in Node : Start(n) \/ HandleHandshakeReply(n) \/ Alarm(n) \/ Crash(n)
  BY <1>2, StartSound, HandleHandshakeReplySound, AlarmSound, CrashSound
<1>3. CASE \E n \in Node, s \in Node :
             \/ HandleHello(n, s) \/ HandleUpdate(n, s) \/ HandleKeepAlive(n, s)
             \/ DropMessage(n, s) \/ DropKeepAlive(n, s)
             \/ Lose(n, s) \/ Overtake(n, s)
             \/ LoseKeepAlives(n, s)
  BY <1>3, HandleHelloSound, HandleUpdateSound, HandleKeepAliveSound,
     DropMessageSound, DropKeepAliveSound, LoseSound, OvertakeSound,
     LoseKeepAlivesSound
<1>4. CASE \E S \in SUBSET Silent : FallSilent(S)
  BY <1>4, FallSilentSound
<1>5. QED
  BY <1>1, <1>2, <1>3, <1>4 DEF Next

-----------------------------------------------------------------------------
(* What the inductive invariant implies.                                   *)

\* The table of a daemon that is down has no entry.
LEMMA EmptyHasNoEntry ==
  ASSUME NEW d \in Node
  PROVE  /\ ~HasEntry(EmptyTable, d)
         /\ \A m \in Node : EmptyTable[d] # [cost |-> 1, next |-> m]
BY NoEntryAssumption, InfinityAssumption DEF EmptyTable, HasEntry, Entry, Cost

LEMMA IInvImplies ==
  IInv => NeighbourListMatchesTable /\ RoutesUseNeighbours /\ NoUnderestimate
<1> SUFFICES ASSUME IInv
             PROVE  NeighbourListMatchesTable /\ RoutesUseNeighbours /\ NoUnderestimate
  OBVIOUS
<1>1. ASSUME NEW n \in Node
      PROVE  /\ \A m \in Node :
                   m \in neighbourList[n] <=> table[n][m] = [cost |-> 1, next |-> m]
             /\ \A d \in Node : (d # n /\ HasRoute(table[n], d)) =>
                                   FindNextHop(table[n], d) \in neighbourList[n]
             /\ \A d \in Node : HasEntry(table[n], d) =>
                                   table[n][d].cost >= Dist[n][d]
  <2>1. CASE process[n] = "running"
    BY <2>1 DEF IInv, SoundDaemon, SoundTable, SoundEntry, Consistent, FindNextHop
  <2>2. CASE process[n] # "running"
    BY <2>2, EmptyHasNoEntry DEF IInv, SoundDaemon, HasRoute
  <2>3. QED
    BY <2>1, <2>2
<1>2. QED
  BY <1>1 DEF NeighbourListMatchesTable, RoutesUseNeighbours, NoUnderestimate

-----------------------------------------------------------------------------
(* Theorems.                                                               *)

\* The inductive invariant holds of the network booting from nothing.
THEOREM Invariance == Spec => []IInv
BY InitSound, NextSound, PTL DEF Spec

\* The state of every daemon (routing_daemon.c) stays well-typed: no cost ever
\* leaves 0..Infinity, although addToRoutingTable stores cost + 1.
THEOREM TypeCorrect == Spec => []TypeOK
<1>1. IInv => TypeOK
  BY DEF IInv
<1>2. QED
  BY <1>1, Invariance, PTL

\* The neighbours a daemon monitors are those its table has at cost 1,
\* whatever crashes, restarts, is lost or overtaken (routingTable.c:286, 319, 79).
THEOREM NeighboursCorrect == Spec => []NeighbourListMatchesTable
BY IInvImplies, Invariance, PTL

\* Every answer of findNextHop is a neighbour under surveillance.
THEOREM RoutesCorrect == Spec => []RoutesUseNeighbours
BY IInvImplies, Invariance, PTL

\* No table has a path shorter than the wiring allows.
THEOREM CostsCorrect == Spec => []NoUnderestimate
BY IInvImplies, Invariance, PTL

-----------------------------------------------------------------------------
(* Who backs a path.  A path of n through s is backed while s has a         *)
(* cheaper one or tells n, in a message still in flight, that it has none.  *)
(* The same holds of every path a message in flight offers, from the place  *)
(* of that message on.  Until the first daemon stops nothing is withdrawn.  *)

Withdraws(m, d) == m.type = "UPDATE" /\ m.adv[d] = Infinity

\* d is withdrawn by a message of q behind the first k.
Withdrawn(q, k, d) == \E j \in 1 .. Len(q) : k < j /\ Withdraws(q[j], d)

\* The table t has a path to d of at most this cost.
Holds(t, d, c) == HasRoute(t, d) /\ t[d].cost <= c

Backs(gone, q, t, k, d, c) ==
  /\ Holds(t, d, c) \/ Withdrawn(q, k, d)
  /\ gone = {} => ~Withdrawn(q, k, d)

\* What the channel q of a sender with table t offers.
BackedMessages(gone, q, t) ==
  \A i \in 1 .. Len(q), d \in Node :
    (q[i].type = "UPDATE" /\ q[i].adv[d] \notin {NoEntry, Infinity}) =>
      Backs(gone, q, t, i, d, q[i].adv[d])

\* What n, with table u, has of s, with table t, at the other end of q.
BackedRoutes(gone, u, n, s, q, t) ==
  \A d \in Node \ {n} :
    (HasRoute(u, d) /\ u[d].next = s) => Backs(gone, q, t, 0, d, u[d].cost - 1)

\* A table that has become t2 keeps every path of t, or loses it to poison.
Keeps(t, t2) ==
  \A d \in Node : HasRoute(t, d) => Holds(t2, d, t[d].cost)

KeepsOrPoisons(gone, t, t2) ==
  \A d \in Node : HasRoute(t, d) =>
    \/ Holds(t2, d, t[d].cost)
    \/ gone # {} /\ HasEntry(t2, d) /\ t2[d].cost = Infinity

LEMMA AdvertiseTells ==
  ASSUME NEW t \in Table, NEW b, NEW d \in Node
  PROVE  /\ HasRoute(t, d) => Advertise(t, b)[d] # Infinity
         /\ (HasEntry(t, d) /\ t[d].cost = Infinity) => Advertise(t, b)[d] = Infinity
         /\ Advertise(t, b)[d] \notin {NoEntry, Infinity} =>
              Holds(t, d, Advertise(t, b)[d])
<1>1. t[d] \in Entry \cup {NoEntry}
  BY DEF Table
<1>2. NoEntry # Infinity
  BY NoEntryAssumption, InfinityAssumption DEF Cost
<1>3. HasEntry(t, d) => t[d].cost \in Cost
  BY <1>1 DEF HasEntry, Entry
<1>4. QED
  BY <1>2, <1>3, InfinityAssumption DEF Advertise, HasRoute, HasEntry, Holds, Cost

LEMMA KeepsItself ==
  ASSUME NEW t \in Table
  PROVE  Keeps(t, t)
<1> SUFFICES ASSUME NEW d \in Node, HasRoute(t, d)
             PROVE  Holds(t, d, t[d].cost)
  BY DEF Keeps
<1>1. t[d].cost \in Int
  BY InfinityAssumption DEF Table, HasRoute, HasEntry, Entry, Cost
<1>2. QED
  BY <1>1 DEF Holds

\* What is backed stays so when its sender writes on, or improves its table.
LEMMA BacksAppend ==
  ASSUME NEW gone, NEW q \in Seq(Message), NEW t \in Table, NEW t2 \in Table,
         NEW b \in Node, NEW k \in Nat, NEW d \in Node, NEW c \in Int,
         KeepsOrPoisons(gone, t, t2), Backs(gone, q, t, k, d, c), k <= Len(q)
  PROVE  Backs(gone, Append(q, Update(Advertise(t2, b))), t2, k, d, c)
<1> DEFINE m == Update(Advertise(t2, b))
           r == Append(q, m)
<1>1. /\ Len(r) = Len(q) + 1 /\ Len(q) \in Nat
      /\ r[Len(q) + 1] = m
      /\ \A i \in 1 .. Len(q) : r[i] = q[i]
  BY AppendProperties, LenProperties
<1>2. Withdraws(m, d) <=> Advertise(t2, b)[d] = Infinity
  BY DEF Withdraws, Update
<1>3. Withdrawn(r, k, d) <=> Withdrawn(q, k, d) \/ Withdraws(m, d)
  <2> HIDE DEF r, m
  <2>1. ASSUME NEW j \in 1 .. Len(r) PROVE j \in 1 .. Len(q) \/ j = Len(q) + 1
    BY <1>1
  <2>2. ASSUME NEW j \in 1 .. Len(q) PROVE j \in 1 .. Len(r)
    BY <1>1
  <2>3. Len(q) + 1 \in 1 .. Len(r) /\ k < Len(q) + 1
    BY <1>1
  <2>4. ASSUME Withdrawn(r, k, d) PROVE Withdrawn(q, k, d) \/ Withdraws(m, d)
    <3>1. PICK j \in 1 .. Len(r) : k < j /\ Withdraws(r[j], d)
      BY <2>4 DEF Withdrawn
    <3>2. CASE j \in 1 .. Len(q)
      BY <1>1, <3>1, <3>2 DEF Withdrawn
    <3>3. CASE j = Len(q) + 1
      BY <1>1, <3>1, <3>3
    <3>4. QED
      BY <2>1, <3>2, <3>3
  <2>5. ASSUME Withdrawn(q, k, d) PROVE Withdrawn(r, k, d)
    BY <1>1, <2>2, <2>5 DEF Withdrawn
  <2>6. ASSUME Withdraws(m, d) PROVE Withdrawn(r, k, d)
    BY <1>1, <2>3, <2>6 DEF Withdrawn
  <2>7. QED
    BY <2>4, <2>5, <2>6
<1>4. CASE Withdrawn(q, k, d)
  BY <1>3, <1>4 DEF Backs
<1>5. CASE Holds(t, d, c) /\ ~Withdrawn(q, k, d)
  <2>1. HasRoute(t, d) /\ t[d].cost <= c /\ t[d].cost \in Int
    BY <1>5, InfinityAssumption DEF Holds, HasRoute, HasEntry, Table, Entry, Cost
  <2>2. CASE Holds(t2, d, t[d].cost)
    <3>1. HasRoute(t2, d) /\ t2[d].cost <= t[d].cost /\ t2[d].cost \in Int
      BY <2>2, InfinityAssumption DEF Holds, HasRoute, HasEntry, Table, Entry, Cost
    <3>2. ~Withdraws(m, d)
      BY <1>2, <3>1, AdvertiseTells
    <3>3. Holds(t2, d, c)
      BY <2>1, <3>1 DEF Holds
    <3>4. QED
      BY <1>3, <1>5, <3>2, <3>3 DEF Backs
  <2>3. CASE gone # {} /\ HasEntry(t2, d) /\ t2[d].cost = Infinity
    <3>1. Withdraws(m, d)
      BY <1>2, <2>3, AdvertiseTells
    <3>2. QED
      BY <1>3, <2>3, <3>1 DEF Backs
  <2>4. QED
    BY <2>1, <2>2, <2>3 DEF KeepsOrPoisons
<1>6. QED
  BY <1>4, <1>5 DEF Backs

LEMMA BacksKeeps ==
  ASSUME NEW gone, NEW q, NEW t \in Table, NEW t2 \in Table,
         NEW k, NEW d \in Node, NEW c \in Int,
         Keeps(t, t2), Backs(gone, q, t, k, d, c)
  PROVE  Backs(gone, q, t2, k, d, c)
<1>1. ASSUME Holds(t, d, c) PROVE Holds(t2, d, c)
  <2>1. HasRoute(t, d) /\ t[d].cost <= c /\ t[d].cost \in Int
    BY <1>1, InfinityAssumption DEF Holds, HasRoute, HasEntry, Table, Entry, Cost
  <2>2. HasRoute(t2, d) /\ t2[d].cost <= t[d].cost
    BY <2>1 DEF Keeps, Holds
  <2>3. t2[d].cost \in Int
    BY <2>2, InfinityAssumption DEF HasRoute, HasEntry, Table, Entry, Cost
  <2>4. QED
    BY <2>1, <2>2, <2>3 DEF Holds
<1>2. QED
  BY <1>1 DEF Backs

\* Behind the head of q and of what is left of it stand the same messages.
LEMMA WithdrawnTail ==
  ASSUME NEW q \in Seq(Message), q # <<>>, NEW k \in Nat, NEW d \in Node
  PROVE  Withdrawn(Tail(q), k, d) <=> Withdrawn(q, k + 1, d)
<1>1. /\ Len(q) \in Nat /\ Len(Tail(q)) = Len(q) - 1
      /\ \A i \in 1 .. Len(Tail(q)) : Tail(q)[i] = q[i + 1]
  BY HeadTailProperties, LenProperties
<1>2. ASSUME Withdrawn(Tail(q), k, d) PROVE Withdrawn(q, k + 1, d)
  <2>1. PICK j \in 1 .. Len(Tail(q)) : k < j /\ Withdraws(Tail(q)[j], d)
    BY <1>2 DEF Withdrawn
  <2>2. j + 1 \in 1 .. Len(q) /\ k + 1 < j + 1
    BY <1>1, <2>1
  <2>3. QED
    BY <1>1, <2>1, <2>2 DEF Withdrawn
<1>3. ASSUME Withdrawn(q, k + 1, d) PROVE Withdrawn(Tail(q), k, d)
  <2>1. PICK j \in 1 .. Len(q) : k + 1 < j /\ Withdraws(q[j], d)
    BY <1>3 DEF Withdrawn
  <2>2. j - 1 \in 1 .. Len(Tail(q)) /\ k < j - 1 /\ j = (j - 1) + 1
    BY <1>1, <2>1
  <2>3. Tail(q)[j - 1] = q[j]
    BY <1>1, <2>2
  <2>4. QED
    BY <2>1, <2>2, <2>3 DEF Withdrawn
<1>4. QED
  BY <1>2, <1>3

LEMMA WithdrawnHead ==
  ASSUME NEW q \in Seq(Message), q # <<>>, NEW d \in Node, ~Withdraws(Head(q), d)
  PROVE  Withdrawn(q, 0, d) <=> Withdrawn(q, 1, d)
<1>1. Head(q) = q[1] /\ Len(q) \in Nat
  BY HeadTailProperties, LenProperties
<1>2. \A j \in 1 .. Len(q) : 0 < j /\ (1 < j <=> j # 1)
  BY <1>1
<1>3. QED
  BY <1>1, <1>2 DEF Withdrawn

LEMMA MessagesAppend ==
  ASSUME NEW gone, NEW q \in Seq(Message), NEW t \in Table, NEW t2 \in Table,
         NEW b \in Node,
         KeepsOrPoisons(gone, t, t2), BackedMessages(gone, q, t)
  PROVE  BackedMessages(gone, Append(q, Update(Advertise(t2, b))), t2)
<1> DEFINE m == Update(Advertise(t2, b))
           r == Append(q, m)
<1>1. /\ Len(r) = Len(q) + 1 /\ Len(q) \in Nat
      /\ r[Len(q) + 1] = m
      /\ \A i \in 1 .. Len(q) : r[i] = q[i]
  BY AppendProperties, LenProperties
<1> SUFFICES ASSUME NEW i \in 1 .. Len(r), NEW d \in Node,
                    r[i].type = "UPDATE", r[i].adv[d] \notin {NoEntry, Infinity}
             PROVE  Backs(gone, r, t2, i, d, r[i].adv[d])
  BY DEF BackedMessages
<1>2. CASE i \in 1 .. Len(q)
  <2>1. r[i] = q[i] /\ i \in Nat /\ i <= Len(q)
    BY <1>1, <1>2
  <2>2. Backs(gone, q, t, i, d, q[i].adv[d])
    BY <1>2, <2>1 DEF BackedMessages
  <2>3. q[i].adv[d] \in Int
    <3>1. q[i] \in Message
      BY <1>2, ElementOfSeq
    <3>2. q[i].adv[d] \in Cost \cup {NoEntry}
      BY <2>1, <3>1 DEF Message, Advertisement
    <3>3. QED
      BY <2>1, <3>2, InfinityAssumption DEF Cost
  <2>4. QED
    BY <2>1, <2>2, <2>3, BacksAppend
<1>3. CASE i = Len(q) + 1
  <2>1. r[i].adv[d] = Advertise(t2, b)[d]
    BY <1>1, <1>3 DEF Update
  <2>2. Holds(t2, d, r[i].adv[d])
    BY <2>1, AdvertiseTells
  <2>3. ~Withdrawn(r, i, d)
    BY <1>1, <1>3 DEF Withdrawn
  <2>4. QED
    BY <2>2, <2>3 DEF Backs
<1>4. QED
  BY <1>1, <1>2, <1>3

LEMMA MessagesKeep ==
  ASSUME NEW gone, NEW q \in Seq(Message), NEW t \in Table, NEW t2 \in Table,
         Keeps(t, t2), BackedMessages(gone, q, t)
  PROVE  BackedMessages(gone, q, t2)
<1> SUFFICES ASSUME NEW i \in 1 .. Len(q), NEW d \in Node,
                    q[i].type = "UPDATE", q[i].adv[d] \notin {NoEntry, Infinity}
             PROVE  Backs(gone, q, t2, i, d, q[i].adv[d])
  BY DEF BackedMessages
<1>1. q[i] \in Message
  BY ElementOfSeq
<1>2. q[i].adv[d] \in Cost \cup {NoEntry}
  BY <1>1 DEF Message, Advertisement
<1>3. q[i].adv[d] \in Int
  BY <1>2, InfinityAssumption DEF Cost
<1>4. Backs(gone, q, t, i, d, q[i].adv[d])
  BY DEF BackedMessages
<1>5. QED
  BY <1>3, <1>4, BacksKeeps

LEMMA MessagesTail ==
  ASSUME NEW gone, NEW q \in Seq(Message), q # <<>>, NEW t,
         BackedMessages(gone, q, t)
  PROVE  BackedMessages(gone, Tail(q), t)
<1>1. /\ Len(q) \in Nat /\ Len(Tail(q)) = Len(q) - 1
      /\ \A i \in 1 .. Len(Tail(q)) : Tail(q)[i] = q[i + 1]
  BY HeadTailProperties, LenProperties
<1> SUFFICES ASSUME NEW i \in 1 .. Len(Tail(q)), NEW d \in Node,
                    Tail(q)[i].type = "UPDATE",
                    Tail(q)[i].adv[d] \notin {NoEntry, Infinity}
             PROVE  Backs(gone, Tail(q), t, i, d, Tail(q)[i].adv[d])
  BY DEF BackedMessages
<1>2. i \in Nat /\ i + 1 \in 1 .. Len(q) /\ Tail(q)[i] = q[i + 1]
  BY <1>1
<1>3. Backs(gone, q, t, i + 1, d, q[i + 1].adv[d])
  BY <1>2 DEF BackedMessages
<1>4. QED
  BY <1>2, <1>3, WithdrawnTail DEF Backs

LEMMA RoutesAppend ==
  ASSUME NEW gone, NEW q \in Seq(Message), NEW t \in Table, NEW t2 \in Table,
         NEW b \in Node, NEW u \in Table, NEW n \in Node, NEW s \in Node,
         KeepsOrPoisons(gone, t, t2), BackedRoutes(gone, u, n, s, q, t)
  PROVE  BackedRoutes(gone, u, n, s, Append(q, Update(Advertise(t2, b))), t2)
<1> DEFINE r == Append(q, Update(Advertise(t2, b)))
<1> SUFFICES ASSUME NEW d \in Node \ {n}, HasRoute(u, d), u[d].next = s
             PROVE  Backs(gone, r, t2, 0, d, u[d].cost - 1)
  BY DEF BackedRoutes
<1>1. u[d].cost \in Int
  BY InfinityAssumption DEF HasRoute, HasEntry, Table, Entry, Cost
<1>2. u[d].cost - 1 \in Int
  BY <1>1
<1>3. Backs(gone, q, t, 0, d, u[d].cost - 1)
  BY DEF BackedRoutes
<1>4. 0 \in Nat /\ 0 <= Len(q)
  BY LenProperties
<1>5. QED
  BY <1>2, <1>3, <1>4, BacksAppend

LEMMA RoutesKeep ==
  ASSUME NEW gone, NEW q, NEW t \in Table, NEW t2 \in Table,
         NEW u \in Table, NEW n \in Node, NEW s \in Node,
         Keeps(t, t2), BackedRoutes(gone, u, n, s, q, t)
  PROVE  BackedRoutes(gone, u, n, s, q, t2)
<1> SUFFICES ASSUME NEW d \in Node \ {n}, HasRoute(u, d), u[d].next = s
             PROVE  Backs(gone, q, t2, 0, d, u[d].cost - 1)
  BY DEF BackedRoutes
<1>1. u[d].cost \in Int
  BY InfinityAssumption DEF HasRoute, HasEntry, Table, Entry, Cost
<1>2. u[d].cost - 1 \in Int
  BY <1>1
<1>3. QED
  BY <1>2, BacksKeeps DEF BackedRoutes

\* A message that withdraws nothing is read.
LEMMA RoutesTail ==
  ASSUME NEW gone, NEW q \in Seq(Message), q # <<>>, Head(q).type # "UPDATE",
         NEW t, NEW u, NEW n, NEW s,
         BackedRoutes(gone, u, n, s, q, t)
  PROVE  BackedRoutes(gone, u, n, s, Tail(q), t)
<1> SUFFICES ASSUME NEW d \in Node \ {n}, HasRoute(u, d), u[d].next = s
             PROVE  Backs(gone, Tail(q), t, 0, d, u[d].cost - 1)
  BY DEF BackedRoutes
<1>1. Backs(gone, q, t, 0, d, u[d].cost - 1)
  BY DEF BackedRoutes
<1>2. ~Withdraws(Head(q), d)
  BY DEF Withdraws
<1>3. Withdrawn(Tail(q), 0, d) <=> Withdrawn(q, 1, d)
  <2>1. 0 \in Nat /\ 0 + 1 = 1
    OBVIOUS
  <2>2. QED
    BY <2>1, WithdrawnTail
<1>4. QED
  BY <1>1, <1>2, <1>3, WithdrawnHead DEF Backs

\* The reader takes an UPDATE of s in: what it now has of s is backed.
LEMMA RoutesLearn ==
  ASSUME NEW gone, NEW q \in Seq(Message), q # <<>>, Head(q).type = "UPDATE",
         NEW t \in Table, NEW u \in Table, NEW n \in Node, NEW s \in Node,
         BackedMessages(gone, q, t), BackedRoutes(gone, u, n, s, q, t)
  PROVE  BackedRoutes(gone, MergeUpdate(u, Head(q).adv, s), n, s, Tail(q), t)
<1> DEFINE adv == Head(q).adv
           v   == MergeUpdate(u, adv, s)
<1> SUFFICES ASSUME NEW d \in Node \ {n}, HasRoute(v, d), v[d].next = s
             PROVE  Backs(gone, Tail(q), t, 0, d, v[d].cost - 1)
  BY DEF BackedRoutes
<1>1. Head(q) = q[1] /\ 1 \in 1 .. Len(q) /\ Head(q) \in Message
  BY HeadTailProperties, LenProperties
<1>2. Withdrawn(Tail(q), 0, d) <=> Withdrawn(q, 1, d)
  <2>1. 0 \in Nat /\ 0 + 1 = 1
    OBVIOUS
  <2>2. QED
    BY <2>1, WithdrawnTail
<1>3. v[d] = Merge(u[d], adv[d], s)
  BY DEF MergeUpdate
<1>4. adv \in Advertisement
  BY <1>1 DEF Message
<1>5. /\ adv[d] \in Cost \cup {NoEntry} /\ u[d] \in Entry \cup {NoEntry}
      /\ NoEntry \notin Cost /\ NoEntry \notin Entry
  BY <1>4, NoEntryAssumption DEF Advertisement, Table
<1>6. CASE Adds(u[d], adv[d]) \/ Improves(u[d], adv[d])
  <2>1. v[d] = [cost |-> adv[d] + 1, next |-> s]
    BY <1>3, <1>6 DEF Merge, Learned
  <2>2. adv[d] \in Cost /\ adv[d] # NoEntry
    BY <1>5, <1>6 DEF Adds, Improves
  <2>3. adv[d] \in Int /\ adv[d] + 1 # Infinity
    BY <2>1, <2>2, InfinityAssumption DEF HasRoute, Cost
  <2>4. adv[d] # Infinity
    <3>1. CASE Adds(u[d], adv[d])
      BY <3>1 DEF Adds
    <3>2. CASE Improves(u[d], adv[d])
      BY <1>5, <3>2, <2>3, InfinityAssumption DEF Improves, Entry, Cost
    <3>3. QED
      BY <1>6, <3>1, <3>2
  <2>5. Backs(gone, q, t, 1, d, adv[d])
    BY <1>1, <2>2, <2>4 DEF BackedMessages
  <2>6. v[d].cost - 1 = adv[d]
    BY <2>1, <2>3
  <2>7. QED
    BY <1>2, <2>5, <2>6 DEF Backs
<1>7. CASE ~(Adds(u[d], adv[d]) \/ Improves(u[d], adv[d]))
  <2>1. CASE Poisons(u[d], adv[d], s)
    <3>1. v[d] = [u[d] EXCEPT !.cost = Infinity]
      BY <1>3, <1>7, <2>1 DEF Merge
    <3>2. u[d] \in Entry
      BY <1>5, <2>1 DEF Poisons
    <3>3. v[d].cost = Infinity
      BY <3>1, <3>2 DEF Entry
    <3>4. QED
      BY <3>3 DEF HasRoute
  <2>2. CASE ~Poisons(u[d], adv[d], s)
    <3>1. v[d] = u[d]
      BY <1>3, <1>7, <2>2 DEF Merge
    <3>2. HasRoute(u, d) /\ u[d].next = s
      BY <3>1 DEF HasRoute, HasEntry
    <3>3. adv[d] # Infinity
      BY <2>2, <3>2 DEF Poisons, HasRoute, HasEntry
    <3>4. ~Withdraws(Head(q), d)
      BY <3>3 DEF Withdraws
    <3>5. Backs(gone, q, t, 0, d, u[d].cost - 1)
      BY <3>2 DEF BackedRoutes
    <3>6. QED
      BY <1>2, <3>1, <3>4, <3>5, WithdrawnHead DEF Backs
  <2>3. QED
    BY <2>1, <2>2
<1>8. QED
  BY <1>6, <1>7

\* What it has of others was there before.
LEMMA RoutesOfOthers ==
  ASSUME NEW gone, NEW q, NEW t, NEW u \in Table, NEW n \in Node, NEW s \in Node,
         NEW x \in Node, x # s, NEW adv \in Advertisement,
         BackedRoutes(gone, u, n, x, q, t)
  PROVE  BackedRoutes(gone, MergeUpdate(u, adv, s), n, x, q, t)
<1> DEFINE v == MergeUpdate(u, adv, s)
<1> SUFFICES ASSUME NEW d \in Node \ {n}, HasRoute(v, d), v[d].next = x
             PROVE  Backs(gone, q, t, 0, d, v[d].cost - 1)
  BY DEF BackedRoutes
<1>1. v[d] = Merge(u[d], adv[d], s)
  BY DEF MergeUpdate
<1>2. ~(Adds(u[d], adv[d]) \/ Improves(u[d], adv[d]))
  BY <1>1 DEF Merge, Learned
<1>3. ~Poisons(u[d], adv[d], s)
  <2>1. ASSUME Poisons(u[d], adv[d], s) PROVE FALSE
    <3>1. v[d] = [u[d] EXCEPT !.cost = Infinity] /\ u[d] \in Entry
      BY <1>1, <1>2, <2>1 DEF Merge, Poisons, Table
    <3>2. v[d].cost = Infinity
      BY <3>1 DEF Entry
    <3>3. QED
      BY <3>2 DEF HasRoute
  <2>2. QED
    BY <2>1
<1>4. v[d] = u[d]
  BY <1>1, <1>2, <1>3 DEF Merge
<1>5. HasRoute(u, d) /\ u[d].next = x
  BY <1>4 DEF HasRoute, HasEntry
<1>6. QED
  BY <1>4, <1>5 DEF BackedRoutes

\* An UPDATE takes a path away only by poison, and poison is never sent
\* before a daemon has stopped.
LEMMA UpdateKeepsOrPoisons ==
  ASSUME NEW gone, NEW q \in Seq(Message), q # <<>>, Head(q).type = "UPDATE",
         NEW t, NEW u \in Table, NEW n \in Node, NEW s \in Node, s # n,
         u[n].next = n,
         gone = {} => BackedRoutes(gone, u, n, s, q, t)
  PROVE  KeepsOrPoisons(gone, u, MergeUpdate(u, Head(q).adv, s))
<1> DEFINE adv == Head(q).adv
           v   == MergeUpdate(u, adv, s)
<1> SUFFICES ASSUME NEW d \in Node, HasRoute(u, d)
             PROVE  \/ Holds(v, d, u[d].cost)
                    \/ gone # {} /\ HasEntry(v, d) /\ v[d].cost = Infinity
  BY DEF KeepsOrPoisons
<1>1. Head(q) = q[1] /\ 1 \in 1 .. Len(q) /\ Head(q) \in Message
  BY HeadTailProperties, LenProperties
<1>2. adv \in Advertisement
  BY <1>1 DEF Message
<1>3. /\ adv[d] \in Cost \cup {NoEntry}
      /\ NoEntry \notin Cost /\ NoEntry \notin Entry
  BY <1>2, NoEntryAssumption DEF Advertisement
<1>4. u[d] \in Entry /\ u[d].cost # Infinity
  BY DEF HasRoute, HasEntry, Table
<1>5. u[d].cost \in 0 .. Infinity /\ u[d].cost < Infinity
  BY <1>4, InfinityAssumption DEF Entry, Cost
<1>6. v[d] = Merge(u[d], adv[d], s)
  BY DEF MergeUpdate
<1>7. ~Adds(u[d], adv[d])
  BY <1>3, <1>4 DEF Adds
<1>8. CASE Improves(u[d], adv[d])
  <2>1. v[d] = [cost |-> adv[d] + 1, next |-> s]
    BY <1>6, <1>8 DEF Merge, Learned
  <2>2. adv[d] \in Cost /\ adv[d] + 1 < u[d].cost
    BY <1>3, <1>8 DEF Improves
  <2>3. v[d].cost = adv[d] + 1
    BY <2>1
  <2>4. v[d].cost <= u[d].cost /\ v[d].cost # Infinity /\ v[d].cost \in Cost
    BY <1>5, <2>2, <2>3, InfinityAssumption DEF Cost
  <2>5. v[d] # NoEntry
    BY <1>3, <2>1, <2>3, <2>4 DEF Entry
  <2>6. QED
    BY <2>4, <2>5 DEF Holds, HasRoute, HasEntry
<1>9. CASE ~Improves(u[d], adv[d]) /\ Poisons(u[d], adv[d], s)
  <2>1. v[d] = [u[d] EXCEPT !.cost = Infinity]
    BY <1>6, <1>7, <1>9 DEF Merge
  <2>2. v[d].cost = Infinity /\ v[d] \in Entry
    BY <1>4, <2>1, InfinityAssumption DEF Entry, Cost
  <2>3. HasEntry(v, d)
    BY <1>3, <2>2 DEF HasEntry
  <2>4. gone # {}
    <3>1. d # n /\ u[d].next = s /\ adv[d] = Infinity
      BY <1>9 DEF Poisons
    <3>2. Withdraws(q[1], d) /\ 0 < 1
      BY <1>1, <3>1 DEF Withdraws
    <3>3. Withdrawn(q, 0, d)
      BY <1>1, <3>2 DEF Withdrawn
    <3>4. QED
      BY <3>1, <3>3 DEF BackedRoutes, Backs
  <2>5. QED
    BY <2>2, <2>3, <2>4
<1>10. CASE ~Improves(u[d], adv[d]) /\ ~Poisons(u[d], adv[d], s)
  <2>1. v[d] = u[d]
    BY <1>6, <1>7, <1>10 DEF Merge
  <2>2. QED
    BY <1>5, <2>1 DEF Holds, HasRoute, HasEntry
<1>11. QED
  BY <1>8, <1>9, <1>10

\* An UPDATE that changes nothing leaves the table as it is.
LEMMA UnchangedUpdate ==
  ASSUME NEW u \in Table, NEW adv, NEW s, ~Changed(u, adv, s)
  PROVE  MergeUpdate(u, adv, s) = u
<1>1. \A d \in Node : Merge(u[d], adv[d], s) = u[d]
  BY DEF Changed, Merge
<1>2. u = [d \in Node |-> u[d]]
  BY DEF Table
<1>3. QED
  BY <1>1, <1>2 DEF MergeUpdate

\* controlTime takes the paths through dead neighbours away, by poison.
LEMMA RemoveKeepsOrPoisons ==
  ASSUME NEW gone, NEW u \in Table, NEW dead, dead \subseteq gone
  PROVE  /\ KeepsOrPoisons(gone, u, RemoveFromRouting(u, dead))
         /\ \A n, s \in Node : \A q, t : BackedRoutes(gone, u, n, s, q, t) =>
              BackedRoutes(gone, RemoveFromRouting(u, dead), n, s, q, t)
<1> DEFINE v == RemoveFromRouting(u, dead)
<1>1. ASSUME NEW d \in Node
      PROVE  /\ ~(HasEntry(u, d) /\ u[d].next \in dead) => v[d] = u[d]
             /\ HasEntry(u, d) /\ u[d].next \in dead =>
                  HasEntry(v, d) /\ v[d].cost = Infinity
  <2>1. u[d] \in Entry \cup {NoEntry} /\ NoEntry \notin Entry
    BY NoEntryAssumption DEF Table
  <2>2. CASE HasEntry(u, d) /\ u[d].next \in dead
    <3>1. v[d] = [u[d] EXCEPT !.cost = Infinity] /\ u[d] \in Entry
      BY <2>1, <2>2 DEF RemoveFromRouting, HasEntry
    <3>2. v[d].cost = Infinity /\ v[d] \in Entry
      BY <3>1, InfinityAssumption DEF Entry, Cost
    <3>3. QED
      BY <2>1, <2>2, <3>2 DEF HasEntry
  <2>3. CASE ~(HasEntry(u, d) /\ u[d].next \in dead)
    BY <2>3 DEF RemoveFromRouting
  <2>4. QED
    BY <2>2, <2>3
<1> HIDE DEF v
<1>2. KeepsOrPoisons(gone, u, v)
  <2> SUFFICES ASSUME NEW d \in Node, HasRoute(u, d)
               PROVE  \/ Holds(v, d, u[d].cost)
                      \/ gone # {} /\ HasEntry(v, d) /\ v[d].cost = Infinity
    BY DEF KeepsOrPoisons
  <2>1. u[d].cost \in Int /\ HasEntry(u, d)
    BY InfinityAssumption DEF HasRoute, HasEntry, Table, Entry, Cost
  <2>2. CASE u[d].next \in dead
    BY <1>1, <2>1, <2>2
  <2>3. CASE u[d].next \notin dead
    <3>1. v[d] = u[d]
      BY <1>1, <2>3
    <3>2. QED
      BY <2>1, <3>1 DEF Holds, HasRoute, HasEntry
  <2>4. QED
    BY <2>2, <2>3
<1>3. ASSUME NEW n \in Node, NEW s \in Node, NEW q, NEW t,
             BackedRoutes(gone, u, n, s, q, t)
      PROVE  BackedRoutes(gone, v, n, s, q, t)
  <2> SUFFICES ASSUME NEW d \in Node \ {n}, HasRoute(v, d), v[d].next = s
               PROVE  Backs(gone, q, t, 0, d, v[d].cost - 1)
    BY DEF BackedRoutes
  <2>1. v[d] = u[d]
    BY <1>1 DEF HasRoute
  <2>2. HasRoute(u, d) /\ u[d].next = s
    BY <2>1 DEF HasRoute, HasEntry
  <2>3. QED
    BY <1>3, <2>1, <2>2 DEF BackedRoutes
<1>4. QED
  BY <1>2, <1>3 DEF v

-----------------------------------------------------------------------------
(* The network forms, then daemons stop.                                   *)

NoHello(q)    == \A i \in 1 .. Len(q) : q[i].type # "HELLO"
HelloFirst(q) == \A i \in 1 .. Len(q) : q[i].type = "HELLO" => i = 1
HasUpdate(q)  == \E i \in 1 .. Len(q) : q[i].type = "UPDATE"

\* Every daemon that has not stopped runs and monitors all its neighbours.
Formed ==
  /\ \A n \in Node \ crashed :
       process[n] = "running" /\ LinkedTo(n) \ crashed \subseteq neighbourList[n]
  /\ \A s, n \in Node : NoHello(chan[s][n])

\* No daemon stops while another is still finding its neighbours.
StopsOnlyFormed == \A n \in Node : Crash(n) => Formed

\* How the network forms: a daemon says HELLO before anything else, becomes a
\* neighbour with its first UPDATE and is dismissed when it has stopped.
Forming ==
  /\ crashed # {} => Formed
  /\ \A n \in crashed : process[n] = "down"
  /\ \A n \in Node : overdue[n] \subseteq crashed
  /\ \A s \in Node \ crashed, n \in Node :
       process[s] # "running" => chan[s][n] = <<>> /\ s \notin neighbourList[n]
  /\ \A s, n \in Node : HelloFirst(chan[s][n])
  /\ \A s, n \in Node : s \in neighbourList[n] => NoHello(chan[s][n])
  /\ \A s, n \in Node : s \in neighbourList[n] \ crashed =>
       n \in neighbourList[s] \/ HasUpdate(chan[n][s])

Backed ==
  \A s, n \in Node \ crashed : <<s, n>> \in Link =>
    /\ BackedMessages(crashed, chan[s][n], table[s])
    /\ BackedRoutes(crashed, table[n], n, s, chan[s][n], table[s])

LEMMA AppendedUpdate ==
  ASSUME NEW q \in Seq(Message), NEW t \in Table, NEW b \in Node
  PROVE  LET r == Append(q, Update(Advertise(t, b)))
         IN  /\ HasUpdate(r)
             /\ HelloFirst(q) => HelloFirst(r)
             /\ NoHello(q) => NoHello(r)
<1> DEFINE m == Update(Advertise(t, b))
           r == Append(q, m)
<1>1. /\ Len(r) = Len(q) + 1 /\ Len(q) \in Nat
      /\ r[Len(q) + 1] = m
      /\ \A i \in 1 .. Len(q) : r[i] = q[i]
  BY AppendProperties, LenProperties
<1>2. m.type = "UPDATE"
  BY DEF Update
<1> HIDE DEF m, r
<1>3. ASSUME NEW i \in 1 .. Len(r) PROVE i \in 1 .. Len(q) \/ i = Len(q) + 1
  BY <1>1
<1>4. HasUpdate(r)
  BY <1>1, <1>2 DEF HasUpdate
<1>5. ASSUME HelloFirst(q) PROVE HelloFirst(r)
  BY <1>1, <1>2, <1>3, <1>5 DEF HelloFirst
<1>6. ASSUME NoHello(q) PROVE NoHello(r)
  BY <1>1, <1>2, <1>3, <1>6 DEF NoHello
<1>7. QED
  BY <1>4, <1>5, <1>6 DEF r, m

LEMMA TailForms ==
  ASSUME NEW q \in Seq(Message), q # <<>>
  PROVE  /\ HelloFirst(q) => NoHello(Tail(q))
         /\ NoHello(q) => NoHello(Tail(q))
         /\ NoHello(Tail(q)) => HelloFirst(Tail(q))
         /\ (HasUpdate(q) /\ Head(q).type # "UPDATE") => HasUpdate(Tail(q))
<1>1. /\ Len(q) \in Nat /\ Len(Tail(q)) = Len(q) - 1
      /\ \A i \in 1 .. Len(Tail(q)) : Tail(q)[i] = q[i + 1]
      /\ Head(q) = q[1]
  BY HeadTailProperties, LenProperties
<1>2. ASSUME NEW i \in 1 .. Len(Tail(q))
      PROVE  i + 1 \in 1 .. Len(q) /\ i + 1 # 1 /\ Tail(q)[i] = q[i + 1]
  BY <1>1
<1>3. HelloFirst(q) => NoHello(Tail(q))
  BY <1>2 DEF HelloFirst, NoHello
<1>4. NoHello(q) => NoHello(Tail(q))
  BY <1>2 DEF NoHello
<1>5. ASSUME HasUpdate(q), Head(q).type # "UPDATE" PROVE HasUpdate(Tail(q))
  <2>1. PICK i \in 1 .. Len(q) : q[i].type = "UPDATE"
    BY <1>5 DEF HasUpdate
  <2>2. i # 1
    BY <1>1, <1>5, <2>1
  <2>3. i - 1 \in 1 .. Len(Tail(q)) /\ i = (i - 1) + 1
    BY <1>1, <2>2
  <2>4. Tail(q)[i - 1] = q[i]
    BY <1>1, <2>3
  <2>5. QED
    BY <2>1, <2>3, <2>4 DEF HasUpdate
<1>6. QED
  BY <1>3, <1>4, <1>5 DEF NoHello, HelloFirst

\* The facts about the state that every step below starts from.
LEMMA Typed ==
  ASSUME IInv
  PROVE  /\ chan \in [Node -> [Node -> Seq(Message)]]
         /\ table \in [Node -> Table]
         /\ process \in [Node -> ProcessState]
         /\ neighbourList \in [Node -> SUBSET Node]
         /\ overdue \in [Node -> SUBSET Node]
         /\ wireFaults \in Nat
         /\ \A s, n \in Node : <<s, n>> \notin Link => chan[s][n] = <<>>
         /\ \A n \in Node : neighbourList[n] \subseteq LinkedTo(n)
         /\ \A n \in Node : table[n] \in Table
<1>1. ASSUME NEW s \in Node, NEW n \in Node, <<s, n>> \notin Link
      PROVE  chan[s][n] = <<>>
  <2>1. SoundMessage(s, n) = {}
    BY <1>1 DEF SoundMessage
  <2>2. chan[s][n] \in Seq(SoundMessage(s, n))
    BY DEF IInv, SoundChannels
  <2>3. ASSUME chan[s][n] # <<>> PROVE FALSE
    <3>1. Head(chan[s][n]) \in SoundMessage(s, n)
      BY <2>2, <2>3, HeadTailProperties
    <3>2. QED
      BY <2>1, <3>1
  <2>4. QED
    BY <2>3
<1>2. ASSUME NEW n \in Node
      PROVE  neighbourList[n] \subseteq LinkedTo(n)
  BY DEF IInv, SoundDaemon, Consistent
<1>3. wireFaults \in Nat
  BY BoundAssumption DEF IInv, TypeOK
<1>4. QED
  BY <1>1, <1>2, <1>3 DEF IInv, TypeOK

\* n takes the table t and writes it to the nodes of to.  What it offered its
\* neighbour b, and what b has of it, stays backed.
LEMMA WriterBacks ==
  ASSUME IInv, Backed, NEW n \in Node \ crashed, NEW b \in Node \ crashed,
         <<n, b>> \in Link, NEW t \in Table, NEW to,
         KeepsOrPoisons(crashed, table[n], t),
         b \notin to => Keeps(table[n], t)
  PROVE  LET q == IF b \in to THEN Append(chan[n][b], Update(Advertise(t, b)))
                              ELSE chan[n][b]
         IN  /\ BackedMessages(crashed, q, t)
             /\ BackedRoutes(crashed, table[b], b, n, q, t)
<1>1. /\ chan[n][b] \in Seq(Message)
      /\ table[n] \in Table /\ table[b] \in Table
      /\ BackedMessages(crashed, chan[n][b], table[n])
      /\ BackedRoutes(crashed, table[b], b, n, chan[n][b], table[n])
  BY Typed DEF Backed
<1>2. CASE b \in to
  BY <1>1, <1>2, MessagesAppend, RoutesAppend
<1>3. CASE b \notin to
  BY <1>1, <1>3, MessagesKeep, RoutesKeep
<1>4. QED
  BY <1>2, <1>3

\* A neighbour that is not told of a change is one that lost nothing.
LEMMA UntoldLoseNothing ==
  ASSUME IInv, Forming, NEW n \in Node \ crashed, NEW b \in Node \ crashed,
         <<n, b>> \in Link, NEW t,
         KeepsOrPoisons(crashed, table[n], t), b \notin neighbourList[n]
  PROVE  Keeps(table[n], t)
<1>1. crashed = {}
  BY DEF Forming, Formed, LinkedTo
<1>2. QED
  BY <1>1 DEF Keeps, KeepsOrPoisons

\* The channels after n has read from s and written the table t to some nodes.
LEMMA ReplyForms ==
  ASSUME IInv, Forming, NEW n \in Node, NEW s \in Node, s # n,
         chan[s][n] # <<>>, NEW t \in Table, NEW to
  PROVE  LET c == Replied(s, n, t, to)
         IN  /\ c[s][n] = Tail(chan[s][n])
             /\ \A b \in Node :
                  c[n][b] = IF b \in to THEN Append(chan[n][b], Update(Advertise(t, b)))
                                        ELSE chan[n][b]
             /\ \A a, b \in Node : (a # n /\ ~(a = s /\ b = n)) => c[a][b] = chan[a][b]
             /\ \A a, b \in Node : HelloFirst(c[a][b])
             /\ \A a, b \in Node : NoHello(chan[a][b]) => NoHello(c[a][b])
             /\ NoHello(c[s][n])
             /\ \A a, b \in Node : (~(a = s /\ b = n) /\ HasUpdate(chan[a][b]))
                                      => HasUpdate(c[a][b])
             /\ \A b \in Node : b \in to => HasUpdate(c[n][b])
<1> DEFINE c == Replied(s, n, t, to)
<1>1. /\ c[s][n] = Tail(chan[s][n])
      /\ \A b \in Node :
           c[n][b] = IF b \in to THEN Append(chan[n][b], Update(Advertise(t, b)))
                                 ELSE chan[n][b]
      /\ \A a, b \in Node : (a # n /\ ~(a = s /\ b = n)) => c[a][b] = chan[a][b]
  BY DEF Replied
<1> HIDE DEF c
<1>2. ASSUME NEW a \in Node, NEW b \in Node
      PROVE  /\ HelloFirst(c[a][b])
             /\ NoHello(chan[a][b]) => NoHello(c[a][b])
             /\ a = s /\ b = n => NoHello(c[a][b])
             /\ (~(a = s /\ b = n) /\ HasUpdate(chan[a][b])) => HasUpdate(c[a][b])
             /\ a = n /\ b \in to => HasUpdate(c[a][b])
  <2>1. chan[a][b] \in Seq(Message) /\ HelloFirst(chan[a][b])
    BY Typed DEF Forming
  <2>2. CASE a = s /\ b = n
    BY <1>1, <2>1, <2>2, TailForms
  <2>3. CASE a = n /\ b \in to
    BY <1>1, <2>1, <2>3, AppendedUpdate
  <2>4. CASE ~(a = s /\ b = n) /\ ~(a = n /\ b \in to)
    <3>1. c[a][b] = chan[a][b]
      BY <1>1, <2>4
    <3>2. QED
      BY <2>1, <2>4, <3>1
  <2>5. QED
    BY <2>2, <2>3, <2>4
<1>3. QED
  BY <1>1, <1>2 DEF c

\* The same without reading.
LEMMA AnnounceForms ==
  ASSUME IInv, Forming, NEW n \in Node, NEW t \in Table, NEW to
  PROVE  LET c == Announced(n, t, to)
         IN  /\ \A b \in Node :
                  c[n][b] = IF b \in to THEN Append(chan[n][b], Update(Advertise(t, b)))
                                        ELSE chan[n][b]
             /\ \A a, b \in Node : a # n => c[a][b] = chan[a][b]
             /\ \A a, b \in Node : HelloFirst(c[a][b])
             /\ \A a, b \in Node : NoHello(chan[a][b]) => NoHello(c[a][b])
             /\ \A a, b \in Node : HasUpdate(chan[a][b]) => HasUpdate(c[a][b])
<1> DEFINE c == Announced(n, t, to)
<1>1. /\ \A b \in Node :
           c[n][b] = IF b \in to THEN Append(chan[n][b], Update(Advertise(t, b)))
                                 ELSE chan[n][b]
      /\ \A a, b \in Node : a # n => c[a][b] = chan[a][b]
  BY Typed DEF Announced
<1> HIDE DEF c
<1>2. ASSUME NEW a \in Node, NEW b \in Node
      PROVE  /\ HelloFirst(c[a][b])
             /\ NoHello(chan[a][b]) => NoHello(c[a][b])
             /\ HasUpdate(chan[a][b]) => HasUpdate(c[a][b])
  <2>1. chan[a][b] \in Seq(Message) /\ HelloFirst(chan[a][b])
    BY Typed DEF Forming
  <2>2. CASE a = n /\ b \in to
    BY <1>1, <2>1, <2>2, AppendedUpdate
  <2>3. CASE ~(a = n /\ b \in to)
    <3>1. c[a][b] = chan[a][b]
      BY <1>1, <2>3
    <3>2. QED
      BY <2>1, <3>1
  <2>4. QED
    BY <2>2, <2>3
<1>3. QED
  BY <1>1, <1>2 DEF c

\* An UPDATE makes its sender, and nobody else, a neighbour.
LEMMA SenderIsNeighbour ==
  ASSUME IInv, NEW n \in Node, NEW s \in Node, process[n] = "running",
         chan[s][n] # <<>>, Head(chan[s][n]).type = "UPDATE"
  PROVE  LET adv == Head(chan[s][n]).adv
         IN  /\ <<s, n>> \in Link /\ s # n /\ adv \in Advertisement
             /\ NewNeighbours(table[n], adv, s) \subseteq {s}
             /\ s \in neighbourList[n] \/ s \in NewNeighbours(table[n], adv, s)
             /\ s \in NewNeighbours(table[n], adv, s) => Changed(table[n], adv, s)
<1> DEFINE msg == Head(chan[s][n])
           adv == msg.adv
<1>1. msg \in SoundMessage(s, n)
  BY HeadTailProperties DEF IInv, SoundChannels
<1>2. /\ <<s, n>> \in Link /\ msg \in Message
      /\ \A d \in Node : adv[d] = 0 <=> d = s
  BY <1>1 DEF SoundMessage
<1>3. s # n
  BY <1>2, LinkAssumption
<1>4. adv \in Advertisement
  BY <1>2 DEF Message
<1>5. NewNeighbours(table[n], adv, s) \subseteq {s}
  BY <1>2 DEF NewNeighbours
<1>6. s \in neighbourList[n] \/ s \in NewNeighbours(table[n], adv, s)
  <2>1. SoundTable(n, table[n]) /\ Consistent(n, table[n], neighbourList[n])
    BY DEF IInv, SoundDaemon
  <2>2. adv[s] = 0 /\ 0 # Infinity /\ 0 # NoEntry /\ 0 \in Cost
    BY <1>2, InfinityAssumption, NoEntryAssumption DEF Cost
  <2>3. CASE table[n][s] = NoEntry
    BY <2>2, <2>3 DEF NewNeighbours, Adds
  <2>4. CASE table[n][s] # NoEntry
    <3>1. table[n][s] \in Entry /\ SoundEntry(n, s, table[n][s])
      BY <2>1, <2>4 DEF SoundTable, HasEntry, Table
    <3>2. table[n][s].cost \in Cost /\ table[n][s].cost # 0
      BY <1>3, <3>1 DEF SoundEntry, Entry
    <3>3. CASE table[n][s].cost = 1
      <4>1. table[n][s].next = s
        BY <3>1, <3>3 DEF SoundEntry
      <4>2. table[n][s] = [cost |-> 1, next |-> s]
        BY <3>1, <3>3, <4>1 DEF Entry
      <4>3. QED
        BY <2>1, <4>2 DEF Consistent
    <3>4. CASE table[n][s].cost # 1
      <4>1. 0 + 1 < table[n][s].cost
        BY <3>2, <3>4, InfinityAssumption DEF Cost
      <4>2. Improves(table[n][s], adv[s])
        BY <2>2, <2>4, <4>1 DEF Improves
      <4>3. QED
        BY <2>2, <4>2 DEF NewNeighbours
    <3>5. QED
      BY <3>3, <3>4
  <2>5. QED
    BY <2>3, <2>4
<1>7. s \in NewNeighbours(table[n], adv, s) => Changed(table[n], adv, s)
  BY DEF NewNeighbours, Changed
<1>8. QED
  BY <1>2, <1>3, <1>4, <1>5, <1>6, <1>7

-----------------------------------------------------------------------------
(* Every step keeps the network forming and its paths backed.              *)

LEMMA HandleHelloBacks ==
  ASSUME IInv, Forming, Backed, NEW n \in Node, NEW s \in Node, HandleHello(n, s)
  PROVE  Forming' /\ Backed'
<1>1. /\ process[n] = "running" /\ chan[s][n] # <<>>
      /\ Head(chan[s][n]).type = "HELLO"
      /\ overdue' = [overdue EXCEPT ![n] = @ \ {s}]
      /\ chan' = Replied(s, n, table[n], {s})
      /\ UNCHANGED <<process, table, neighbourList, crashed>>
  BY DEF HandleHello, Next2Read, faultVars
<1>2. /\ <<s, n>> \in Link /\ s # n /\ n \notin crashed /\ table[n] \in Table
      /\ chan[s][n] \in Seq(Message)
  BY <1>1, Typed, LinkAssumption DEF Forming
<1> DEFINE c == Replied(s, n, table[n], {s})
<1>3. /\ c[s][n] = Tail(chan[s][n])
      /\ \A b \in Node :
           c[n][b] = IF b \in {s}
                     THEN Append(chan[n][b], Update(Advertise(table[n], b)))
                     ELSE chan[n][b]
      /\ \A a, b \in Node : (a # n /\ ~(a = s /\ b = n)) => c[a][b] = chan[a][b]
      /\ \A a, b \in Node : HelloFirst(c[a][b])
      /\ \A a, b \in Node : NoHello(chan[a][b]) => NoHello(c[a][b])
      /\ \A a, b \in Node : (~(a = s /\ b = n) /\ HasUpdate(chan[a][b]))
                               => HasUpdate(c[a][b])
  BY <1>1, <1>2, ReplyForms
<1> HIDE DEF c
<1>4. chan' = c
  BY <1>1 DEF c
<1>5. Forming'
  <2>1. (crashed # {} => Formed)'
    BY <1>1, <1>3, <1>4 DEF Forming, Formed, LinkedTo
  <2>2. (\A m \in Node : overdue[m] \subseteq crashed)'
    BY <1>1, Typed DEF Forming
  <2>3. ASSUME NEW a \in Node \ crashed, NEW b \in Node, process[a] # "running"
        PROVE  c[a][b] = <<>> /\ a \notin neighbourList[b]
    BY <1>1, <1>3, <2>3 DEF Forming
  <2>4. ASSUME NEW a \in Node, NEW b \in Node, a \in neighbourList[b] \ crashed
        PROVE  b \in neighbourList[a] \/ HasUpdate(c[b][a])
    <3>1. b \in neighbourList[a] \/ HasUpdate(chan[b][a])
      BY <2>4 DEF Forming
    <3>2. CASE b = s /\ a = n
      BY <1>1, <1>2, <1>3, <3>1, <3>2, TailForms
    <3>3. CASE ~(b = s /\ a = n)
      BY <1>3, <3>1, <3>3
    <3>4. QED
      BY <3>2, <3>3
  <2>5. (\A m \in crashed : process[m] = "down")'
    BY <1>1 DEF Forming
  <2>6. ASSUME NEW a \in Node, NEW b \in Node, a \in neighbourList[b]
        PROVE  NoHello(c[a][b])
    BY <1>3, <2>6 DEF Forming
  <2>7. crashed' = crashed /\ process' = process /\ neighbourList' = neighbourList
    BY <1>1
  <2>8. \A a, b \in Node : HelloFirst(c[a][b])
    BY <1>3
  <2>9. QED
    BY <1>4, <2>1, <2>2, <2>3, <2>4, <2>5, <2>6, <2>7, <2>8 DEF Forming
<1>6. ASSUME NEW a \in Node \ crashed, NEW b \in Node \ crashed, <<a, b>> \in Link
      PROVE  /\ BackedMessages(crashed, c[a][b], table[a])
             /\ BackedRoutes(crashed, table[b], b, a, c[a][b], table[a])
  <2>1. /\ BackedMessages(crashed, chan[a][b], table[a])
        /\ BackedRoutes(crashed, table[b], b, a, chan[a][b], table[a])
    BY <1>6 DEF Backed
  <2>2. CASE a = n
    <3>1. Keeps(table[n], table[n]) /\ KeepsOrPoisons(crashed, table[n], table[n])
      BY <1>2, KeepsItself DEF Keeps, KeepsOrPoisons
    <3>2. c[a][b] = IF b \in {s}
                    THEN Append(chan[n][b], Update(Advertise(table[n], b)))
                    ELSE chan[n][b]
      BY <1>3, <2>2
    <3>3. QED
      BY <1>2, <1>6, <2>2, <3>1, <3>2, WriterBacks
  <2>3. CASE a = s /\ b = n
    <3>1. Head(chan[s][n]).type # "UPDATE"
      BY <1>1
    <3>2. QED
      BY <1>1, <1>2, <1>3, <2>1, <2>3, <3>1, MessagesTail, RoutesTail
  <2>4. CASE a # n /\ ~(a = s /\ b = n)
    BY <1>3, <2>1, <2>4
  <2>5. QED
    BY <2>2, <2>3, <2>4
<1>7. Backed'
  BY <1>1, <1>4, <1>6 DEF Backed
<1>8. QED
  BY <1>5, <1>7

LEMMA HandleUpdateBacks ==
  ASSUME IInv, Forming, Backed, NEW n \in Node, NEW s \in Node, HandleUpdate(n, s)
  PROVE  Forming' /\ Backed'
<1> DEFINE adv == Head(chan[s][n]).adv
           t   == MergeUpdate(table[n], adv, s)
           nbs == neighbourList[n] \cup NewNeighbours(table[n], adv, s)
           to  == IF Changed(table[n], adv, s) THEN nbs ELSE {}
           c   == Replied(s, n, t, to)
<1>1. /\ process[n] = "running" /\ chan[s][n] # <<>>
      /\ Head(chan[s][n]).type = "UPDATE"
      /\ table' = [table EXCEPT ![n] = t]
      /\ neighbourList' = [neighbourList EXCEPT ![n] = nbs]
      /\ chan' = c
      /\ UNCHANGED <<process, overdue, crashed>>
  BY DEF HandleUpdate, Next2Read, faultVars
<1>2. /\ <<s, n>> \in Link /\ s # n /\ adv \in Advertisement
      /\ NewNeighbours(table[n], adv, s) \subseteq {s}
      /\ s \in neighbourList[n] \/ s \in NewNeighbours(table[n], adv, s)
      /\ s \in NewNeighbours(table[n], adv, s) => Changed(table[n], adv, s)
  BY <1>1, SenderIsNeighbour
<1>3. /\ n \notin crashed /\ table[n] \in Table
      /\ chan[s][n] \in Seq(Message)
  BY <1>1, Typed DEF Forming
<1>4. t \in Table
  <2>1. Head(chan[s][n]) \in SoundMessage(s, n)
    BY <1>1, HeadTailProperties DEF IInv, SoundChannels
  <2>2. /\ SoundTable(n, table[n]) /\ Consistent(n, table[n], neighbourList[n])
        /\ neighbourList[n] \subseteq Node
        /\ Head(chan[s][n]).type = "UPDATE"
    BY <1>1, Typed DEF IInv, SoundDaemon
  <2> HIDE DEF c
  <2>3. SoundTable(n, t)
    BY <2>1, <2>2, MergeSound
  <2>4. QED
    BY <2>3 DEF SoundTable
<1>5. KeepsOrPoisons(crashed, table[n], t)
  <2>1. table[n][n].next = n
    <3>1. process[n] = "running"
      BY <1>1
    <3>2. table[n][n] = [cost |-> 0, next |-> n]
      BY <3>1 DEF IInv, SoundDaemon, SoundTable
    <3>3. QED
      BY <3>2
  <2>2. crashed = {} => BackedRoutes(crashed, table[n], n, s, chan[s][n], table[s])
    BY <1>2 DEF Backed
  <2>3. QED
    BY <1>1, <1>2, <1>3, <2>1, <2>2, UpdateKeepsOrPoisons
<1> HIDE DEF adv
<1>6. /\ s \in nbs /\ nbs \subseteq neighbourList[n] \cup {s}
      /\ neighbourList[n] \subseteq nbs
      /\ s \in neighbourList[n] \/ s \in to
      /\ to \subseteq nbs
      /\ to # nbs => t = table[n]
  BY <1>2, <1>3, UnchangedUpdate
<1> HIDE DEF t, nbs, to, c
<1>7. /\ c[s][n] = Tail(chan[s][n])
      /\ \A b \in Node :
           c[n][b] = IF b \in to THEN Append(chan[n][b], Update(Advertise(t, b)))
                                 ELSE chan[n][b]
      /\ \A a, b \in Node : (a # n /\ ~(a = s /\ b = n)) => c[a][b] = chan[a][b]
      /\ \A a, b \in Node : HelloFirst(c[a][b])
      /\ \A a, b \in Node : NoHello(chan[a][b]) => NoHello(c[a][b])
      /\ NoHello(c[s][n])
      /\ \A a, b \in Node : (~(a = s /\ b = n) /\ HasUpdate(chan[a][b]))
                               => HasUpdate(c[a][b])
      /\ \A b \in Node : b \in to => HasUpdate(c[n][b])
  BY <1>1, <1>2, <1>4, ReplyForms DEF c
<1>8. /\ \A m \in Node : neighbourList[m] \subseteq neighbourList'[m]
      /\ \A m \in Node : m # n => neighbourList'[m] = neighbourList[m]
      /\ neighbourList'[n] = nbs
      /\ \A m \in Node : m # n => table'[m] = table[m]
      /\ table'[n] = t
  BY <1>1, <1>6, Typed
<1>9. s \in crashed \/ process[s] = "running"
  BY <1>1 DEF Forming
<1>10. Forming'
  <2>1. (crashed # {} => Formed)'
    BY <1>1, <1>7, <1>8 DEF Forming, Formed, LinkedTo
  <2>2. ASSUME NEW a \in Node \ crashed, NEW b \in Node, process[a] # "running"
        PROVE  c[a][b] = <<>> /\ a \notin neighbourList'[b]
    <3>1. chan[a][b] = <<>> /\ a \notin neighbourList[b] /\ a # n /\ a # s
      BY <1>1, <1>9, <2>2 DEF Forming
    <3>2. QED
      BY <1>6, <1>7, <1>8, <3>1
  <2>3. ASSUME NEW a \in Node, NEW b \in Node, a \in neighbourList'[b]
        PROVE  NoHello(c[a][b])
    <3>1. CASE a = s /\ b = n
      BY <1>7, <3>1
    <3>2. CASE ~(a = s /\ b = n)
      <4>1. a \in neighbourList[b]
        BY <1>6, <1>8, <2>3, <3>2
      <4>2. QED
        BY <1>7, <4>1 DEF Forming
    <3>3. QED
      BY <3>1, <3>2
  <2>4. ASSUME NEW a \in Node, NEW b \in Node, a \in neighbourList'[b] \ crashed
        PROVE  b \in neighbourList'[a] \/ HasUpdate(c[b][a])
    <3>1. CASE a \notin neighbourList[b]
      <4>1. a = s /\ b = n /\ s \in to
        BY <1>6, <1>8, <2>4, <3>1
      <4>2. QED
        BY <1>7, <4>1
    <3>2. CASE a \in neighbourList[b] /\ b = s /\ a = n
      BY <1>6, <1>8, <3>2
    <3>3. CASE a \in neighbourList[b] /\ ~(b = s /\ a = n)
      <4>1. b \in neighbourList[a] \/ HasUpdate(chan[b][a])
        BY <2>4, <3>3 DEF Forming
      <4>2. QED
        BY <1>7, <1>8, <3>3, <4>1
    <3>4. QED
      BY <3>1, <3>2, <3>3
  <2>5. (\A m \in crashed : process[m] = "down")'
    BY <1>1 DEF Forming
  <2>6. (\A m \in Node : overdue[m] \subseteq crashed)'
    BY <1>1 DEF Forming
  <2>7. QED
    BY <1>1, <1>7, <2>1, <2>2, <2>3, <2>4, <2>5, <2>6 DEF Forming
<1>11. ASSUME NEW a \in Node \ crashed, NEW b \in Node \ crashed, <<a, b>> \in Link
       PROVE  /\ BackedMessages(crashed, c[a][b], table'[a])
              /\ BackedRoutes(crashed, table'[b], b, a, c[a][b], table'[a])
  <2>1. /\ BackedMessages(crashed, chan[a][b], table[a])
        /\ BackedRoutes(crashed, table[b], b, a, chan[a][b], table[a])
        /\ a # b /\ table[a] \in Table
    BY <1>11, LinkAssumption, Typed DEF Backed
  <2>2. CASE a = n
    <3>1. b \notin to => Keeps(table[n], t)
      <4>1. CASE to # nbs
        BY <1>3, <1>6, <4>1, KeepsItself
      <4>2. CASE to = nbs
        BY <1>3, <1>5, <1>6, <1>11, <2>2, <4>2, UntoldLoseNothing
      <4>3. QED
        BY <4>1, <4>2
    <3>2. c[a][b] = IF b \in to THEN Append(chan[n][b], Update(Advertise(t, b)))
                                ELSE chan[n][b]
      BY <1>7, <2>2
    <3>3. table'[a] = t /\ table'[b] = table[b]
      BY <1>8, <2>1, <2>2
    <3>4. QED
      BY <1>3, <1>4, <1>5, <1>11, <2>2, <3>1, <3>2, <3>3, WriterBacks
  <2>3. CASE a = s /\ b = n
    <3>1. table'[a] = table[a] /\ table'[b] = t /\ c[a][b] = Tail(chan[a][b])
      BY <1>7, <1>8, <2>1, <2>3
    <3>2. BackedMessages(crashed, Tail(chan[a][b]), table[a])
      BY <1>1, <1>3, <2>1, <2>3, MessagesTail
    <3>3. BackedRoutes(crashed, t, n, s, Tail(chan[s][n]), table[s])
      BY <1>1, <1>3, <2>1, <2>3, RoutesLearn DEF t, adv
    <3>4. QED
      BY <2>3, <3>1, <3>2, <3>3
  <2>4. CASE b = n /\ a # s
    <3>1. table'[a] = table[a] /\ table'[b] = t /\ c[a][b] = chan[a][b]
      BY <1>7, <1>8, <2>1, <2>4
    <3>2. BackedRoutes(crashed, t, n, a, chan[a][n], table[a])
      BY <1>2, <1>3, <2>1, <2>4, RoutesOfOthers DEF t
    <3>3. QED
      BY <2>1, <2>4, <3>1, <3>2
  <2>5. CASE a # n /\ b # n
    <3>1. table'[a] = table[a] /\ table'[b] = table[b] /\ c[a][b] = chan[a][b]
      BY <1>7, <1>8, <2>5
    <3>2. QED
      BY <2>1, <3>1
  <2>6. QED
    BY <2>2, <2>3, <2>4, <2>5
<1>12. Backed'
  BY <1>1, <1>11 DEF Backed
<1>13. QED
  BY <1>10, <1>12

LEMMA HandleKeepAliveBacks ==
  ASSUME IInv, Forming, Backed, NEW n \in Node, NEW s \in Node, HandleKeepAlive(n, s)
  PROVE  Forming' /\ Backed'
<1>1. /\ overdue' = [overdue EXCEPT ![n] = @ \ {s}]
      /\ UNCHANGED <<process, table, neighbourList, chan, crashed>>
  BY DEF HandleKeepAlive, faultVars
<1>2. (\A m \in Node : overdue[m] \subseteq crashed)'
  BY <1>1, Typed DEF Forming
<1>3. (crashed # {} => Formed)'
  BY <1>1 DEF Forming, Formed, LinkedTo
<1>4. QED
  BY <1>1, <1>2, <1>3 DEF Forming, Backed

LEMMA AlarmBacks ==
  ASSUME IInv, Forming, Backed, NEW n \in Node, Alarm(n)
  PROVE  Forming' /\ Backed'
<1> DEFINE t   == RemoveFromRouting(table[n], overdue[n])
           nbs == neighbourList[n] \ overdue[n]
           to  == IF overdue[n] # {} THEN nbs ELSE {}
           c   == Announced(n, t, to)
<1>1. /\ process[n] = "running"
      /\ table' = [table EXCEPT ![n] = t]
      /\ neighbourList' = [neighbourList EXCEPT ![n] = nbs]
      /\ overdue' = [overdue EXCEPT ![n] = {}]
      /\ chan' = c
      /\ UNCHANGED <<process, crashed>>
  BY DEF Alarm, ControlTime, faultVars
<1>2. /\ n \notin crashed /\ table[n] \in Table
      /\ overdue[n] \subseteq crashed
      /\ neighbourList[n] \subseteq Node
      /\ overdue[n] \subseteq neighbourList[n]
  BY <1>1, Typed DEF Forming, IInv, SoundDaemon
<1>3. /\ t \in Table /\ KeepsOrPoisons(crashed, table[n], t)
      /\ \A b, a \in Node : \A q, u : BackedRoutes(crashed, table[n], b, a, q, u) =>
                                     BackedRoutes(crashed, t, b, a, q, u)
  <2>1. SoundTable(n, table[n]) /\ Consistent(n, table[n], neighbourList[n])
    BY <1>1 DEF IInv, SoundDaemon
  <2> HIDE DEF c
  <2>2. SoundTable(n, t)
    BY <1>2, <2>1, DismissSound
  <2>3. QED
    BY <1>2, <2>2, RemoveKeepsOrPoisons DEF SoundTable
<1>4. overdue[n] = {} => t = table[n]
  <2>1. ASSUME overdue[n] = {} PROVE t = table[n]
    <3>1. t = [d \in Node |-> table[n][d]]
      BY <2>1 DEF RemoveFromRouting
    <3>2. QED
      BY <1>2, <3>1 DEF Table
  <2>2. QED
    BY <2>1
<1>5. /\ nbs \subseteq neighbourList[n]
      /\ neighbourList[n] \ crashed \subseteq nbs
      /\ to = nbs \/ t = table[n]
  BY <1>2, <1>4
<1> HIDE DEF t, nbs, to, c
<1>6. /\ \A b \in Node :
           c[n][b] = IF b \in to THEN Append(chan[n][b], Update(Advertise(t, b)))
                                 ELSE chan[n][b]
      /\ \A a, b \in Node : a # n => c[a][b] = chan[a][b]
      /\ \A a, b \in Node : HelloFirst(c[a][b])
      /\ \A a, b \in Node : NoHello(chan[a][b]) => NoHello(c[a][b])
      /\ \A a, b \in Node : HasUpdate(chan[a][b]) => HasUpdate(c[a][b])
  BY <1>3, AnnounceForms DEF c
<1>7. /\ \A m \in Node : neighbourList'[m] \subseteq neighbourList[m]
      /\ \A m \in Node : neighbourList[m] \ crashed \subseteq neighbourList'[m]
      /\ \A m \in Node : m # n => table'[m] = table[m]
      /\ table'[n] = t
  BY <1>1, <1>5, Typed
<1>8. Forming'
  <2>1. (crashed # {} => Formed)'
    BY <1>1, <1>6, <1>7 DEF Forming, Formed, LinkedTo
  <2>2. (\A m \in Node : overdue[m] \subseteq crashed)'
    BY <1>1, Typed DEF Forming
  <2>3. ASSUME NEW a \in Node \ crashed, NEW b \in Node, process[a] # "running"
        PROVE  c[a][b] = <<>> /\ a \notin neighbourList'[b]
    BY <1>1, <1>6, <1>7, <2>3 DEF Forming
  <2>4. ASSUME NEW a \in Node, NEW b \in Node, a \in neighbourList'[b]
        PROVE  NoHello(c[a][b])
    BY <1>6, <1>7, <2>4 DEF Forming
  <2>5. ASSUME NEW a \in Node, NEW b \in Node, a \in neighbourList'[b] \ crashed
        PROVE  b \in neighbourList'[a] \/ HasUpdate(c[b][a])
    <3>1. a \in neighbourList[b]
      BY <1>7, <2>5
    <3>2. b \notin crashed
      BY <3>1 DEF Forming, IInv, SoundDaemon
    <3>3. b \in neighbourList[a] \/ HasUpdate(chan[b][a])
      BY <2>5, <3>1 DEF Forming
    <3>4. QED
      BY <1>6, <1>7, <3>2, <3>3
  <2>6. (\A m \in crashed : process[m] = "down")'
    BY <1>1 DEF Forming
  <2>7. QED
    BY <1>1, <1>6, <2>1, <2>2, <2>3, <2>4, <2>5, <2>6 DEF Forming
<1>9. ASSUME NEW a \in Node \ crashed, NEW b \in Node \ crashed, <<a, b>> \in Link
      PROVE  /\ BackedMessages(crashed, c[a][b], table'[a])
             /\ BackedRoutes(crashed, table'[b], b, a, c[a][b], table'[a])
  <2>1. /\ BackedMessages(crashed, chan[a][b], table[a])
        /\ BackedRoutes(crashed, table[b], b, a, chan[a][b], table[a])
        /\ a # b /\ table[a] \in Table
    BY <1>9, LinkAssumption, Typed DEF Backed
  <2>2. CASE a = n
    <3>1. b \notin to => Keeps(table[n], t)
      <4>1. CASE t = table[n]
        BY <1>2, <4>1, KeepsItself
      <4>2. CASE to = nbs
        <5>1. b \notin to => b \notin neighbourList[n]
          BY <1>5, <4>2
        <5>2. QED
          BY <1>2, <1>3, <1>9, <2>2, <5>1, UntoldLoseNothing
      <4>3. QED
        BY <1>5, <4>1, <4>2
    <3>2. c[a][b] = IF b \in to THEN Append(chan[n][b], Update(Advertise(t, b)))
                                ELSE chan[n][b]
      BY <1>6, <2>2
    <3>3. table'[a] = t /\ table'[b] = table[b]
      BY <1>7, <2>1, <2>2
    <3>4. QED
      BY <1>2, <1>3, <1>9, <2>2, <3>1, <3>2, <3>3, WriterBacks
  <2>3. CASE a # n
    <3>1. table'[a] = table[a] /\ c[a][b] = chan[a][b]
      BY <1>6, <1>7, <2>3
    <3>2. BackedRoutes(crashed, table'[b], b, a, chan[a][b], table[a])
      BY <1>3, <1>7, <2>1
    <3>3. QED
      BY <2>1, <3>1, <3>2
  <2>4. QED
    BY <2>2, <2>3
<1>10. Backed'
  BY <1>1, <1>9 DEF Backed
<1>11. QED
  BY <1>8, <1>10

LEMMA StartBacks ==
  ASSUME IInv, Forming, Backed, MayRestart = {}, NEW n \in Node, Start(n)
  PROVE  Forming' /\ Backed'
<1>1. /\ process[n] = "down" /\ n \notin crashed
      /\ process' = [process EXCEPT ![n] = "connected"]
      /\ UNCHANGED <<table, neighbourList, overdue, chan, crashed>>
  BY DEF Start, daemonVars, faultVars
<1>2. crashed = {}
  BY <1>1 DEF Forming, Formed
<1>3. \A m \in Node : process'[m] # "running" => process[m] # "running"
  BY <1>1, Typed
<1>4. Forming'
  BY <1>1, <1>2, <1>3 DEF Forming
<1>5. QED
  BY <1>1, <1>4 DEF Backed

LEMMA HandleHandshakeReplyBacks ==
  ASSUME IInv, Forming, Backed, NEW n \in Node, HandleHandshakeReply(n)
  PROVE  Forming' /\ Backed'
<1>1. /\ process[n] = "connected"
      /\ process' = [process EXCEPT ![n] = "running"]
      /\ table' = [table EXCEPT ![n][n] = [cost |-> 0, next |-> n]]
      /\ chan' = [chan EXCEPT ![n] = [b \in Node |->
                    IF b \in LinkedTo(n) THEN Append(chan[n][b], Hello)
                                         ELSE chan[n][b]]]
      /\ UNCHANGED <<neighbourList, overdue, crashed>>
  BY DEF HandleHandshakeReply, faultVars
<1>2. n \notin crashed /\ crashed = {}
  BY <1>1 DEF Forming, Formed
<1>3. /\ \A b \in Node : chan[n][b] = <<>> /\ n \notin neighbourList[b]
      /\ neighbourList[n] = {} /\ table[n] = EmptyTable
  BY <1>1, <1>2 DEF Forming, IInv, SoundDaemon
<1>4. /\ \A b \in Node : chan'[n][b] = IF b \in LinkedTo(n) THEN <<Hello>> ELSE <<>>
      /\ \A a, b \in Node : a # n => chan'[a][b] = chan[a][b]
  <2>1. chan \in [Node -> [Node -> Seq(Message)]]
    BY Typed
  <2>2. chan'[n] = [b \in Node |-> IF b \in LinkedTo(n) THEN Append(chan[n][b], Hello)
                                                        ELSE chan[n][b]]
    BY <1>1, <2>1
  <2>3. Append(<<>>, Hello) = <<Hello>>
    OBVIOUS
  <2>4. \A b \in Node : chan'[n][b] = IF b \in LinkedTo(n) THEN <<Hello>> ELSE <<>>
    BY <1>3, <2>2, <2>3
  <2>5. \A a, b \in Node : a # n => chan'[a][b] = chan[a][b]
    BY <1>1, <2>1
  <2>6. QED
    BY <2>4, <2>5
<1>5. /\ \A m \in Node : m # n => table'[m] = table[m]
      /\ \A d \in Node : d # n => table'[n][d] = NoEntry
      /\ \A m \in Node : process'[m] # "running" => process[m] # "running"
  BY <1>1, <1>3, Typed DEF EmptyTable
<1>6. ASSUME NEW b \in Node
      PROVE  /\ HelloFirst(chan'[n][b])
             /\ \A t : BackedMessages({}, chan'[n][b], t)
  <2>1. Len(<<Hello>>) = 1 /\ <<Hello>>[1] = Hello /\ Hello.type = "HELLO"
    BY DEF Hello
  <2>2. CASE b \in LinkedTo(n)
    <3>1. chan'[n][b] = <<Hello>>
      BY <1>4, <2>2
    <3>2. \A i \in 1 .. Len(<<Hello>>) : i = 1
      BY <2>1
    <3>3. QED
      BY <2>1, <3>1, <3>2 DEF HelloFirst, BackedMessages
  <2>3. CASE b \notin LinkedTo(n)
    <3>1. chan'[n][b] = <<>>
      BY <1>4, <2>3
    <3>2. QED
      BY <3>1 DEF HelloFirst, BackedMessages
  <2>4. QED
    BY <2>2, <2>3
<1>7. Forming'
  <2>1. ASSUME NEW a \in Node, NEW b \in Node
        PROVE  /\ HelloFirst(chan'[a][b])
               /\ a \in neighbourList[b] => NoHello(chan'[a][b])
               /\ (a \notin crashed /\ process'[a] # "running") =>
                    chan'[a][b] = <<>> /\ a \notin neighbourList[b]
               /\ a \in neighbourList[b] \ crashed =>
                    b \in neighbourList[a] \/ HasUpdate(chan'[b][a])
    <3>1. CASE a = n
      <4>1. process'[a] = "running"
        BY <1>1, <3>1, Typed
      <4>2. QED
        BY <1>3, <1>6, <3>1, <4>1
    <3>2. CASE a # n /\ b = n
      BY <1>3, <1>4, <1>5, <3>2 DEF Forming
    <3>3. CASE a # n /\ b # n
      BY <1>4, <1>5, <3>3 DEF Forming
    <3>4. QED
      BY <3>1, <3>2, <3>3
  <2>2. (\A m \in Node : overdue[m] \subseteq crashed)'
    BY <1>1 DEF Forming
  <2>3. crashed' = {} /\ neighbourList' = neighbourList
    BY <1>1, <1>2
  <2>4. QED
    BY <1>2, <2>1, <2>2, <2>3 DEF Forming
<1>8. ASSUME NEW a \in Node, NEW b \in Node, <<a, b>> \in Link
      PROVE  /\ BackedMessages({}, chan'[a][b], table'[a])
             /\ BackedRoutes({}, table'[b], b, a, chan'[a][b], table'[a])
  <2>1. /\ BackedMessages({}, chan[a][b], table[a])
        /\ BackedRoutes({}, table[b], b, a, chan[a][b], table[a])
    BY <1>2, <1>8 DEF Backed
  <2>2. BackedMessages({}, chan'[a][b], table'[a])
    BY <1>4, <1>5, <1>6, <2>1
  <2>3. BackedRoutes({}, table'[b], b, a, chan'[a][b], table'[a])
    <3>1. CASE b = n
      BY <1>5, <3>1 DEF BackedRoutes, HasRoute, HasEntry
    <3>2. CASE b # n /\ a # n
      BY <1>4, <1>5, <2>1, <3>2
    <3>3. CASE b # n /\ a = n
      <4>1. ASSUME NEW d \in Node \ {b}, HasRoute(table[b], d), table[b][d].next = n
            PROVE  FALSE
        <5>1. n \in neighbourList[b]
          BY <4>1, IInvImplies DEF RoutesUseNeighbours, FindNextHop
        <5>2. QED
          BY <1>3, <5>1
      <4>2. table'[b] = table[b]
        BY <1>5, <3>3
      <4>3. QED
        BY <3>3, <4>1, <4>2 DEF BackedRoutes
    <3>4. QED
      BY <3>1, <3>2, <3>3
  <2>4. QED
    BY <2>2, <2>3
<1>9. Backed'
  BY <1>1, <1>2, <1>8 DEF Backed
<1>10. QED
  BY <1>7, <1>9

LEMMA CrashBacks ==
  ASSUME IInv, Forming, Backed, Formed, NEW n \in Node, Crash(n)
  PROVE  Forming' /\ Backed'
<1>1. PICK kept \in [Node -> 0 .. MaxChan] :
        /\ \A d \in Node : kept[d] <= Len(chan[n][d])
        /\ chan' = [chan EXCEPT ![n] = [d \in Node |-> SubSeq(chan[n][d], 1, kept[d])]]
  BY DEF Crash
<1>2. /\ crashed' = crashed \cup {n}
      /\ process' = [process EXCEPT ![n] = "down"]
      /\ table' = [table EXCEPT ![n] = EmptyTable]
      /\ neighbourList' = [neighbourList EXCEPT ![n] = {}]
      /\ overdue' = [overdue EXCEPT ![n] = {}]
  BY DEF Crash
<1>3. \A a, b \in Node : a # n => chan'[a][b] = chan[a][b]
  BY <1>1, Typed
<1>4. ASSUME NEW a \in Node, NEW b \in Node PROVE NoHello(chan'[a][b])
  <2>1. NoHello(chan[a][b]) /\ chan[a][b] \in Seq(Message)
    BY Typed DEF Formed
  <2>2. CASE a # n
    BY <1>3, <2>1, <2>2
  <2>3. CASE a = n
    <3>1. chan'[a][b] = SubSeq(chan[n][b], 1, kept[b])
      BY <1>1, <2>3, Typed
    <3>2. kept[b] \in 0 .. MaxChan /\ kept[b] <= Len(chan[n][b])
      BY <1>1
    <3>3. kept[b] \in Nat /\ MaxChan \in Nat /\ Len(chan[n][b]) \in Nat
      BY <2>1, <2>3, <3>2, BoundAssumption, LenProperties
    <3>4. \A i \in 1 .. kept[b] : chan[n][b][i] \in Message
      BY <2>1, <2>3, <3>2, <3>3, ElementOfSeq
    <3>5. /\ Len(chan'[a][b]) = kept[b]
          /\ \A i \in 1 .. kept[b] : chan'[a][b][i] = chan[n][b][i]
      BY <3>1, <3>2, <3>3, <3>4, SubSeqProperties
    <3>6. \A i \in 1 .. kept[b] : i \in 1 .. Len(chan[n][b])
      BY <3>2, <3>3
    <3>7. QED
      BY <2>1, <2>3, <3>5, <3>6 DEF NoHello
  <2>4. QED
    BY <2>2, <2>3
<1>5. /\ \A m \in Node : m # n => /\ process'[m] = process[m]
                                  /\ table'[m] = table[m]
                                  /\ neighbourList'[m] = neighbourList[m]
                                  /\ overdue'[m] = overdue[m]
      /\ process'[n] = "down" /\ neighbourList'[n] = {} /\ overdue'[n] = {}
  BY <1>2, Typed
<1>6. Formed'
  BY <1>2, <1>4, <1>5 DEF Formed, LinkedTo
<1>7. Forming'
  <2>1. \A m \in Node \ crashed' : process'[m] = "running"
    BY <1>6 DEF Formed
  <2>2. \A m \in crashed' : process'[m] = "down"
    BY <1>2, <1>5, Typed DEF Forming
  <2>3. \A m \in Node : overdue'[m] \subseteq crashed'
    BY <1>2, <1>5 DEF Forming
  <2>4. \A a, b \in Node : HelloFirst(chan'[a][b]) /\ NoHello(chan'[a][b])
    BY <1>4 DEF NoHello, HelloFirst
  <2>5. ASSUME NEW a \in Node, NEW b \in Node, a \in neighbourList'[b] \ crashed'
        PROVE  b \in neighbourList'[a]
    <3>1. b # n /\ a # n /\ a \in neighbourList[b] /\ a \notin crashed
      BY <1>2, <1>5, <2>5
    <3>2. b \notin crashed
      BY <3>1 DEF Forming, IInv, SoundDaemon
    <3>3. a \in LinkedTo(b)
      BY <3>1, Typed
    <3>4. b \in LinkedTo(a)
      BY <3>3, LinkAssumption DEF LinkedTo
    <3>5. b \in neighbourList[a]
      BY <3>1, <3>2, <3>4 DEF Formed
    <3>6. QED
      BY <1>5, <3>1, <3>5
  <2>6. QED
    BY <1>6, <2>1, <2>2, <2>3, <2>4, <2>5 DEF Forming
<1>8. ASSUME NEW a \in Node \ crashed', NEW b \in Node \ crashed', <<a, b>> \in Link
      PROVE  /\ BackedMessages(crashed', chan'[a][b], table'[a])
             /\ BackedRoutes(crashed', table'[b], b, a, chan'[a][b], table'[a])
  <2>1. a # n /\ b # n /\ a \notin crashed /\ b \notin crashed /\ crashed' # {}
    BY <1>2
  <2>2. /\ BackedMessages(crashed, chan[a][b], table[a])
        /\ BackedRoutes(crashed, table[b], b, a, chan[a][b], table[a])
    BY <1>8, <2>1 DEF Backed
  <2>3. /\ BackedMessages(crashed', chan[a][b], table[a])
        /\ BackedRoutes(crashed', table[b], b, a, chan[a][b], table[a])
    BY <2>1, <2>2 DEF BackedMessages, BackedRoutes, Backs
  <2>4. QED
    BY <1>3, <1>5, <2>1, <2>3
<1>9. Backed'
  BY <1>8 DEF Backed
<1>10. QED
  BY <1>7, <1>9

LEMMA DropMessageBacks ==
  ASSUME IInv, Forming, Backed, NEW n \in Node, NEW s \in Node, DropMessage(n, s)
  PROVE  Forming' /\ Backed'
<1>1. /\ process[n] = "down" /\ chan[s][n] # <<>>
      /\ chan' = [chan EXCEPT ![s][n] = Tail(@)]
      /\ UNCHANGED <<process, table, neighbourList, overdue, crashed>>
  BY DEF DropMessage, daemonVars, faultVars
<1>2. /\ chan'[s][n] = Tail(chan[s][n])
      /\ \A a, b \in Node : ~(a = s /\ b = n) => chan'[a][b] = chan[a][b]
      /\ chan[s][n] \in Seq(Message)
  BY <1>1, Typed
<1>3. table[n] = EmptyTable /\ neighbourList[n] = {}
  BY <1>1 DEF IInv, SoundDaemon
<1>4. ASSUME NEW a \in Node, NEW b \in Node
      PROVE  /\ HelloFirst(chan'[a][b])
             /\ NoHello(chan[a][b]) => NoHello(chan'[a][b])
             /\ (a \notin crashed /\ process[a] # "running") => chan'[a][b] = <<>>
             /\ a \in neighbourList[b] \ crashed =>
                  b \in neighbourList[a] \/ HasUpdate(chan'[b][a])
  <2>1. HelloFirst(chan'[a][b]) /\ (NoHello(chan[a][b]) => NoHello(chan'[a][b]))
    <3>1. CASE a = s /\ b = n
      BY <1>1, <1>2, <3>1, TailForms DEF Forming
    <3>2. CASE ~(a = s /\ b = n)
      BY <1>2, <3>2 DEF Forming
    <3>3. QED
      BY <3>1, <3>2
  <2>2. ASSUME a \notin crashed, process[a] # "running" PROVE chan'[a][b] = <<>>
    <3>1. chan[a][b] = <<>>
      BY <2>2 DEF Forming
    <3>2. QED
      BY <1>1, <1>2, <3>1
  <2>3. ASSUME a \in neighbourList[b] \ crashed
        PROVE  b \in neighbourList[a] \/ HasUpdate(chan'[b][a])
    <3>1. process[a] = "running"
      BY <2>3 DEF Forming
    <3>2. ~(b = s /\ a = n)
      BY <1>1, <3>1
    <3>3. QED
      BY <1>2, <2>3, <3>2 DEF Forming
  <2>4. QED
    BY <2>1, <2>2, <2>3
<1>5. Forming'
  <2>1. (crashed # {} => Formed)'
    BY <1>1, <1>4 DEF Forming, Formed, LinkedTo
  <2>2. QED
    BY <1>1, <1>4, <2>1 DEF Forming
<1>6. ASSUME NEW a \in Node \ crashed, NEW b \in Node \ crashed, <<a, b>> \in Link
      PROVE  /\ BackedMessages(crashed, chan'[a][b], table[a])
             /\ BackedRoutes(crashed, table[b], b, a, chan'[a][b], table[a])
  <2>1. /\ BackedMessages(crashed, chan[a][b], table[a])
        /\ BackedRoutes(crashed, table[b], b, a, chan[a][b], table[a])
    BY <1>6 DEF Backed
  <2>2. CASE a = s /\ b = n
    <3>1. BackedMessages(crashed, chan'[a][b], table[a])
      BY <1>1, <1>2, <2>1, <2>2, MessagesTail
    <3>2. \A d \in Node : ~HasRoute(table[b], d)
      BY <1>3, <2>2, EmptyHasNoEntry DEF HasRoute
    <3>3. QED
      BY <3>1, <3>2 DEF BackedRoutes
  <2>3. CASE ~(a = s /\ b = n)
    BY <1>2, <2>1, <2>3
  <2>4. QED
    BY <2>2, <2>3
<1>7. Backed'
  BY <1>1, <1>6 DEF Backed
<1>8. QED
  BY <1>5, <1>7

\* No living neighbour falls silent.
LEMMA FallSilentBacks ==
  ASSUME IInv, Forming, Backed, NEW S \in SUBSET Silent, FallSilent(S)
  PROVE  Forming' /\ Backed'
<1>1. /\ overdue' = [n \in Node |-> overdue[n] \cup {m \in Node : <<n, m>> \in S}]
      /\ UNCHANGED <<process, table, neighbourList, chan, crashed>>
  BY DEF FallSilent, faultVars
<1>2. ASSUME NEW n \in Node, NEW m \in Node, <<n, m>> \in S
      PROVE  m \in crashed
  <2>1. m \in neighbourList[n] /\ AwaitsHello(n, m)
    BY <1>2 DEF Silent
  <2>2. SUFFICES ASSUME m \notin crashed PROVE FALSE
    OBVIOUS
  <2>3. process[m] = "running" /\ NoHello(chan[m][n])
    BY <2>1, <2>2 DEF Forming
  <2>4. n \in neighbourList[m] \/ HasUpdate(chan[n][m])
    BY <2>1, <2>2 DEF Forming
  <2>5. chan[m][n] = <<>>
    <3>1. ASSUME chan[m][n] # <<>> PROVE FALSE
      <4>1. chan[m][n] \in Seq(Message)
        BY Typed
      <4>2. Head(chan[m][n]) = chan[m][n][1] /\ 1 \in 1 .. Len(chan[m][n])
        BY <3>1, <4>1, HeadTailProperties, LenProperties
      <4>3. Head(chan[m][n]).type = "HELLO"
        BY <2>1, <3>1 DEF AwaitsHello
      <4>4. QED
        BY <2>3, <4>2, <4>3 DEF NoHello
    <3>2. QED
      BY <3>1
  <2>6. n \notin neighbourList[m] /\ chan[n][m] = <<>>
    BY <2>1, <2>3, <2>5 DEF AwaitsHello
  <2>7. QED
    BY <2>4, <2>6 DEF HasUpdate
<1>3. (\A m \in Node : overdue[m] \subseteq crashed)'
  BY <1>1, <1>2 DEF Forming
<1>4. (crashed # {} => Formed)'
  BY <1>1 DEF Forming, Formed, LinkedTo
<1>5. QED
  BY <1>1, <1>3, <1>4 DEF Forming, Backed

LEMMA SameBacks ==
  ASSUME Forming, Backed,
         UNCHANGED <<process, table, neighbourList, overdue, chan, crashed>>
  PROVE  Forming' /\ Backed'
BY DEF Forming, Formed, LinkedTo, Backed

-----------------------------------------------------------------------------
(* Backed paths.                                                           *)

\* The invariant: while the wire is faultless the network forms, and every
\* path and every offer is backed.
BInv == wireFaults = 0 => Forming /\ Backed

LEMMA InitBacks == Init => BInv
<1> SUFFICES ASSUME Init PROVE Forming /\ Backed
  BY DEF BInv
<1>1. \A d \in Node : ~HasRoute(EmptyTable, d)
  BY EmptyHasNoEntry DEF HasRoute
<1>2. Forming
  BY DEF Init, Forming, HelloFirst
<1>3. Backed
  BY <1>1 DEF Init, Backed, BackedMessages, BackedRoutes
<1>4. QED
  BY <1>2, <1>3

LEMMA NextBacks ==
  ASSUME MayRestart = {}, IInv, BInv, [Next]_vars, [StopsOnlyFormed]_vars
  PROVE  BInv'
<1> SUFFICES ASSUME wireFaults' = 0 PROVE (Forming /\ Backed)'
  BY DEF BInv
<1>1. wireFaults \in Nat
  BY Typed
<1>2. CASE UNCHANGED vars
  <2>1. UNCHANGED <<process, table, neighbourList, overdue, chan, crashed, wireFaults>>
    BY <1>2 DEF vars
  <2>2. Forming /\ Backed
    BY <2>1 DEF BInv
  <2>3. QED
    BY <2>1, <2>2, SameBacks
<1>3. CASE Next /\ ~UNCHANGED vars
  <2>1. StopsOnlyFormed
    BY <1>3
  <2>2. ASSUME NEW n \in Node, NEW s \in Node,
               Lose(n, s) \/ Overtake(n, s) \/ LoseKeepAlives(n, s)
        PROVE  FALSE
    BY <1>1, <2>2 DEF Lose, Overtake, LoseKeepAlives
  <2>3. CASE \E n \in Node : Start(n) \/ HandleHandshakeReply(n) \/ Alarm(n) \/ Crash(n)
    <3>1. PICK n \in Node : Start(n) \/ HandleHandshakeReply(n) \/ Alarm(n) \/ Crash(n)
      BY <2>3
    <3>2. wireFaults' = wireFaults
      BY <3>1 DEF Start, HandleHandshakeReply, Alarm, Crash, faultVars
    <3>3. Forming /\ Backed
      BY <3>2 DEF BInv
    <3>4. Crash(n) => Formed
      BY <2>1 DEF StopsOnlyFormed
    <3>5. QED
      BY <3>1, <3>3, <3>4, StartBacks, HandleHandshakeReplyBacks, AlarmBacks, CrashBacks
  <2>4. CASE \E n \in Node, s \in Node :
               \/ HandleHello(n, s) \/ HandleUpdate(n, s) \/ HandleKeepAlive(n, s)
               \/ DropMessage(n, s) \/ DropKeepAlive(n, s)
    <3>1. PICK n \in Node, s \in Node :
            \/ HandleHello(n, s) \/ HandleUpdate(n, s) \/ HandleKeepAlive(n, s)
            \/ DropMessage(n, s) \/ DropKeepAlive(n, s)
      BY <2>4
    <3>2. wireFaults' = wireFaults
      BY <3>1 DEF HandleHello, HandleUpdate, HandleKeepAlive, DropMessage,
                  DropKeepAlive, faultVars
    <3>3. Forming /\ Backed
      BY <3>2 DEF BInv
    <3>4. CASE DropKeepAlive(n, s)
      BY <3>3, <3>4, SameBacks DEF DropKeepAlive, daemonVars, faultVars
    <3>5. QED
      BY <3>1, <3>3, <3>4, HandleHelloBacks, HandleUpdateBacks,
         HandleKeepAliveBacks, DropMessageBacks
  <2>5. CASE \E S \in SUBSET Silent : FallSilent(S)
    <3>1. PICK S \in SUBSET Silent : FallSilent(S)
      BY <2>5
    <3>2. wireFaults' = wireFaults
      BY <3>1 DEF FallSilent, faultVars
    <3>3. Forming /\ Backed
      BY <3>2 DEF BInv
    <3>4. QED
      BY <3>1, <3>3, FallSilentBacks
  <2>6. QED
    BY <1>3, <2>2, <2>3, <2>4, <2>5 DEF Next
<1>4. QED
  BY <1>2, <1>3

\* Backed paths are what RouteSupported promises, without its last way out.
LEMMA BackedIsSupported ==
  IInv /\ BInv => RouteSupported
<1> SUFFICES ASSUME IInv, BInv, wireFaults = 0,
                    NEW n \in Node, NEW d \in Node, d # n, HasRoute(table[n], d),
                    process[table[n][d].next] = "running"
             PROVE  LET s == table[n][d].next
                    IN  \/ HasRoute(table[s], d) /\ table[s][d].cost < table[n][d].cost
                        \/ WithdrawalInFlight(s, n, d)
  BY DEF RouteSupported
<1> DEFINE s == table[n][d].next
<1>1. Forming /\ Backed
  BY DEF BInv
<1>2. s \in neighbourList[n]
  BY IInvImplies DEF RoutesUseNeighbours, FindNextHop
<1>3. s \in Node /\ <<s, n>> \in Link
  BY <1>2, Typed, LinkAssumption DEF LinkedTo
<1>4. s \notin crashed
  BY <1>1, <1>3 DEF Forming
<1>5. n \notin crashed
  BY <1>1, <1>2 DEF Forming, IInv, SoundDaemon
<1>6. BackedRoutes(crashed, table[n], n, s, chan[s][n], table[s])
  BY <1>1, <1>3, <1>4, <1>5 DEF Backed
<1> HIDE DEF s
<1>7. d \in Node \ {n} /\ table[n][d].next = s
  BY DEF s
<1>8. Backs(crashed, chan[s][n], table[s], 0, d, table[n][d].cost - 1)
  BY <1>6, <1>7 DEF BackedRoutes
<1>9. CASE Holds(table[s], d, table[n][d].cost - 1)
  <2>1. HasRoute(table[s], d) /\ table[s][d].cost <= table[n][d].cost - 1
    BY <1>9 DEF Holds
  <2>2. table[s][d].cost \in Int /\ table[n][d].cost \in Int
    BY <1>3, <2>1, Typed, InfinityAssumption DEF HasRoute, HasEntry, Table, Entry, Cost
  <2>3. table[s][d].cost < table[n][d].cost
    BY <2>1, <2>2
  <2>4. QED
    BY <2>1, <2>3 DEF s
<1>10. CASE Withdrawn(chan[s][n], 0, d)
  BY <1>10 DEF Withdrawn, Withdraws, WithdrawalInFlight, s
<1>11. QED
  BY <1>8, <1>9, <1>10 DEF Backs

\* A set of costs has a least one.
LEMMA LeastCost ==
  ASSUME NEW T, T \subseteq Nat, T # {}
  PROVE  \E x \in T : \A y \in T : x <= y
<1> DEFINE R == OpToRel(<, Nat)
<1>1. PICK x \in T : \A y \in T : <<y, x>> \notin R
  <2>1. IsWellFoundedOn(R, Nat)
    BY NatLessThanWellFounded
  <2> HIDE DEF R
  <2>2. QED
    BY <2>1, WFMin
<1>2. \A y \in T : y \in Nat /\ x \in Nat /\ ~(y < x)
  BY <1>1 DEF OpToRel
<1>3. \A y \in T : x <= y
  BY <1>2
<1>4. QED
  BY <1>3

\* Along supported paths the cost falls, so they cannot form a loop.
LEMMA SupportedIsLoopFree ==
  IInv /\ RouteSupported /\ wireFaults = 0 => LoopFreeWhenQuiet
<1> SUFFICES ASSUME IInv, RouteSupported, wireFaults = 0, Quiet,
                    NEW d \in Node, NEW S \in SUBSET Node, Loop(S, d)
             PROVE  FALSE
  BY DEF LoopFreeWhenQuiet
<1> DEFINE cost(n) == table[n][d].cost
<1>1. ASSUME NEW n \in S
      PROVE  /\ cost(n) \in Nat
             /\ \E s \in S : cost(s) < cost(n)
  <2>1. n \in Node /\ d # n /\ HasRoute(table[n], d) /\ table[n][d].next \in S
    BY <1>1 DEF Loop, FindNextHop
  <2> DEFINE s == table[n][d].next
  <2>2. /\ s \in Node /\ HasRoute(table[s], d)
        /\ process[s] = "running"
    <3>1. s \in Node /\ HasRoute(table[s], d)
      BY <2>1 DEF Loop
    <3>2. process[s] # "running" => table[s] = EmptyTable
      BY <3>1 DEF IInv, SoundDaemon
    <3>3. QED
      BY <3>1, <3>2, EmptyHasNoEntry DEF HasRoute
  <2>3. ~WithdrawalInFlight(s, n, d) /\ ~JoinInFlight(n, s)
    BY <2>1, <2>2 DEF Quiet, WithdrawalInFlight, JoinInFlight
  <2>4. cost(s) < cost(n)
    BY <2>1, <2>2, <2>3 DEF RouteSupported
  <2>5. cost(n) \in Nat
    BY <2>1, Typed, InfinityAssumption DEF HasRoute, HasEntry, Table, Entry, Cost
  <2>6. QED
    BY <2>1, <2>4, <2>5
<1>2. S # {}
  BY DEF Loop
<1> DEFINE costs == {cost(n) : n \in S}
<1>3. costs # {} /\ costs \subseteq Nat
  BY <1>1, <1>2
<1>4. PICK k \in costs : \A j \in costs : k <= j
  BY <1>3, LeastCost
<1>5. PICK n \in S : k = cost(n)
  BY <1>4
<1>6. PICK s \in S : cost(s) < cost(n)
  BY <1>1
<1>7. cost(s) \in costs /\ cost(s) \in Nat /\ cost(n) \in Nat
  BY <1>1
<1>8. QED
  BY <1>4, <1>5, <1>6, <1>7

-----------------------------------------------------------------------------
(* Theorems about the paths.                                               *)

\* Every path is backed by its next hop (updateRoutingEntry, addToRoutingTable
\* and controlTime withdraw in time), in every network that forms before the
\* first of its daemons stops for good.
THEOREM PathsAreSupported ==
  ASSUME MayRestart = {}
  PROVE  Spec /\ [][StopsOnlyFormed]_vars => []RouteSupported
<1>1. IInv /\ BInv /\ [Next]_vars /\ [StopsOnlyFormed]_vars => BInv'
  BY NextBacks
<1>2. Spec /\ [][StopsOnlyFormed]_vars => []BInv
  BY <1>1, InitBacks, Invariance, PTL DEF Spec
<1>3. QED
  BY <1>2, BackedIsSupported, Invariance, PTL

\* If the wire is faultless too, no forwarding loop outlives the UPDATEs.
THEOREM NoLoopOnceQuiet ==
  ASSUME MayRestart = {}
  PROVE  Spec /\ [][StopsOnlyFormed]_vars /\ FaultlessWire => []LoopFreeWhenQuiet
BY PathsAreSupported, SupportedIsLoopFree, Invariance, PTL DEF FaultlessWire
=============================================================================
