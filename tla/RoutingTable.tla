---------------------------- MODULE RoutingTable ----------------------------
(***************************************************************************)
(* The routing table and the neighbour list of ONE routing daemon          *)
(* (routingTable.c and the table-handling parts of routing_daemon.c) as    *)
(* pure operators.  RoutingDaemon.tla composes them into the handlers.     *)
(*                                                                         *)
(* A table maps every MIP address to an entry (cost, next hop) or to       *)
(* NoEntry, the NULL of routingTable[mip].  The mip_address field of an    *)
(* entry always equals its index and is left out.  The neighbour list is   *)
(* a set: findNeighbour keeps its addresses distinct and their order only  *)
(* orders sends that go to different destinations.                         *)
(*                                                                         *)
(* An UPDATE message carries at most one entry per address (sendUpdate     *)
(* visits each index once), so the loop of the UPDATE handler is applied   *)
(* to all addresses at once.  The next_hop field it ships is never read.   *)
(***************************************************************************)
EXTENDS Integers

CONSTANTS
  Node,       \* the MIP addresses of the network, each below 255
  Infinity,   \* the cost that means "no path": 255 in the code
  NoEntry     \* routingTable[mip] == NULL

Cost  == 0 .. Infinity
Entry == [cost : Cost, next : Node]
Table == [Node -> Entry \cup {NoEntry}]

\* The payload of an UPDATE: the advertised cost, or NoEntry where the
\* message has no entry for that address.
Advertisement == [Node -> Cost \cup {NoEntry}]

\* A neighbour costs 1, so a finite cost above it must exist.
ASSUME InfinityAssumption == Infinity \in Nat /\ Infinity >= 2
ASSUME NoEntryAssumption  == NoEntry \notin Cost /\ NoEntry \notin Entry

EmptyTable == [d \in Node |-> NoEntry]

-----------------------------------------------------------------------------
(* Lookups.                                                                *)

\* routingTable[d] != NULL
HasEntry(t, d) == t[d] # NoEntry

\* A path that findNextHop would return.
HasRoute(t, d) == HasEntry(t, d) /\ t[d].cost # Infinity

\* The answer to a REQUEST of the MIP daemon: NoEntry stands for the 255
\* that means "no route found".
FindNextHop(t, d) == IF HasRoute(t, d) THEN t[d].next ELSE NoEntry

-----------------------------------------------------------------------------
(* What sendUpdate tells the neighbour dst: every entry whose next hop is  *)
(* not dst itself, and every unreachable entry.                            *)

\* Mutant: unreachable entries are left out.
AdvertiseNoPoison(t, dst) ==
  [d \in Node |-> IF HasRoute(t, d) /\ t[d].next # dst
                  THEN t[d].cost ELSE NoEntry]

Advertise(t, dst) ==
  [d \in Node |->
     IF HasEntry(t, d) /\ (t[d].next # dst \/ t[d].cost = Infinity)
     THEN t[d].cost ELSE NoEntry]

-----------------------------------------------------------------------------
(* The three ways one entry of an UPDATE from s, advertising cost c, acts  *)
(* on the receiver's entry e for that address.                             *)

\* Mutant: an unreachable address is entered as well.
AddsUnreachable(e, c) == e = NoEntry /\ c # NoEntry

Adds(e, c) == e = NoEntry /\ c # NoEntry /\ c # Infinity

Poisons(e, c, s) == e # NoEntry /\ c = Infinity /\ e.next = s

\* Mutant: a path of equal cost replaces the present one.
ImprovesOrEqual(e, c) == e # NoEntry /\ c # NoEntry /\ c + 1 <= e.cost

Improves(e, c) == e # NoEntry /\ c # NoEntry /\ c + 1 < e.cost

\* Mutant: the hop to s is not counted.
LearnedSameCost(c, s) == [cost |-> c, next |-> s]

\* The entry written by addToRoutingTable and updateRoutingEntry.
Learned(c, s) == [cost |-> c + 1, next |-> s]

\* One pass of the handler's loop for one address.
Merge(e, c, s) ==
  IF Adds(e, c) \/ Improves(e, c) THEN Learned(c, s)
  ELSE IF Poisons(e, c, s) THEN [e EXCEPT !.cost = Infinity]
  ELSE e

\* The table after the whole UPDATE adv from s.
MergeUpdate(t, adv, s) == [d \in Node |-> Merge(t[d], adv[d], s)]

\* Mutant: updateRoutingEntry does not look after the neighbour list.
NewNeighboursOnAdd(t, adv, s) == {d \in Node : adv[d] = 0 /\ Adds(t[d], adv[d])}

\* The addresses the UPDATE puts into the neighbour list: those entered in
\* the table at cost 1.
NewNeighbours(t, adv, s) ==
  {d \in Node : adv[d] = 0 /\ (Adds(t[d], adv[d]) \/ Improves(t[d], adv[d]))}

\* Mutant: a new entry does not set the flag.
ChangedUnlessAdded(t, adv, s) ==
  \E d \in Node : Improves(t[d], adv[d]) \/ Poisons(t[d], adv[d], s)

\* The handler's "changed" flag.  An entry that was unreachable already and
\* is poisoned again counts as a change, as in the code.
Changed(t, adv, s) ==
  \E d \in Node : \/ Adds(t[d], adv[d])
                  \/ Improves(t[d], adv[d])
                  \/ Poisons(t[d], adv[d], s)

-----------------------------------------------------------------------------
(* removeFromRouting for every address in dead: all paths through a dead   *)
(* neighbour become unreachable.  They keep their next hop.                *)

\* Mutant: only the dead neighbour itself becomes unreachable.
RemoveOnlyOwnEntry(t, dead) ==
  [d \in Node |-> IF d \in dead /\ HasEntry(t, d)
                  THEN [t[d] EXCEPT !.cost = Infinity] ELSE t[d]]

RemoveFromRouting(t, dead) ==
  [d \in Node |-> IF HasEntry(t, d) /\ t[d].next \in dead
                  THEN [t[d] EXCEPT !.cost = Infinity] ELSE t[d]]
=============================================================================
