--------------------------- MODULE MCRoutingDaemon ---------------------------
(***************************************************************************)
(* Small networks for RoutingDaemon: the line A - B - C of the topology    *)
(* "oblig" (topo_p2p.py), the triangle of the topology "h1", and the       *)
(* triangle with the node behind it (Kite).                                *)
(***************************************************************************)
EXTENDS RoutingDaemon, FiniteSets

CONSTANTS A, B, C, D

Both(pairs) == pairs \cup {<<p[2], p[1]>> : p \in pairs}

Line     == Both({<<A, B>>, <<B, C>>})
Triangle == Both({<<A, B>>, <<B, C>>, <<A, C>>})
Line4    == Both({<<D, A>>, <<A, B>>, <<B, C>>})
Kite     == Both({<<A, B>>, <<B, C>>, <<A, C>>, <<C, D>>})

\* Hops between a and b along Link: the least k such that b is in the k-ball
\* of a, Infinity if there is none.
Ball[k \in 0 .. Cardinality(Node)] ==
  IF k = 0 THEN {<<n, n>> : n \in Node}
  ELSE Ball[k - 1] \cup {p \in Node \X Node :
          \E m \in Node : <<p[1], m>> \in Ball[k - 1] /\ <<m, p[2]>> \in Link}

Hops ==
  [a \in Node |-> [b \in Node |->
     IF <<a, b>> \in Ball[Cardinality(Node)]
     THEN CHOOSE k \in 0 .. Cardinality(Node) :
            <<a, b>> \in Ball[k] /\ \A j \in 0 .. (k - 1) : <<a, b>> \notin Ball[j]
     ELSE Infinity]]

-----------------------------------------------------------------------------
\* The kite before B starts: the others have found the shortest paths.
JoinInit ==
  /\ process = [n \in Node |-> IF n = B THEN "down" ELSE "running"]
  /\ table = [n \in Node |-> [d \in Node |->
                IF B \in {n, d} THEN NoEntry ELSE ShortestPath(n, d)]]
  /\ neighbourList = [n \in Node |-> IF n = B THEN {} ELSE LinkedTo(n) \ {B}]
  /\ overdue = [n \in Node |-> {}]
  /\ chan = [s \in Node |-> [d \in Node |-> <<>>]]
  /\ alive = {} /\ crashed = {} /\ wireFaults = 0

JoinSpec == JoinInit /\ [][Next]_vars
=============================================================================
