-------------------------------- MODULE Heap --------------------------------
(***************************************************************************)
(* Linked nodes in memory, for the two lists of the MIP daemon whose       *)
(* behaviour depends on where their pointers lead (MsgQ, WaitingList).     *)
(*                                                                         *)
(* A heap maps an address to the node allocated there, a record with the   *)
(* fields next and data, or to Free.  A list whose pointers have led to    *)
(* freed memory is "dangling": the daemon goes on, and malloc may hand the *)
(* memory out again.  An operation that follows a pointer to memory that   *)
(* is still free has no defined result, and one that walks a cycle never   *)
(* returns: in the states "undefined" and "hung" nothing more is done.     *)
(***************************************************************************)
EXTENDS Integers, Sequences

CONSTANTS Addr, NULL, Free

Pointer == Addr \cup {NULL}

ListState == {"ok", "dangling", "hung", "undefined"}

\* The last operation on list l has returned.
Working(l) == l.state \in {"ok", "dangling"}

EmptyHeap == [a \in Addr |-> Free]

Allocated(h, p) == p \in Addr /\ h[p] # Free

\* malloc may return any address that is not in use, a freed one included.
Unused(h) == {a \in Addr : h[a] = Free}

\* Every node that a node of S points to is in S.
ClosedUnderNext(h, S) ==
  \A a \in S : Allocated(h, a) /\ h[a].next # NULL => h[a].next \in S

\* The addresses a walk from p comes to; none from NULL.
Reachable(h, p) ==
  {a \in Addr : /\ p \in Addr
                /\ \A S \in SUBSET Addr : p \in S /\ ClosedUnderNext(h, S) => a \in S}

ReachesFreed(h, p) == \E a \in Reachable(h, p) : ~Allocated(h, a)

\* The state of a list that was in state s, once its head is p in heap h.
StateOf(s, h, p) == IF s = "ok" /\ ReachesFreed(h, p) THEN "dangling" ELSE s

\* Where a walk from p ends.  There is no such node if it runs in a circle.
LastNode(h, p) == {a \in Reachable(h, p) : Allocated(h, a) /\ h[a].next = NULL}

\* The first len addresses of a walk from p.
Walk(h, p, len) ==
  LET node[k \in 1 .. len] ==
        IF k = 1 THEN p
        ELSE IF Allocated(h, node[k - 1]) THEN h[node[k - 1]].next
        ELSE NULL
  IN  node
=============================================================================
