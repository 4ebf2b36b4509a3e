-------------------------------- MODULE MsgQ --------------------------------
(***************************************************************************)
(* The queue of datagrams that wait for the routing daemon (msgQ.c), down  *)
(* to its nodes in memory.                                                 *)
(***************************************************************************)
EXTENDS Heap

CONSTANTS
  Data,           \* the entries
  MAX_ELEMENTS

ASSUME AddrAssumption == NULL \notin Addr
ASSUME MaxElementsAssumption == MAX_ELEMENTS \in Nat \ {0}

QNode == [next : Pointer, data : Data]

ASSUME FreeAssumption == Free \notin QNode /\ Free \notin Data

Queue == [head : Pointer, amountOfEntries : Int,
          heap : [Addr -> QNode \cup {Free}], state : ListState]

CreateQ == [head |-> NULL, amountOfEntries |-> 0,
            heap |-> EmptyHeap, state |-> "ok"]

\* push, with malloc returning a.  At a non-empty queue the last node is
\* linked to itself (line 58) and the new node is lost.
Push(q, d, a) ==
  LET m == [q EXCEPT !.heap[a] = [next |-> NULL, data |-> d]]
  IN  IF q.amountOfEntries + 1 > MAX_ELEMENTS THEN q
      ELSE IF q.head = NULL
           THEN [m EXCEPT !.head = a, !.amountOfEntries = @ + 1]
      ELSE IF ReachesFreed(m.heap, q.head) THEN [m EXCEPT !.state = "undefined"]
      ELSE IF LastNode(m.heap, q.head) = {} THEN [m EXCEPT !.state = "hung"]
      ELSE LET last == CHOOSE b \in LastNode(m.heap, q.head) : TRUE
           IN  [m EXCEPT !.heap[last].next = last, !.amountOfEntries = @ + 1]

\* pop can read the node the head points to.
HasHead(q) == Allocated(q.heap, q.head)

\* What pop returns.
Popped(q) == q.heap[q.head].data

\* q after a pop that leaves p as the head.
PopTo(q, p) ==
  LET h == [q.heap EXCEPT ![q.head] = Free]
  IN  [q EXCEPT !.head = p, !.amountOfEntries = @ - 1, !.heap = h,
                !.state = StateOf(@, h, p)]

\* Mutant: the head is freed but not moved on.
PopKeepsHead(q) ==
  IF HasHead(q) THEN PopTo(q, q.head) ELSE [q EXCEPT !.state = "undefined"]

\* pop.  Through a head that is NULL or freed it reads what is not there.
Pop(q) ==
  IF HasHead(q) THEN PopTo(q, q.heap[q.head].next)
  ELSE [q EXCEPT !.state = "undefined"]

-----------------------------------------------------------------------------
\* The sequence of entries the queue stands for: what amountOfEntries steps
\* from the head come to.
Contents(q) ==
  LET at == Walk(q.heap, q.head, q.amountOfEntries)
  IN  [k \in 1 .. q.amountOfEntries |->
         IF Allocated(q.heap, at[k]) THEN q.heap[at[k]].data ELSE Free]
=============================================================================
