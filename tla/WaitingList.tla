----------------------------- MODULE WaitingList -----------------------------
(***************************************************************************)
(* arpWaitingList, the datagrams that wait for a MAC address: addEntry     *)
(* (linkedList.c) and sendWaitingMsgs (arpFunctions.c), down to the nodes  *)
(* in memory.  Unlike the queue of MsgQ it is emptied in the middle.       *)
(*                                                                         *)
(* The node and the arpWaitEntry it points to are allocated and freed      *)
(* together and stand here for one block.                                  *)
(***************************************************************************)
EXTENDS Heap, FiniteSets

CONSTANT WaitEntry   \* the entries: records with a field dst

ListNode == [next : Pointer, data : WaitEntry]

List == [head : Pointer, entries : Int,
         heap : [Addr -> ListNode \cup {Free}], state : ListState]

CreateLinkedList == [head |-> NULL, entries |-> 0,
                     heap |-> EmptyHeap, state |-> "ok"]

\* addEntry, with malloc returning a.
AddEntry(l, e, a) ==
  LET m == [l EXCEPT !.heap[a] = [next |-> NULL, data |-> e]]
  IN  IF l.head = NULL THEN [m EXCEPT !.head = a, !.entries = @ + 1]
      ELSE IF ReachesFreed(m.heap, l.head) THEN [m EXCEPT !.state = "undefined"]
      ELSE IF LastNode(m.heap, l.head) = {} THEN [m EXCEPT !.state = "hung"]
      ELSE LET last == CHOOSE b \in LastNode(m.heap, l.head) : TRUE
           IN  [m EXCEPT !.heap[last].next = a, !.entries = @ + 1]

\* The nodes of a list that can be walked, head first.
Length(l) == Cardinality(Reachable(l.heap, l.head))
Nodes(l) == Walk(l.heap, l.head, Length(l))

\* The entries, in the order they were added.
Entries(l) == [i \in DOMAIN Nodes(l) |-> l.heap[Nodes(l)[i]].data]

\* Its walk comes to an end and meets allocated nodes only.
CanWalk(l) ==
  \/ l.head = NULL
  \/ ~ReachesFreed(l.heap, l.head) /\ LastNode(l.heap, l.head) # {}

\* The entries for mip that the walk of sendWaitingMsgs has met after k nodes.
Waiting(l, mip) ==
  LET met[k \in 0 .. Length(l)] ==
        IF k = 0 THEN <<>>
        ELSE IF Entries(l)[k].dst = mip THEN Append(met[k - 1], Entries(l)[k])
        ELSE met[k - 1]
  IN  met

\* Mutant: only the first entry.
FirstEntryFor(l, mip) ==
  LET w == Waiting(l, mip)[Length(l)]
  IN  IF w = <<>> THEN w ELSE <<Head(w)>>

\* The entries for mip, in the order sendWaitingMsgs sends them.
EntriesFor(l, mip) == Waiting(l, mip)[Length(l)]

\* The head once the nodes at the front that wait for mip are gone.
HeadWithout(l, mip) ==
  LET stays == {i \in DOMAIN Nodes(l) : Entries(l)[i].dst # mip}
  IN  IF stays = {} THEN NULL
      ELSE Nodes(l)[CHOOSE i \in stays : \A j \in stays : i <= j]

\* The heap once the nodes of the list that wait for mip are freed.
HeapWithout(l, mip) ==
  [a \in Addr |->
     IF a \in Reachable(l.heap, l.head) /\ l.heap[a].data.dst = mip
     THEN Free ELSE l.heap[a]]

\* On a circle a walk that frees nodes comes back to freed memory; one that
\* frees none of them does not end.
FreesOnCircle(l, mip) ==
  \E a \in Reachable(l.heap, l.head) :
    a \in Reachable(l.heap, l.heap[a].next) /\ l.heap[a].data.dst = mip

\* l without the nodes that wait for mip, and with p as the head.
RemoveTo(l, mip, p) ==
  LET h == HeapWithout(l, mip)
  IN  [l EXCEPT !.head = p, !.entries = @ - Len(EntriesFor(l, mip)), !.heap = h,
                !.state = StateOf(@, h, p)]

\* Mutant: the head is not moved.
RemoveKeepsHead(l, mip) == IF l.head = NULL THEN l ELSE RemoveTo(l, mip, l.head)

\* What sendWaitingMsgs leaves: the nodes that wait for mip are freed, and
\* the head is moved over those at the front.  A node further on is not
\* unlinked: the one before it still points to the freed memory.
Remove(l, mip) ==
  IF l.head = NULL THEN l
  ELSE IF ReachesFreed(l.heap, l.head) THEN [l EXCEPT !.state = "undefined"]
  ELSE IF LastNode(l.heap, l.head) = {}
  THEN [l EXCEPT !.state = IF FreesOnCircle(l, mip) THEN "undefined" ELSE "hung"]
  ELSE RemoveTo(l, mip, HeadWithout(l, mip))

\* An entry for mip stands behind one for another neighbour.
OutOfOrder(l, mip) ==
  \E i, j \in DOMAIN Entries(l) :
    i < j /\ Entries(l)[i].dst # mip /\ Entries(l)[j].dst = mip
=============================================================================
