----------------------------- MODULE MsgQ_proofs -----------------------------
(***************************************************************************)
(* Push and Pop, for every capacity of the queue, every set of addresses   *)
(* and whatever malloc returns: a queue that starts empty has one of four  *)
(* shapes.                                                                 *)
(***************************************************************************)
EXTENDS MsgQ, TLAPS

\* Nothing waits.
Empty(q) == q.amountOfEntries = 0 /\ q.head = NULL /\ q.state = "ok"

\* One entry waits, in one node without a next.
Single(q) ==
  /\ q.amountOfEntries = 1
  /\ q.head \in Addr /\ q.heap[q.head] # Free /\ q.heap[q.head].next = NULL
  /\ q.state = "ok"

\* Two entries are counted; there is one node, and it is linked to itself.
\* A push then never returns.
Looped(q) ==
  /\ q.amountOfEntries = 2
  /\ q.head \in Addr /\ q.heap[q.head] # Free /\ q.heap[q.head].next = q.head
  /\ q.state \in {"ok", "dangling", "hung"}

\* One entry is counted, and the head is a node that has been freed.
HeadFreed(q) ==
  /\ q.amountOfEntries = 1
  /\ q.head \in Addr /\ q.heap[q.head] = Free
  /\ q.state \in {"dangling", "undefined"}

Shaped(q) == Empty(q) \/ Single(q) \/ Looped(q) \/ HeadFreed(q)

\* A walk that comes back to its first node, or ends there, comes to no other.
LEMMA ReachableOfOne ==
  ASSUME NEW h, NEW p \in Addr,
         Allocated(h, p) => h[p].next = NULL \/ h[p].next = p
  PROVE  Reachable(h, p) = {p}
<1>1. ClosedUnderNext(h, {p})
  BY DEF ClosedUnderNext
<1>2. p \in Reachable(h, p)
  BY DEF Reachable
<1>3. ASSUME NEW a \in Reachable(h, p) PROVE a = p
  BY <1>1 DEF Reachable
<1> QED
  BY <1>2, <1>3

\* So it leads to freed memory just if that node is free, and ends there just
\* if it has no next.
LEMMA WalkOfOne ==
  ASSUME NEW h, NEW p \in Addr,
         Allocated(h, p) => h[p].next = NULL \/ h[p].next = p
  PROVE  /\ ReachesFreed(h, p) <=> h[p] = Free
         /\ h[p] # Free /\ h[p].next = NULL => LastNode(h, p) = {p}
         /\ h[p].next = p => LastNode(h, p) = {}
<1>1. Reachable(h, p) = {p}
  BY ReachableOfOne
<1>2. NULL \notin Addr
  BY AddrAssumption
<1> QED
  BY <1>1, <1>2 DEF ReachesFreed, LastNode, Allocated

LEMMA NothingFromNULL == ASSUME NEW h PROVE ~ReachesFreed(h, NULL)
BY AddrAssumption DEF ReachesFreed, Reachable

\* A queue is the record of its fields, and is changed field by field.
LEMMA QueueIsRecord ==
  ASSUME NEW q \in Queue
  PROVE  /\ q = [head |-> q.head, amountOfEntries |-> q.amountOfEntries,
                 heap |-> q.heap, state |-> q.state]
         /\ q.head \in Pointer /\ q.amountOfEntries \in Int
         /\ q.heap \in [Addr -> QNode \cup {Free}] /\ q.state \in ListState
BY DEF Queue

\* push leaves the node malloc gave it in the heap.
NewHeap(q, d, a) == [q.heap EXCEPT ![a] = [next |-> NULL, data |-> d]]

Stored(q, d, a) == [q EXCEPT !.heap[a] = [next |-> NULL, data |-> d]]

LEMMA StoredTyped ==
  ASSUME NEW q \in Queue, NEW d \in Data, NEW a \in Unused(q.heap)
  PROVE  /\ Stored(q, d, a) \in Queue
         /\ Stored(q, d, a).head = q.head /\ Stored(q, d, a).state = q.state
         /\ Stored(q, d, a).amountOfEntries = q.amountOfEntries
         /\ Stored(q, d, a).heap = NewHeap(q, d, a)
         /\ NewHeap(q, d, a) \in [Addr -> QNode \cup {Free}]
<1>1. a \in Addr /\ [next |-> NULL, data |-> d] \in QNode
  BY DEF Unused, QNode, Pointer
<1>2. NewHeap(q, d, a) \in [Addr -> QNode \cup {Free}]
  BY <1>1, QueueIsRecord DEF NewHeap
<1> DEFINE node == [next |-> NULL, data |-> d]
           m == Stored(q, d, a)
<1>3. m = [q EXCEPT !.heap[a] = node] /\ NewHeap(q, d, a) = [q.heap EXCEPT ![a] = node]
  BY DEF Stored, NewHeap
<1> HIDE DEF node, m
<1>4. m = [head |-> q.head, amountOfEntries |-> q.amountOfEntries,
           heap |-> [q.heap EXCEPT ![a] = node], state |-> q.state]
  BY <1>3 DEF Queue
<1>5. m = [head |-> q.head, amountOfEntries |-> q.amountOfEntries,
           heap |-> NewHeap(q, d, a), state |-> q.state]
  BY <1>3, <1>4
<1>6. m \in Queue /\ m.head = q.head /\ m.amountOfEntries = q.amountOfEntries
      /\ m.state = q.state /\ m.heap = NewHeap(q, d, a)
  BY <1>2, <1>5, QueueIsRecord DEF Queue
<1> QED
  BY <1>2, <1>6 DEF m

LEMMA NewHeapAt ==
  ASSUME NEW q \in Queue, NEW d \in Data, NEW a \in Unused(q.heap)
  PROVE  /\ NewHeap(q, d, a)[a] # Free
         /\ NewHeap(q, d, a)[a].next = NULL /\ NewHeap(q, d, a)[a].data = d
         /\ \A p \in Addr : p # a => NewHeap(q, d, a)[p] = q.heap[p]
         /\ a \in Addr /\ q.heap[a] = Free
<1>1. a \in Addr /\ q.heap[a] = Free /\ [next |-> NULL, data |-> d] \in QNode
  BY DEF Unused, QNode, Pointer
<1> DEFINE node == [next |-> NULL, data |-> d]
<1>2. node # Free /\ node.next = NULL /\ node.data = d
  BY <1>1, FreeAssumption
<1>3. NewHeap(q, d, a) = [q.heap EXCEPT ![a] = node]
  BY DEF NewHeap
<1> HIDE DEF node
<1> QED
  BY <1>1, <1>2, <1>3, QueueIsRecord

-----------------------------------------------------------------------------
(* push, at a queue of each shape.                                         *)

LEMMA PushIntoEmpty ==
  ASSUME NEW q \in Queue, Empty(q), NEW d \in Data, NEW a \in Unused(q.heap)
  PROVE  Push(q, d, a) = [head |-> a, amountOfEntries |-> 1, state |-> "ok",
                          heap |-> NewHeap(q, d, a)]
<1> DEFINE h == NewHeap(q, d, a)
           m == Stored(q, d, a)
           r == Push(q, d, a)
<1>1. r = [m EXCEPT !.head = a, !.amountOfEntries = @ + 1]
  BY MaxElementsAssumption DEF Push, Empty, Stored
<1>2. m \in Queue /\ m.amountOfEntries = 0 /\ m.state = "ok" /\ m.heap = h
  BY StoredTyped DEF Empty
<1> HIDE DEF m, h, r
<1>3. r = [head |-> a, amountOfEntries |-> m.amountOfEntries + 1, heap |-> m.heap,
           state |-> m.state]
  BY <1>1, <1>2 DEF Queue
<1>4. r = [head |-> a, amountOfEntries |-> 1, heap |-> h, state |-> "ok"]
  BY <1>2, <1>3
<1> QED
  BY <1>4 DEF h, r

\* push links the node p to itself.
SelfLinked(q, p) == [q EXCEPT !.heap[p].next = p, !.amountOfEntries = @ + 1]

LEMMA SelfLinkedFields ==
  ASSUME NEW q \in Queue, NEW p
  PROVE  SelfLinked(q, p) = [head |-> q.head, amountOfEntries |-> q.amountOfEntries + 1,
                             heap |-> [q.heap EXCEPT ![p].next = p], state |-> q.state]
<1> DEFINE r == SelfLinked(q, p)
<1>1. r = [q EXCEPT !.heap[p].next = p, !.amountOfEntries = @ + 1]
  BY DEF SelfLinked
<1> HIDE DEF r
<1>2. r = [head |-> q.head, amountOfEntries |-> q.amountOfEntries + 1,
           heap |-> [q.heap EXCEPT ![p].next = p], state |-> q.state]
  BY <1>1 DEF Queue
<1> QED
  BY <1>2 DEF r

\* What push makes of a queue whose head is NULL in no shape but Empty.
LEMMA PushPastHead ==
  ASSUME NEW q \in Queue, q.head \in Addr, q.amountOfEntries + 1 <= MAX_ELEMENTS,
         NEW d \in Data, NEW a \in Unused(q.heap),
         NEW m, m = Stored(q, d, a), NEW h, h = NewHeap(q, d, a),
         NEW r, r = Push(q, d, a)
  PROVE  /\ ReachesFreed(h, q.head) => r = [m EXCEPT !.state = "undefined"]
         /\ ~ReachesFreed(h, q.head) /\ LastNode(h, q.head) = {} =>
              r = [m EXCEPT !.state = "hung"]
         /\ ~ReachesFreed(h, q.head) /\ LastNode(h, q.head) = {q.head} =>
              r = SelfLinked(m, q.head)
<1>0. m.heap = h
  BY StoredTyped
<1>1. q.head # NULL /\ ~(q.amountOfEntries + 1 > MAX_ELEMENTS)
  BY AddrAssumption, MaxElementsAssumption, QueueIsRecord
<1>2. ASSUME LastNode(h, q.head) = {q.head}
      PROVE  (CHOOSE b \in LastNode(h, q.head) : TRUE) = q.head
  BY <1>2
<1>3. CASE ReachesFreed(h, q.head)
  BY <1>0, <1>1, <1>3 DEF Push, Stored
<1>4. CASE ~ReachesFreed(h, q.head) /\ LastNode(h, q.head) = {}
  BY <1>0, <1>1, <1>4 DEF Push, Stored
<1>5. CASE ~ReachesFreed(h, q.head) /\ LastNode(h, q.head) = {q.head}
  <2>1. LastNode(h, q.head) # {}
    BY <1>5
  <2> QED
    BY <1>0, <1>1, <1>2, <1>5, <2>1, Zenon DEF Push, Stored, SelfLinked
<1> QED
  BY <1>3, <1>4, <1>5

\* At one entry the head is linked to itself and the new node is lost.
LEMMA PushOntoSingle ==
  ASSUME NEW q \in Queue, Single(q), MAX_ELEMENTS > 1, NEW d \in Data,
         NEW a \in Unused(q.heap)
  PROVE  Push(q, d, a) =
           [head |-> q.head, amountOfEntries |-> 2, state |-> "ok",
            heap |-> [NewHeap(q, d, a)
                         EXCEPT ![q.head].next = q.head]]
<1> DEFINE h == NewHeap(q, d, a)
           m == Stored(q, d, a)
           r == Push(q, d, a)
<1>1. a # q.head /\ q.head \in Addr /\ q.amountOfEntries + 1 <= MAX_ELEMENTS
  BY MaxElementsAssumption DEF Single, Unused
<1>2. m \in Queue /\ m.head = q.head /\ m.amountOfEntries = 1 /\ m.state = "ok" /\ m.heap = h
  BY StoredTyped DEF Single
<1>3. h[q.head] = q.heap[q.head]
  BY <1>1, NewHeapAt
<1>4. ~ReachesFreed(h, q.head) /\ LastNode(h, q.head) = {q.head}
  <2> HIDE DEF h
  <2> QED
    BY <1>1, <1>3, WalkOfOne DEF Single
<1>5. r = SelfLinked(m, q.head)
  <2>1. h = NewHeap(q, d, a) /\ m = Stored(q, d, a) /\ r = Push(q, d, a)
    OBVIOUS
  <2> HIDE DEF h, m, r
  <2> QED
    BY <1>1, <1>4, <2>1, PushPastHead
<1> HIDE DEF m, h, r
<1>6. r = [head |-> m.head, amountOfEntries |-> m.amountOfEntries + 1,
           heap |-> [m.heap EXCEPT ![q.head].next = q.head], state |-> m.state]
  BY <1>2, <1>5, SelfLinkedFields
<1>7. r = [head |-> q.head, amountOfEntries |-> 2,
           heap |-> [h EXCEPT ![q.head].next = q.head], state |-> "ok"]
  BY <1>2, <1>6
<1> QED
  BY <1>7 DEF h, r

\* At a node linked to itself it runs in a circle.
LEMMA PushOntoLooped ==
  ASSUME NEW q \in Queue, Looped(q), MAX_ELEMENTS > 2, NEW d \in Data,
         NEW a \in Unused(q.heap)
  PROVE  Push(q, d, a) =
           [head |-> q.head, amountOfEntries |-> 2, state |-> "hung",
            heap |-> NewHeap(q, d, a)]
<1> DEFINE h == NewHeap(q, d, a)
           m == Stored(q, d, a)
           r == Push(q, d, a)
<1>1. a # q.head /\ q.head \in Addr /\ q.amountOfEntries + 1 <= MAX_ELEMENTS
  BY MaxElementsAssumption DEF Looped, Unused
<1>2. m \in Queue /\ m.head = q.head /\ m.amountOfEntries = 2 /\ m.heap = h
  BY StoredTyped DEF Looped
<1>3. h[q.head] = q.heap[q.head]
  BY <1>1, NewHeapAt
<1>4. ~ReachesFreed(h, q.head) /\ LastNode(h, q.head) = {}
  <2> HIDE DEF h
  <2> QED
    BY <1>1, <1>3, WalkOfOne DEF Looped
<1>5. r = [m EXCEPT !.state = "hung"]
  <2>1. h = NewHeap(q, d, a) /\ m = Stored(q, d, a) /\ r = Push(q, d, a)
    OBVIOUS
  <2> HIDE DEF h, m, r
  <2> QED
    BY <1>1, <1>4, <2>1, PushPastHead
<1> HIDE DEF m, h, r
<1>6. r = [head |-> m.head, amountOfEntries |-> m.amountOfEntries, heap |-> m.heap,
           state |-> "hung"]
  BY <1>2, <1>5 DEF Queue
<1>7. r = [head |-> q.head, amountOfEntries |-> 2, heap |-> h, state |-> "hung"]
  BY <1>2, <1>6
<1> QED
  BY <1>7 DEF h, r

\* A freed head is read, unless malloc has just handed it out again: then it
\* is linked to itself.
LEMMA PushOntoFreed ==
  ASSUME NEW q \in Queue, HeadFreed(q), MAX_ELEMENTS > 1, NEW d \in Data,
         NEW a \in Unused(q.heap)
  PROVE  LET h == NewHeap(q, d, a)
         IN  Push(q, d, a) =
               IF a = q.head
               THEN [head |-> q.head, amountOfEntries |-> 2, state |-> q.state,
                     heap |-> [h EXCEPT ![q.head].next = q.head]]
               ELSE [head |-> q.head, amountOfEntries |-> 1, state |-> "undefined",
                     heap |-> h]
<1> DEFINE h == NewHeap(q, d, a)
           m == Stored(q, d, a)
           r == Push(q, d, a)
<1>1. q.head \in Addr /\ a \in Addr /\ q.amountOfEntries + 1 <= MAX_ELEMENTS
  BY MaxElementsAssumption DEF HeadFreed, Unused
<1>2. m \in Queue /\ m.head = q.head /\ m.amountOfEntries = 1 /\ m.state = q.state /\ m.heap = h
  BY StoredTyped DEF HeadFreed
<1>3. CASE a = q.head
  <2>2. h[q.head] # Free /\ h[q.head].next = NULL
    BY <1>3, NewHeapAt
  <2>3. ~ReachesFreed(h, q.head) /\ LastNode(h, q.head) = {q.head}
    <3> HIDE DEF h
    <3> QED
      BY <1>1, <2>2, WalkOfOne
  <2>4. r = SelfLinked(m, q.head)
    <3>1. h = NewHeap(q, d, a) /\ m = Stored(q, d, a) /\ r = Push(q, d, a)
      OBVIOUS
    <3> HIDE DEF h, m, r
    <3> QED
      BY <1>1, <2>3, <3>1, PushPastHead
  <2> HIDE DEF m, h, r
  <2>5. r = [head |-> m.head, amountOfEntries |-> m.amountOfEntries + 1,
             heap |-> [m.heap EXCEPT ![q.head].next = q.head], state |-> m.state]
    BY <1>2, <2>4, SelfLinkedFields
  <2>6. r = [head |-> q.head, amountOfEntries |-> 2,
             heap |-> [h EXCEPT ![q.head].next = q.head], state |-> q.state]
    BY <1>2, <2>5
  <2> QED
    BY <1>3, <2>6 DEF h, r
<1>4. CASE a # q.head
  <2>1. h[q.head] = Free
    BY <1>1, <1>4, NewHeapAt DEF HeadFreed
  <2>2. ReachesFreed(h, q.head)
    <3> HIDE DEF h
    <3> QED
      BY <1>1, <2>1, WalkOfOne DEF Allocated
  <2>3. r = [m EXCEPT !.state = "undefined"]
    <3>1. h = NewHeap(q, d, a) /\ m = Stored(q, d, a) /\ r = Push(q, d, a)
      OBVIOUS
    <3> HIDE DEF h, m, r
    <3> QED
      BY <1>1, <2>2, <3>1, PushPastHead
  <2> HIDE DEF m, h, r
  <2>4. r = [head |-> m.head, amountOfEntries |-> m.amountOfEntries, heap |-> m.heap,
             state |-> "undefined"]
    BY <1>2, <2>3 DEF Queue
  <2>5. r = [head |-> q.head, amountOfEntries |-> 1, heap |-> h, state |-> "undefined"]
    BY <1>2, <2>4
  <2> QED
    BY <1>4, <2>5 DEF h, r
<1> QED
  BY <1>3, <1>4

-----------------------------------------------------------------------------
(* pop, at a queue of each shape.                                          *)

LEMMA PopIsPopTo ==
  ASSUME NEW q \in Queue, HasHead(q)
  PROVE  LET p == q.heap[q.head].next
             h == [q.heap EXCEPT ![q.head] = Free]
         IN  Pop(q) = [head |-> p, amountOfEntries |-> q.amountOfEntries - 1, heap |-> h,
                       state |-> StateOf(q.state, h, p)]
<1> DEFINE p == q.heap[q.head].next
           h == [q.heap EXCEPT ![q.head] = Free]
           s == StateOf(q.state, h, p)
           r == Pop(q)
<1>1. r = [q EXCEPT !.head = p, !.amountOfEntries = @ - 1, !.heap = h, !.state = s]
  BY DEF Pop, PopTo
<1> HIDE DEF p, h, s, r
<1>2. r = [head |-> p, amountOfEntries |-> q.amountOfEntries - 1, heap |-> h, state |-> s]
  BY <1>1 DEF Queue
<1> QED
  BY <1>2 DEF p, h, s, r

\* The only node goes, and its memory with it.
LEMMA PopOfSingle ==
  ASSUME NEW q \in Queue, Single(q)
  PROVE  Pop(q) = [head |-> NULL, amountOfEntries |-> 0, state |-> "ok",
                   heap |-> [q.heap EXCEPT ![q.head] = Free]]
<1> DEFINE h == [q.heap EXCEPT ![q.head] = Free]
<1>1. HasHead(q) /\ q.heap[q.head].next = NULL /\ q.amountOfEntries - 1 = 0 /\ q.state = "ok"
  BY DEF Single, HasHead, Allocated
<1>2. StateOf("ok", h, NULL) = "ok"
  BY NothingFromNULL DEF StateOf
<1> HIDE DEF h
<1>3. Pop(q) = [head |-> NULL, amountOfEntries |-> 0, heap |-> h, state |-> "ok"]
  BY <1>1, <1>2, PopIsPopTo DEF h
<1> QED
  BY <1>3 DEF h

\* The node linked to itself is freed and remains the head.
LEMMA PopOfLooped ==
  ASSUME NEW q \in Queue, Looped(q), Working(q)
  PROVE  Pop(q) = [head |-> q.head, amountOfEntries |-> 1, state |-> "dangling",
                   heap |-> [q.heap EXCEPT ![q.head] = Free]]
<1> DEFINE h == [q.heap EXCEPT ![q.head] = Free]
<1>1. /\ HasHead(q) /\ q.heap[q.head].next = q.head /\ q.amountOfEntries - 1 = 1
      /\ q.state \in {"ok", "dangling"} /\ q.head \in Addr
  BY DEF Looped, HasHead, Allocated, Working
<1>2. h[q.head] = Free
  BY <1>1, QueueIsRecord
<1> HIDE DEF h
<1>3. ReachesFreed(h, q.head)
  BY <1>1, <1>2, WalkOfOne DEF Allocated
<1>4. StateOf(q.state, h, q.head) = "dangling"
  BY <1>1, <1>3 DEF StateOf
<1>5. Pop(q) = [head |-> q.head, amountOfEntries |-> 1, heap |-> h, state |-> "dangling"]
  BY <1>1, <1>4, PopIsPopTo DEF h
<1> QED
  BY <1>5 DEF h

LEMMA PopOfFreed ==
  ASSUME NEW q \in Queue, HeadFreed(q)
  PROVE  Pop(q) = [head |-> q.head, amountOfEntries |-> 1, state |-> "undefined",
                   heap |-> q.heap]
<1>1. ~HasHead(q) /\ q.amountOfEntries = 1
  BY DEF HeadFreed, HasHead, Allocated
<1>2. Pop(q) = [q EXCEPT !.state = "undefined"]
  BY <1>1 DEF Pop
<1> QED
  BY <1>1, <1>2, QueueIsRecord

-----------------------------------------------------------------------------
(* What every push and every pop preserves.                                *)

LEMMA CreateShaped == CreateQ \in Queue /\ Empty(CreateQ)
BY DEF Queue, Empty, CreateQ, EmptyHeap, Pointer, ListState

LEMMA PushShaped ==
  ASSUME NEW q \in Queue, Shaped(q), Working(q), NEW d \in Data, NEW a \in Unused(q.heap)
  PROVE  /\ Push(q, d, a) \in Queue /\ Shaped(Push(q, d, a))
         /\ q.state = "ok" /\ Push(q, d, a).state # "ok" => q.amountOfEntries = 2
<1> DEFINE h == NewHeap(q, d, a)
           r == Push(q, d, a)
<1>1. h \in [Addr -> QNode \cup {Free}] /\ a \in Addr /\ h[a] # Free /\ h[a].next = NULL
  BY StoredTyped, NewHeapAt
<1>2. ASSUME NEW p \in Addr, h[p] # Free
      PROVE  /\ [h EXCEPT ![p].next = p] \in [Addr -> QNode \cup {Free}]
             /\ [h EXCEPT ![p].next = p][p] # Free
             /\ [h EXCEPT ![p].next = p][p].next = p
  <2> HIDE DEF h
  <2>1. h[p] \in QNode
    BY <1>1, <1>2
  <2>2. [h[p] EXCEPT !.next = p] \in QNode /\ [h[p] EXCEPT !.next = p].next = p
    BY <2>1 DEF QNode, Pointer
  <2>3. [h EXCEPT ![p].next = p][p] = [h[p] EXCEPT !.next = p]
    BY <1>1
  <2>4. [h EXCEPT ![p].next = p] \in [Addr -> QNode \cup {Free}]
    BY <1>1, <2>2
  <2> QED
    BY <2>2, <2>3, <2>4, FreeAssumption
<1>3. CASE q.amountOfEntries + 1 > MAX_ELEMENTS
  <2>1. r = q
    BY <1>3 DEF Push
  <2> QED
    BY <2>1
<1>4. CASE q.amountOfEntries + 1 <= MAX_ELEMENTS /\ Empty(q)
  <2> HIDE DEF h
  <2>1. r = [head |-> a, amountOfEntries |-> 1, state |-> "ok", heap |-> h]
    BY <1>4, PushIntoEmpty DEF h
  <2> HIDE DEF r
  <2>2. r \in Queue /\ Single(r)
    BY <1>1, <2>1, FreeAssumption DEF Queue, Pointer, ListState, Single
  <2> QED
    BY <2>1, <2>2 DEF Shaped, r
<1>5. CASE q.amountOfEntries + 1 <= MAX_ELEMENTS /\ Single(q)
  <2>1. q.head \in Addr /\ h[q.head] # Free /\ MAX_ELEMENTS > 1
    BY <1>5, MaxElementsAssumption, NewHeapAt DEF Single
  <2> DEFINE g == [h EXCEPT ![q.head].next = q.head]
  <2>2. r = [head |-> q.head, amountOfEntries |-> 2, state |-> "ok", heap |-> g]
    BY <1>5, <2>1, PushOntoSingle
  <2>3. g \in [Addr -> QNode \cup {Free}] /\ g[q.head] # Free /\ g[q.head].next = q.head
    BY <1>2, <2>1
  <2> HIDE DEF g, h, r
  <2>4. r \in Queue /\ Looped(r)
    BY <2>1, <2>2, <2>3 DEF Queue, Pointer, ListState, Looped
  <2> QED
    BY <2>2, <2>4 DEF Shaped, r
<1>6. CASE q.amountOfEntries + 1 <= MAX_ELEMENTS /\ Looped(q)
  <2>1. q.head \in Addr /\ h[q.head] = q.heap[q.head] /\ q.heap[q.head] # Free
        /\ q.heap[q.head].next = q.head /\ MAX_ELEMENTS > 2 /\ q.amountOfEntries = 2
    BY <1>6, MaxElementsAssumption, NewHeapAt DEF Looped
  <2>2. r = [head |-> q.head, amountOfEntries |-> 2, state |-> "hung", heap |-> h]
    BY <1>6, <2>1, PushOntoLooped
  <2> HIDE DEF h, r
  <2>3. r \in Queue /\ Looped(r)
    BY <1>1, <2>1, <2>2 DEF Queue, Pointer, ListState, Looped
  <2> QED
    BY <2>1, <2>3 DEF Shaped, r
<1>7. CASE q.amountOfEntries + 1 <= MAX_ELEMENTS /\ HeadFreed(q)
  <2>1. q.head \in Addr /\ q.state = "dangling" /\ MAX_ELEMENTS > 1
    BY <1>7, MaxElementsAssumption DEF HeadFreed, Working
  <2>2. CASE a = q.head
    <3> DEFINE g == [h EXCEPT ![q.head].next = q.head]
    <3>1. r = [head |-> q.head, amountOfEntries |-> 2, state |-> q.state, heap |-> g]
      BY <1>7, <2>1, <2>2, PushOntoFreed
    <3>2. h[q.head] # Free
      BY <1>1, <2>2
    <3>3. g \in [Addr -> QNode \cup {Free}] /\ g[q.head] # Free /\ g[q.head].next = q.head
      BY <1>2, <2>1, <3>2
    <3> HIDE DEF g, h, r
    <3>4. r \in Queue /\ Looped(r)
      BY <2>1, <3>1, <3>3 DEF Queue, Pointer, ListState, Looped
    <3> QED
      BY <2>1, <3>4 DEF Shaped, r
  <2>3. CASE a # q.head
    <3>1. r = [head |-> q.head, amountOfEntries |-> 1, state |-> "undefined", heap |-> h]
      BY <1>7, <2>1, <2>3, PushOntoFreed
    <3>2. h[q.head] = Free
      BY <1>7, <2>1, <2>3, NewHeapAt DEF HeadFreed
    <3> HIDE DEF h, r
    <3>3. r \in Queue /\ HeadFreed(r)
      BY <1>1, <2>1, <3>1, <3>2 DEF Queue, Pointer, ListState, HeadFreed
    <3> QED
      BY <2>1, <3>3 DEF Shaped, r
  <2> QED
    BY <2>2, <2>3
<1>8. q.amountOfEntries + 1 > MAX_ELEMENTS \/ q.amountOfEntries + 1 <= MAX_ELEMENTS
  BY QueueIsRecord, MaxElementsAssumption
<1> QED
  BY <1>3, <1>4, <1>5, <1>6, <1>7, <1>8 DEF Shaped

\* One more is counted by every push that returns, if there is room for more
\* than two.
LEMMA PushCounts ==
  ASSUME NEW q \in Queue, Shaped(q), Working(q), MAX_ELEMENTS > 2,
         NEW d \in Data, NEW a \in Unused(q.heap), NEW r, r = Push(q, d, a)
  PROVE  /\ Working(r) => r.amountOfEntries = q.amountOfEntries + 1
         /\ r.amountOfEntries > 0
<1>1. CASE Empty(q)
  <2>1. r = [head |-> a, amountOfEntries |-> 1, state |-> "ok", heap |-> NewHeap(q, d, a)]
    BY <1>1, PushIntoEmpty
  <2> QED
    BY <1>1, <2>1 DEF Empty
<1>2. CASE Single(q)
  <2>1. MAX_ELEMENTS > 1
    BY MaxElementsAssumption
  <2> DEFINE g == [NewHeap(q, d, a) EXCEPT ![q.head].next = q.head]
  <2>2. r = [head |-> q.head, amountOfEntries |-> 2, state |-> "ok", heap |-> g]
    BY <1>2, <2>1, PushOntoSingle
  <2> HIDE DEF g
  <2> QED
    BY <1>2, <2>2 DEF Single
<1>3. CASE Looped(q)
  <2> DEFINE h == NewHeap(q, d, a)
  <2>1. r = [head |-> q.head, amountOfEntries |-> 2, state |-> "hung", heap |-> h]
    BY <1>3, PushOntoLooped
  <2> HIDE DEF h
  <2> QED
    BY <2>1 DEF Working
<1>4. CASE HeadFreed(q)
  <2>1. MAX_ELEMENTS > 1
    BY MaxElementsAssumption
  <2> DEFINE h == NewHeap(q, d, a)
             g == [h EXCEPT ![q.head].next = q.head]
  <2>2. \/ r = [head |-> q.head, amountOfEntries |-> 2, state |-> q.state, heap |-> g]
        \/ r = [head |-> q.head, amountOfEntries |-> 1, state |-> "undefined", heap |-> h]
    BY <1>4, <2>1, PushOntoFreed
  <2> HIDE DEF g, h
  <2> QED
    BY <1>4, <2>2 DEF HeadFreed, Working
<1> QED
  BY <1>1, <1>2, <1>3, <1>4 DEF Shaped

LEMMA PopShaped ==
  ASSUME NEW q \in Queue, Shaped(q), Working(q), q.amountOfEntries > 0
  PROVE  LET r == Pop(q)
         IN  /\ r \in Queue /\ Shaped(r)
             /\ q.state = "ok" /\ r.state # "ok" => q.amountOfEntries = 2
             /\ Working(r) => r.amountOfEntries = q.amountOfEntries - 1
             /\ r.state = "ok" => r.amountOfEntries = 0
<1> DEFINE h == [q.heap EXCEPT ![q.head] = Free]
           r == Pop(q)
<1>1. h \in [Addr -> QNode \cup {Free}]
  BY QueueIsRecord
<1>2. CASE Single(q)
  <2>1. r = [head |-> NULL, amountOfEntries |-> 0, state |-> "ok", heap |-> h]
        /\ q.amountOfEntries = 1
    BY <1>2, PopOfSingle DEF Single
  <2> HIDE DEF h, r
  <2>2. r \in Queue /\ Empty(r)
    BY <1>1, <2>1 DEF Queue, Pointer, ListState, Empty
  <2> QED
    BY <2>1, <2>2 DEF Shaped, r
<1>3. CASE Looped(q)
  <2>1. r = [head |-> q.head, amountOfEntries |-> 1, state |-> "dangling", heap |-> h]
        /\ q.amountOfEntries = 2 /\ q.head \in Addr
    BY <1>3, PopOfLooped DEF Looped
  <2>2. h[q.head] = Free
    BY <2>1, QueueIsRecord
  <2> HIDE DEF h, r
  <2>3. r \in Queue /\ HeadFreed(r)
    BY <1>1, <2>1, <2>2 DEF Queue, Pointer, ListState, HeadFreed
  <2> QED
    BY <2>1, <2>3 DEF Shaped, r
<1>4. CASE HeadFreed(q)
  <2>1. r = [head |-> q.head, amountOfEntries |-> 1, state |-> "undefined", heap |-> q.heap]
        /\ q.state = "dangling"
    BY <1>4, PopOfFreed DEF HeadFreed, Working
  <2> HIDE DEF r
  <2>2. r \in Queue /\ HeadFreed(r)
    BY <1>4, <2>1, QueueIsRecord DEF Queue, ListState, HeadFreed
  <2> QED
    BY <2>1, <2>2 DEF Shaped, Working, r
<1> QED
  BY <1>2, <1>3, <1>4 DEF Shaped, Empty

\* Whatever a push does, the datagram at the head of a sound queue stays there.
LEMMA PushKeepsHead ==
  ASSUME NEW q \in Queue, Shaped(q), q.state = "ok", MAX_ELEMENTS > 2,
         NEW d \in Data, NEW a \in Unused(q.heap), Push(q, d, a).state = "ok"
  PROVE  Popped(Push(q, d, a)) = IF q.amountOfEntries = 0 THEN d ELSE Popped(q)
<1> DEFINE h == NewHeap(q, d, a)
           r == Push(q, d, a)
<1>1. a \in Addr /\ q.heap \in [Addr -> QNode \cup {Free}] /\ q.heap[a] = Free
      /\ h \in [Addr -> QNode \cup {Free}]
  BY QueueIsRecord, NewHeapAt, StoredTyped
<1>2. CASE Empty(q)
  <2>1. r.head = a /\ r.heap = h /\ q.amountOfEntries = 0
    <3>1. r = [head |-> a, amountOfEntries |-> 1, state |-> "ok", heap |-> h]
      BY <1>2, PushIntoEmpty
    <3> HIDE DEF r
    <3> QED
      BY <1>2, <3>1 DEF Empty
  <2> QED
    BY <1>1, <2>1, NewHeapAt DEF Popped
<1>3. CASE Single(q)
  <2>1. q.head \in Addr /\ a # q.head /\ q.heap[q.head] \in QNode /\ q.amountOfEntries = 1
    BY <1>1, <1>3 DEF Single
  <2>2. h[q.head] = q.heap[q.head]
    BY <2>1, NewHeapAt
  <2>3. r.head = q.head /\ r.heap = [h EXCEPT ![q.head].next = q.head]
    <3>1. MAX_ELEMENTS > 1
      BY MaxElementsAssumption
    <3>2. r = [head |-> q.head, amountOfEntries |-> 2, state |-> "ok",
               heap |-> [h EXCEPT ![q.head].next = q.head]]
      BY <1>3, <3>1, PushOntoSingle
    <3> HIDE DEF r
    <3> QED
      BY <3>2
  <2>4. r.heap[q.head] = [q.heap[q.head] EXCEPT !.next = q.head]
    BY <1>1, <2>1, <2>2, <2>3
  <2>5. r.heap[q.head].data = q.heap[q.head].data
    BY <2>1, <2>4 DEF QNode
  <2> QED
    BY <2>1, <2>3, <2>5 DEF Popped
<1>4. CASE Looped(q)
  BY <1>4, PushOntoLooped
<1> QED
  BY <1>2, <1>3, <1>4 DEF Shaped, HeadFreed

\* A queue that is not sound does not become sound again.
LEMMA SoundBeforePush ==
  ASSUME NEW q \in Queue, Shaped(q), Working(q), MAX_ELEMENTS > 1, NEW d \in Data,
         NEW a \in Unused(q.heap), Push(q, d, a).state = "ok"
  PROVE  q.state = "ok"
<1>1. CASE HeadFreed(q)
  <2> DEFINE h == NewHeap(q, d, a)
             g == [h EXCEPT ![q.head].next = q.head]
             r == Push(q, d, a)
  <2>1. \/ r = [head |-> q.head, amountOfEntries |-> 2, state |-> q.state, heap |-> g]
        \/ r = [head |-> q.head, amountOfEntries |-> 1, state |-> "undefined", heap |-> h]
    BY <1>1, PushOntoFreed
  <2> HIDE DEF h, g, r
  <2>2. r.state # "ok"
    BY <1>1, <2>1 DEF HeadFreed
  <2> QED
    BY <2>2 DEF r
<1>2. CASE Looped(q)
  <2> DEFINE h == NewHeap(q, d, a)
             r == Push(q, d, a)
  <2>1. CASE MAX_ELEMENTS > 2
    <3>1. r = [head |-> q.head, amountOfEntries |-> 2, state |-> "hung", heap |-> h]
      BY <1>2, <2>1, PushOntoLooped
    <3> HIDE DEF h, r
    <3>2. r.state # "ok"
      BY <3>1
    <3> QED
      BY <3>2 DEF r
  <2>2. CASE MAX_ELEMENTS <= 2
    <3>1. r = q
      BY <1>2, <2>2, MaxElementsAssumption DEF Looped, Push
    <3> QED
      BY <3>1 DEF r
  <2> QED
    BY <2>1, <2>2, MaxElementsAssumption
<1> QED
  BY <1>1, <1>2 DEF Shaped, Empty, Single
LEMMA SoundBeforePop ==
  ASSUME NEW q \in Queue, Shaped(q), Working(q), Pop(q).state = "ok"
  PROVE  q.state = "ok"
<1>1. CASE Looped(q)
  <2> DEFINE h == [q.heap EXCEPT ![q.head] = Free]
             r == Pop(q)
  <2>1. r = [head |-> q.head, amountOfEntries |-> 1, state |-> "dangling", heap |-> h]
    BY <1>1, PopOfLooped
  <2> HIDE DEF h, r
  <2>2. r.state # "ok"
    BY <2>1
  <2> QED
    BY <2>2 DEF r
<1>2. CASE HeadFreed(q)
  <2> DEFINE r == Pop(q)
  <2>1. r = [head |-> q.head, amountOfEntries |-> 1, state |-> "undefined", heap |-> q.heap]
    BY <1>2, PopOfFreed
  <2> HIDE DEF r
  <2>2. r.state # "ok"
    BY <2>1
  <2> QED
    BY <2>2 DEF r
<1> QED
  BY <1>1, <1>2 DEF Shaped, Empty, Single

\* A queue that is not empty and has not come to freed memory has an entry.
LEMMA HeadIsEntry ==
  ASSUME NEW q \in Queue, Shaped(q), HasHead(q)
  PROVE  Popped(q) \in Data
<1>1. q.head \in Addr /\ q.heap[q.head] \in QNode
  BY QueueIsRecord DEF HasHead, Allocated
<1> QED
  BY <1>1 DEF Popped, QNode
=============================================================================
