---------------------------- MODULE MipArp_proofs ----------------------------
(***************************************************************************)
(* The list of datagrams that wait for a MAC address is broken in one way  *)
(* only, by a response out of order; and as long as it is not, and no      *)
(* frame is lost, each of them has a request or a response under way.      *)
(*                                                                         *)
(* What the recursive functions of the list compute is proved by taking    *)
(* the least number at which they would do otherwise (LeastNatural).       *)
(***************************************************************************)
EXTENDS MipArp, FiniteSetTheorems, SequenceTheorems, WellFoundedInduction, TLAPS

-----------------------------------------------------------------------------
(* The inductive invariant.                                                *)

\* The addresses of the nodes that are allocated.
Used(h) == {a \in Addr : h[a] # Free}

\* A list without a fault: its walk from the head comes to an end, and meets
\* every node that is allocated, and no other.
Whole(l) ==
  /\ l \in List /\ l.state = "ok"
  /\ l.entries = Cardinality(Used(l.heap))
  /\ IF l.head = NULL THEN Used(l.heap) = {}
     ELSE /\ Reachable(l.heap, l.head) = Used(l.heap)
          /\ LastNode(l.heap, l.head) # {}

Sound(n) == arpWaitingList[n].state = "ok" => Whole(arpWaitingList[n])

\* The nodes of the list of n, if it is not broken.
Waits(n) ==
  IF arpWaitingList[n].state = "ok" THEN Used(arpWaitingList[n].heap) ELSE {}

\* The frames on their way from s to d.
Elems(c) == {c[i] : i \in DOMAIN c}
Under(s, d) == Elems(chan[s][d])

\* The request of n to m is under way, or a response that n will take.
Asked(n, m) ==
  \/ ArpBroadcast(n, m) \in Under(n, m)
  \/ \E f \in Under(m, n) : f.type = "ARP_RESPONSE" /\ f.to = mac[n]

AskedFor(n) == \A a \in Waits(n) : Asked(n, arpWaitingList[n].heap[a].data.dst)

IInv ==
  /\ TypeOK
  /\ \A n \in Node : Sound(n)
  /\ \A n \in Node : chan[n][n] = <<>>
  /\ losses = 0 => \A n \in Node : AskedFor(n)

-----------------------------------------------------------------------------
(* Numbers and recursion.                                                  *)

\* A set of natural numbers has a least element.
LEMMA LeastNatural ==
  ASSUME NEW T, T \subseteq Nat, T # {}
  PROVE  \E x \in T : \A y \in T : x <= y
<1> DEFINE R == {ss \in Nat \X Nat : ss[1] < ss[2]}
<1>1. IsWellFoundedOn(R, Nat)
  BY NatLessThanWellFounded DEF OpToRel
<1> HIDE DEF R
<1>2. PICK x \in T : \A y \in T : ~(<<y, x>> \in R)
  BY <1>1, WFMin
<1>3. ASSUME NEW y \in T PROVE x <= y
  <2>1. <<y, x>> \notin R /\ x \in Nat /\ y \in Nat
    BY <1>2
  <2>2. <<y, x>> \in Nat \X Nat /\ <<y, x>>[1] = y /\ <<y, x>>[2] = x
    BY <2>1
  <2>3. ~(y < x)
    BY <2>1, <2>2 DEF R
  <2> QED
    BY <2>1, <2>3
<1> QED
  BY <1>3

\* What holds of 0, and of k if it holds of k - 1, holds up to n.
LEMMA UpTo ==
  ASSUME NEW n \in Nat, NEW S, 0 \in S, \A k \in 1 .. n : k - 1 \in S => k \in S
  PROVE  0 .. n \subseteq S
<1> SUFFICES ASSUME ~(0 .. n \subseteq S) PROVE FALSE
  OBVIOUS
<1> DEFINE T == (0 .. n) \ S
<1>1. PICK x \in T : \A y \in T : x <= y
  <2>1. T \subseteq Nat /\ T # {}
    OBVIOUS
  <2> HIDE DEF T
  <2> QED
    BY <2>1, LeastNatural
<1>2. x \in 1 .. n /\ x - 1 \in 0 .. n /\ ~(x <= x - 1)
  OBVIOUS
<1>3. x - 1 \in S
  BY <1>1, <1>2
<1> QED
  BY <1>2, <1>3

\* A function on 0 .. n that is given by its first value and by a step from
\* each value to the next one: there is such a function.
Follows(f, n, V, v, g) ==
  f \in [0 .. n -> V] /\ f[0] = v /\ \A k \in 1 .. n : f[k] = g[<<k, f[k - 1]>>]

LEMMA FollowsExists ==
  ASSUME NEW n \in Nat, NEW V, NEW v \in V, NEW g \in [Nat \X V -> V]
  PROVE  \E f : Follows(f, n, V, v, g)
<1> DEFINE S == {m \in Nat : \E f : Follows(f, m, V, v, g)}
<1>1. 0 \in S
  <2>1. Follows([k \in 0 .. 0 |-> v], 0, V, v, g)
    BY DEF Follows
  <2> QED
    BY <2>1
<1>2. ASSUME NEW k \in 1 .. n, k - 1 \in S PROVE k \in S
  <2>1. PICK f : Follows(f, k - 1, V, v, g)
    BY <1>2
  <2> DEFINE w == g[<<k, f[k - 1]>>]
             e == [i \in 0 .. k |-> IF i = k THEN w ELSE f[i]]
  <2>2. f \in [0 .. (k - 1) -> V] /\ k \in Nat /\ k - 1 \in 0 .. (k - 1)
    BY <2>1 DEF Follows
  <2>3. w \in V
    BY <2>2
  <2>4. e \in [0 .. k -> V] /\ e[0] = v
    BY <2>1, <2>2, <2>3 DEF Follows
  <2>5. ASSUME NEW i \in 1 .. k PROVE e[i] = g[<<i, e[i - 1]>>]
    <3>1. e[i - 1] = f[i - 1]
      BY <2>5
    <3>2. CASE i = k
      BY <3>1, <3>2
    <3>3. CASE i # k
      <4>1. i \in 1 .. (k - 1) /\ e[i] = f[i]
        BY <3>3
      <4> QED
        BY <2>1, <3>1, <4>1 DEF Follows
    <3> QED
      BY <3>2, <3>3
  <2> HIDE DEF e
  <2>6. Follows(e, k, V, v, g)
    BY <2>4, <2>5 DEF Follows
  <2> QED
    BY <2>2, <2>6
<1> HIDE DEF S
<1>3. n \in S
  BY <1>1, <1>2, UpTo
<1> QED
  BY <1>3 DEF S

-----------------------------------------------------------------------------
(* Walks.                                                                  *)

\* The function that Walk defines by recursion is what its equation says.
LEMMA WalkSteps ==
  ASSUME NEW h, NEW p, NEW n \in Nat
  PROVE  /\ DOMAIN Walk(h, p, n) = 1 .. n
         /\ n > 0 => Walk(h, p, n)[1] = p
         /\ \A k \in 2 .. n :
              Walk(h, p, n)[k] = IF Allocated(h, Walk(h, p, n)[k - 1])
                                 THEN h[Walk(h, p, n)[k - 1]].next ELSE NULL
<1> DEFINE V == {p, NULL} \cup {h[a].next : a \in Addr}
           g == [x \in Nat \X V |-> IF Allocated(h, x[2]) THEN h[x[2]].next ELSE NULL]
           IsWalk(f) == f = [k \in 1 .. n |->
                               IF k = 1 THEN p
                               ELSE IF Allocated(h, f[k - 1]) THEN h[f[k - 1]].next
                               ELSE NULL]
<1>1. p \in V /\ g \in [Nat \X V -> V]
  BY DEF Allocated
<1>2. ASSUME NEW k \in Nat, NEW v \in V
      PROVE  g[<<k, v>>] = IF Allocated(h, v) THEN h[v].next ELSE NULL
  OBVIOUS
<1> HIDE DEF V, g
<1>3. PICK f : Follows(f, n, V, p, g)
  BY <1>1, FollowsExists
<1> DEFINE w == [k \in 1 .. n |-> f[k - 1]]
<1>4. IsWalk(w)
  <2>1. ASSUME NEW k \in 1 .. n, k # 1
        PROVE  w[k] = IF Allocated(h, w[k - 1]) THEN h[w[k - 1]].next ELSE NULL
    <3>1. k - 1 \in 1 .. n /\ k - 1 - 1 \in 0 .. n /\ k - 1 \in Nat
      BY <2>1
    <3>2. f[k - 1] = g[<<k - 1, f[k - 1 - 1]>>] /\ f[k - 1 - 1] \in V
      BY <1>3, <3>1 DEF Follows
    <3>3. w[k] = f[k - 1] /\ w[k - 1] = f[k - 1 - 1]
      BY <3>1
    <3> HIDE DEF w
    <3> QED
      BY <1>2, <3>1, <3>2, <3>3
  <2>2. 1 \in 1 .. n => w[1] = p
    BY <1>3 DEF Follows
  <2>3. w = [k \in 1 .. n |-> w[k]]
    OBVIOUS
  <2>4. ASSUME NEW k \in 1 .. n
        PROVE  w[k] = IF k = 1 THEN p
                      ELSE IF Allocated(h, w[k - 1]) THEN h[w[k - 1]].next
                      ELSE NULL
    BY <2>1, <2>2
  <2> HIDE DEF w
  <2> QED
    BY <2>3, <2>4
<1>5. Walk(h, p, n) = CHOOSE e : IsWalk(e)
  BY DEF Walk
<1> DEFINE x == Walk(h, p, n)
<1>6. IsWalk(x)
  <2> HIDE DEF IsWalk, w, x
  <2>1. IsWalk(w)
    BY <1>4
  <2>2. x = CHOOSE e : IsWalk(e)
    BY <1>5 DEF x
  <2> QED
    BY <2>1, <2>2
<1> HIDE DEF x
<1>7. DOMAIN x = 1 .. n /\ (n > 0 => x[1] = p)
  BY <1>6
<1>8. ASSUME NEW k \in 2 .. n
      PROVE  x[k] = IF Allocated(h, x[k - 1]) THEN h[x[k - 1]].next ELSE NULL
  <2>1. k \in 1 .. n /\ k # 1
    BY <1>8
  <2> QED
    BY <1>6, <2>1
<1> QED
  BY <1>7, <1>8 DEF x

Heaps == [Addr -> ListNode \cup {Free}]

\* What is reached from p: p, and what the nodes that are reached point to.
LEMMA ReachableClosed ==
  ASSUME NEW h \in Heaps, NEW p \in Addr
  PROVE  /\ Reachable(h, p) \subseteq Addr
         /\ p \in Reachable(h, p)
         /\ ClosedUnderNext(h, Reachable(h, p))
<1>1. ASSUME NEW a \in Reachable(h, p), Allocated(h, a), h[a].next # NULL
      PROVE  h[a].next \in Reachable(h, p)
  <2>1. h[a].next \in Addr
    BY <1>1 DEF Allocated, Heaps, ListNode, Pointer
  <2>2. ASSUME NEW S \in SUBSET Addr, p \in S, ClosedUnderNext(h, S)
        PROVE  h[a].next \in S
    <3>1. a \in S
      BY <2>2 DEF Reachable
    <3> QED
      BY <1>1, <2>2, <3>1 DEF ClosedUnderNext
  <2> QED
    BY <2>1, <2>2 DEF Reachable
<1>2. ClosedUnderNext(h, Reachable(h, p))
  BY <1>1 DEF ClosedUnderNext
<1> QED
  BY <1>2 DEF Reachable

\* And nothing else: it is in every closed set with p.
LEMMA ReachableLeast ==
  ASSUME NEW h, NEW p \in Addr, NEW S \in SUBSET Addr, p \in S, ClosedUnderNext(h, S)
  PROVE  Reachable(h, p) \subseteq S
BY DEF Reachable

\* A walk as long as there are nodes to be reached comes to such nodes only.
LEMMA WalkStays ==
  ASSUME NEW h \in Heaps, NEW p \in Addr,
         NEW i \in 1 .. Cardinality(Reachable(h, p))
  PROVE  Walk(h, p, Cardinality(Reachable(h, p)))[i] \in Reachable(h, p)
<1> DEFINE R == Reachable(h, p)
           n == Cardinality(R)
           w == Walk(h, p, n)
           T == {j \in 1 .. n : w[j] \notin R}
<1>1. R \subseteq Addr /\ p \in R /\ ClosedUnderNext(h, R)
  BY ReachableClosed
<1>2. IsFiniteSet(R) /\ n \in Nat
  <2> HIDE DEF R
  <2> QED
    BY <1>1, MemoryAssumption, FS_Subset, FS_CardinalityType
<1>3. /\ n > 0 => w[1] = p
      /\ \A k \in 2 .. n : w[k] = IF Allocated(h, w[k - 1]) THEN h[w[k - 1]].next ELSE NULL
  <2> HIDE DEF n
  <2> QED
    BY <1>2, WalkSteps
<1> SUFFICES ASSUME T # {} PROVE FALSE
  OBVIOUS
<1> HIDE DEF R, n, w
<1>4. PICK k \in T : \A j \in T : k <= j
  <2>1. T \subseteq Nat
    OBVIOUS
  <2> HIDE DEF T
  <2> QED
    BY <2>1, LeastNatural
<1>5. /\ k \in 2 .. n
      /\ \A j \in 1 .. (k - 1) : w[j] \in R
  <2>1. k \in 1 .. n /\ w[k] \notin R
    OBVIOUS
  <2>2. k # 1
    BY <1>1, <1>2, <1>3, <2>1
  <2>3. ASSUME NEW j \in 1 .. (k - 1) PROVE w[j] \in R
    <3>1. j \in 1 .. n /\ ~(k <= j)
      BY <1>2, <2>1
    <3> QED
      BY <1>4, <3>1
  <2> QED
    BY <1>2, <2>1, <2>2, <2>3
\* The walk ends at k - 1: those nodes are all there are.
<1> DEFINE S == {w[j] : j \in 1 .. (k - 1)}
<1>6. ~Allocated(h, w[k - 1]) \/ h[w[k - 1]].next = NULL
  <2>1. w[k] \notin R /\ w[k - 1] \in R
    BY <1>5
  <2>2. w[k] = IF Allocated(h, w[k - 1]) THEN h[w[k - 1]].next ELSE NULL
    BY <1>3, <1>5
  <2> QED
    BY <1>1, <2>1, <2>2 DEF ClosedUnderNext
<1>7. S \subseteq R /\ p \in S
  <2>1. 1 \in 1 .. (k - 1) /\ w[1] = p
    BY <1>2, <1>3, <1>5
  <2> QED
    BY <1>5, <2>1
<1>8. ClosedUnderNext(h, S)
  <2> SUFFICES ASSUME NEW j \in 1 .. (k - 1), Allocated(h, w[j]), h[w[j]].next # NULL
               PROVE  h[w[j]].next \in S
    BY DEF ClosedUnderNext
  <2>1. j # k - 1
    BY <1>6
  <2>2. j + 1 \in 2 .. n /\ j + 1 \in 1 .. (k - 1) /\ (j + 1) - 1 = j
    BY <1>2, <1>5, <2>1
  <2>3. w[j + 1] = h[w[j]].next
    BY <1>3, <2>2
  <2> QED
    BY <2>2, <2>3
<1>9. R \subseteq S
  BY <1>1, <1>7, <1>8, ReachableLeast DEF R
<1>10. Cardinality(S) <= k - 1
  <2> DEFINE f == [j \in 1 .. (k - 1) |-> w[j]]
  <2>1. f \in Surjection(1 .. (k - 1), S)
    BY DEF Surjection
  <2>2. ExistsSurjection(1 .. (k - 1), S)
    BY <2>1 DEF ExistsSurjection
  <2>3. k - 1 \in Nat
    BY <1>5
  <2> HIDE DEF S
  <2> QED
    BY <2>2, <2>3, FS_SurjCardinalityBound
<1>11. S = R
  BY <1>7, <1>9
<1>12. n <= k - 1
  BY <1>10, <1>11 DEF n
<1> QED
  BY <1>2, <1>5, <1>12

\* It comes to each of them once.
LEMMA WalkOnce ==
  ASSUME NEW h \in Heaps, NEW p \in Addr,
         NEW n, n = Cardinality(Reachable(h, p)), NEW w, w = Walk(h, p, n)
  PROVE  /\ n \in Nat \ {0} /\ DOMAIN w = 1 .. n /\ w[1] = p
         /\ \A i \in 1 .. n : w[i] \in Reachable(h, p)
         /\ \A i \in 2 .. n : Allocated(h, w[i - 1]) /\ w[i] = h[w[i - 1]].next
         /\ \A i, j \in 1 .. n : i < j => w[i] # w[j]
         /\ Reachable(h, p) = {w[i] : i \in 1 .. n}
<1> DEFINE R == Reachable(h, p)
<1>1. R \subseteq Addr /\ p \in R
  BY ReachableClosed
<1>2. IsFiniteSet(R) /\ n \in Nat \ {0}
  <2> HIDE DEF R
  <2>1. IsFiniteSet(R)
    BY <1>1, MemoryAssumption, FS_Subset
  <2> QED
    BY <1>1, <2>1, FS_CardinalityType, FS_EmptySet DEF R
<1>3. /\ DOMAIN w = 1 .. n /\ w[1] = p
      /\ \A k \in 2 .. n : w[k] = IF Allocated(h, w[k - 1]) THEN h[w[k - 1]].next ELSE NULL
  BY <1>2, WalkSteps
<1>4. \A i \in 1 .. n : w[i] \in R
  BY WalkStays
<1> HIDE DEF R
<1>5. ASSUME NEW i \in 2 .. n PROVE Allocated(h, w[i - 1]) /\ w[i] = h[w[i - 1]].next
  <2>1. i \in 1 .. n
    BY <1>2
  <2>2. w[i] # NULL
    BY <1>1, <1>4, <2>1, MemoryAssumption
  <2> QED
    BY <1>3, <2>2
<1>6. ASSUME NEW i \in 1 .. n, NEW j \in 1 .. n, i < j, w[i] = w[j] PROVE FALSE
  <2> DEFINE S == {w[x] : x \in 1 .. (j - 1)}
  <2>1. S \subseteq R /\ p \in S
    <3>1. 1 \in 1 .. (j - 1) /\ \A x \in 1 .. (j - 1) : x \in 1 .. n
      BY <1>2, <1>6
    <3> QED
      BY <1>3, <1>4, <3>1
  <2>2. ClosedUnderNext(h, S)
    <3> SUFFICES ASSUME NEW x \in 1 .. (j - 1), Allocated(h, w[x])
                 PROVE  h[w[x]].next \in S
      BY DEF ClosedUnderNext
    <3>1. x + 1 \in 2 .. n /\ (x + 1) - 1 = x
      BY <1>2
    <3>2. w[x + 1] = h[w[x]].next
      BY <1>5, <3>1
    <3>3. CASE x + 1 = j
      <4>1. i \in 1 .. (j - 1)
        BY <1>6
      <4> QED
        BY <1>6, <3>2, <3>3, <4>1
    <3>4. CASE x + 1 # j
      <4>1. x + 1 \in 1 .. (j - 1)
        BY <3>4
      <4> QED
        BY <3>2, <4>1
    <3> QED
      BY <3>3, <3>4
  <2>3. Cardinality(S) <= j - 1
    <3> DEFINE f == [x \in 1 .. (j - 1) |-> w[x]]
    <3>1. f \in Surjection(1 .. (j - 1), S)
      BY DEF Surjection
    <3>2. ExistsSurjection(1 .. (j - 1), S)
      BY <3>1 DEF ExistsSurjection
    <3>3. j - 1 \in Nat
      BY <1>2
    <3> HIDE DEF S
    <3> QED
      BY <3>2, <3>3, FS_SurjCardinalityBound
  <2> HIDE DEF S
  <2>4. S = R
    BY <1>1, <2>1, <2>2, ReachableLeast DEF R
  <2>5. n <= j - 1
    BY <2>3, <2>4 DEF R
  <2> QED
    BY <1>2, <2>5
<1>7. R = {w[i] : i \in 1 .. n}
  <2> DEFINE f == [i \in 1 .. n |-> w[i]]
  <2>1. \A i, j \in 1 .. n : w[i] = w[j] => i = j
    BY <1>2, <1>6
  <2>2. f \in Injection(1 .. n, R)
    BY <1>4, <2>1 DEF Injection, IsInjective
  <2>3. IsFiniteSet(1 .. n) /\ Cardinality(1 .. n) = n
    BY <1>2, FS_Interval
  <2>4. Cardinality(R) = n
    BY DEF R
  <2>5. f \in Surjection(1 .. n, R)
    <3> HIDE DEF f
    <3> QED
      BY <1>2, <2>2, <2>3, <2>4, FS_Injection
  <2>6. \A r \in R : \E i \in 1 .. n : w[i] = r
    BY <2>5 DEF Surjection
  <2>7. \A i \in 1 .. n : w[i] \in R
    BY <1>4
  <2> HIDE DEF R
  <2> QED
    BY <2>6, <2>7
<1> QED
  BY <1>2, <1>3, <1>4, <1>5, <1>6, <1>7 DEF R

-----------------------------------------------------------------------------
(* addEntry.                                                               *)

\* malloc and the stores to the new node change no walk.
LEMMA NewNodeReachesSame ==
  ASSUME NEW h \in Heaps, NEW p \in Addr, NEW a \in Unused(h), NEW e \in WaitEntry,
         NEW m, m = [h EXCEPT ![a] = [next |-> NULL, data |-> e]]
  PROVE  /\ m \in Heaps
         /\ Reachable(m, p) = Reachable(h, p)
<1>1. a \in Addr /\ h[a] = Free /\ [next |-> NULL, data |-> e] \in ListNode
  BY DEF Unused, ListNode, Pointer
<1>2. m \in Heaps /\ m[a] = [next |-> NULL, data |-> e] /\ \A x \in Addr \ {a} : m[x] = h[x]
  BY <1>1 DEF Heaps
<1>3. ASSUME NEW S \in SUBSET Addr
      PROVE  ClosedUnderNext(m, S) <=> ClosedUnderNext(h, S)
  <2>1. \A x \in S : (Allocated(m, x) /\ m[x].next # NULL) <=> (Allocated(h, x) /\ h[x].next # NULL)
    BY <1>1, <1>2 DEF Allocated
  <2>2. \A x \in S : Allocated(h, x) => m[x] = h[x]
    BY <1>1, <1>2 DEF Allocated
  <2> QED
    BY <2>1, <2>2 DEF ClosedUnderNext
<1>4. Reachable(m, p) = Reachable(h, p)
  BY <1>3 DEF Reachable
<1> QED
  BY <1>2, <1>4

\* A node that the last one is made to point to is reached, and is the last.
LEMMA LinkedNodeIsReached ==
  ASSUME NEW h \in Heaps, NEW p \in Addr, Reachable(h, p) = Used(h),
         NEW b \in Used(h), h[b].next = NULL,
         NEW a \in Unused(h), NEW g \in Heaps,
         g[a] # Free, g[a].next = NULL,
         g[b] # Free, g[b].next = a,
         \A x \in Addr \ {a, b} : g[x] = h[x]
  PROVE  /\ Used(g) = Used(h) \cup {a}
         /\ Reachable(g, p) = Used(g)
         /\ a \in LastNode(g, p)
<1>1. a \in Addr /\ b \in Addr /\ a # b /\ h[a] = Free /\ a # NULL
  BY MemoryAssumption DEF Unused, Used
<1>2. Used(g) = Used(h) \cup {a}
  BY <1>1 DEF Used
<1>3. Reachable(g, p) \subseteq Used(g)
  <2>1. p \in Used(g)
    BY <1>2, ReachableClosed
  <2>2. ASSUME NEW x \in Used(g), Allocated(g, x), g[x].next # NULL
        PROVE  g[x].next \in Used(g)
    <3>1. CASE x = b
      BY <1>2, <3>1
    <3>2. CASE x # b
      <4>1. x # a /\ x \in Used(h) /\ g[x] = h[x]
        BY <1>2, <2>2, <3>2 DEF Used
      <4>2. Allocated(h, x)
        BY <4>1 DEF Used, Allocated
      <4>3. h[x].next \in Reachable(h, p)
        BY <2>2, <4>1, <4>2, ReachableClosed DEF ClosedUnderNext
      <4> QED
        BY <1>2, <4>1, <4>3
    <3> QED
      BY <3>1, <3>2
  <2>3. ClosedUnderNext(g, Used(g)) /\ Used(g) \in SUBSET Addr
    BY <2>2 DEF ClosedUnderNext, Used
  <2> QED
    BY <2>1, <2>3, ReachableLeast
<1>4. Used(g) \subseteq Reachable(g, p)
  <2> DEFINE R == Reachable(g, p)
  <2>1. R \in SUBSET Addr /\ p \in R /\ ClosedUnderNext(g, R)
    BY ReachableClosed
  <2> HIDE DEF R
  <2>2. ClosedUnderNext(h, R)
    <3> SUFFICES ASSUME NEW x \in R, Allocated(h, x), h[x].next # NULL
                 PROVE  h[x].next \in R
      BY DEF ClosedUnderNext
    <3>1. x # a /\ x # b /\ x \in Addr
      BY <1>1 DEF Allocated
    <3>2. g[x] = h[x] /\ Allocated(g, x)
      BY <3>1 DEF Allocated
    <3> QED
      BY <2>1, <3>2 DEF ClosedUnderNext
  <2>3. Used(h) \subseteq R
    BY <2>1, <2>2, ReachableLeast
  <2>4. b \in R /\ Allocated(g, b)
    BY <1>1, <2>3 DEF Allocated
  <2>5. a \in R
    BY <1>1, <2>1, <2>4 DEF ClosedUnderNext
  <2> QED
    BY <1>2, <2>3, <2>5 DEF R
<1> QED
  BY <1>1, <1>2, <1>3, <1>4 DEF LastNode, Allocated

LEMMA AddEntryWhole ==
  ASSUME NEW l, Whole(l), NEW e \in WaitEntry, NEW a \in Unused(l.heap)
  PROVE  /\ Whole(AddEntry(l, e, a))
         /\ Used(AddEntry(l, e, a).heap) = Used(l.heap) \cup {a}
         /\ AddEntry(l, e, a).heap[a].data = e
         /\ \A x \in Used(l.heap) : AddEntry(l, e, a).heap[x].data = l.heap[x].data
<1> DEFINE h == l.heap
           m == [h EXCEPT ![a] = [next |-> NULL, data |-> e]]
           lm == [l EXCEPT !.heap[a] = [next |-> NULL, data |-> e]]
           r == AddEntry(l, e, a)
<1>1. /\ l \in List /\ l.state = "ok" /\ h \in Heaps
      /\ l.entries = Cardinality(Used(h))
  BY DEF Whole, List, Heaps
<1>2. a \in Addr /\ h[a] = Free /\ a \notin Used(h)
  BY DEF Unused, Used
<1>3. lm = [head |-> l.head, entries |-> l.entries, heap |-> m, state |-> "ok"]
  BY <1>1 DEF List
<1>4. IsFiniteSet(Used(h)) /\ Cardinality(Used(h)) \in Nat
      /\ Cardinality(Used(h) \cup {a}) = Cardinality(Used(h)) + 1
  <2>1. Used(h) \in SUBSET Addr
    BY DEF Used
  <2>2. IsFiniteSet(Used(h))
    BY <2>1, MemoryAssumption, FS_Subset
  <2> QED
    BY <1>2, <2>2, FS_AddElement, FS_CardinalityType
<1>5. m \in Heaps /\ m[a] = [next |-> NULL, data |-> e] /\ \A x \in Addr \ {a} : m[x] = h[x]
  BY <1>1, <1>2 DEF Heaps, ListNode, Pointer
<1>6. m[a] # Free
  BY <1>5, MemoryAssumption DEF ListNode, Pointer
\* Into the empty list.
<1>7. CASE l.head = NULL
  <2>1. r = [lm EXCEPT !.head = a, !.entries = @ + 1]
    BY <1>7 DEF AddEntry
  <2> HIDE DEF r, m, h
  <2>2. r = [head |-> a, entries |-> l.entries + 1, heap |-> m, state |-> "ok"]
    BY <1>3, <2>1
  <2>3. Used(h) = {} /\ Used(m) = {a}
    BY <1>2, <1>5, <1>6, <1>7 DEF Whole, Used, h
  <2>4. Reachable(m, a) = {a}
    <3>1. ClosedUnderNext(m, {a})
      BY <1>5 DEF ClosedUnderNext
    <3> QED
      BY <1>2, <1>5, <3>1, ReachableLeast, ReachableClosed
  <2>5. LastNode(m, a) # {}
    BY <1>2, <1>5, <1>6, <2>4 DEF LastNode, Allocated
  <2>6. r \in List
    BY <1>1, <1>2, <1>4, <1>5, <2>2 DEF List, ListState, Pointer, Heaps
  <2>7. Whole(r)
    BY <1>1, <1>2, <1>4, <2>2, <2>3, <2>4, <2>5, <2>6, MemoryAssumption DEF Whole
  <2>8. Used(r.heap) = Used(h) \cup {a} /\ r.heap[a].data = e
    BY <1>5, <2>2, <2>3
  <2> QED
    BY <2>3, <2>7, <2>8 DEF r, h
\* Behind the last node.
<1>8. CASE l.head # NULL
  <2>1. l.head \in Addr /\ Reachable(h, l.head) = Used(h) /\ LastNode(h, l.head) # {}
    BY <1>1, <1>8 DEF Whole, List, Pointer
  <2>2. Reachable(m, l.head) = Used(h)
    BY <1>1, <2>1, NewNodeReachesSame
  <2>3. ~ReachesFreed(m, l.head)
    BY <1>2, <1>5, <2>2 DEF ReachesFreed, Allocated, Used
  <2>4. LastNode(m, l.head) # {}
    BY <1>2, <1>5, <2>1, <2>2 DEF LastNode, Allocated, Used
  <2> DEFINE last == CHOOSE b \in LastNode(m, l.head) : TRUE
             g == [m EXCEPT ![last].next = a]
  <2>5. last \in LastNode(m, l.head)
    BY <2>4
  <2> HIDE DEF last
  <2>6. last \in Used(h) /\ last # a /\ last \in Addr
    BY <1>2, <2>2, <2>5 DEF LastNode, Used
  <2>7. m[last] = h[last] /\ h[last].next = NULL /\ h[last] \in ListNode
    BY <1>1, <1>5, <2>5, <2>6 DEF LastNode, Used, Heaps
  <2>8. [m[last] EXCEPT !.next = a] \in ListNode
    BY <1>2, <2>7 DEF ListNode, Pointer
  <2>9. /\ g \in Heaps /\ g[last] = [m[last] EXCEPT !.next = a]
        /\ \A x \in Addr \ {last} : g[x] = m[x]
    BY <1>5, <2>6, <2>8 DEF Heaps
  <2>10. g[last].next = a /\ g[last].data = h[last].data /\ g[last] # Free
    BY <2>7, <2>8, <2>9, MemoryAssumption DEF ListNode
  <2>11. g[a] = m[a] /\ \A x \in Addr \ {a, last} : g[x] = h[x]
    BY <1>2, <1>5, <2>6, <2>9
  <2>12. r = [lm EXCEPT !.heap[last].next = a, !.entries = @ + 1]
    <3>1. lm.heap = m
      BY <1>3
    <3> HIDE DEF lm, m
    <3>2. AddEntry(l, e, a) =
            IF l.head = NULL THEN [lm EXCEPT !.head = a, !.entries = @ + 1]
            ELSE IF ReachesFreed(lm.heap, l.head) THEN [lm EXCEPT !.state = "undefined"]
            ELSE IF LastNode(lm.heap, l.head) = {} THEN [lm EXCEPT !.state = "hung"]
            ELSE LET b == CHOOSE b \in LastNode(lm.heap, l.head) : TRUE
                 IN  [lm EXCEPT !.heap[b].next = a, !.entries = @ + 1]
      BY DEF AddEntry, lm
    <3> QED
      BY <1>8, <2>3, <2>4, <3>1, <3>2 DEF last
  <2>13. r = [head |-> l.head, entries |-> l.entries + 1, heap |-> g, state |-> "ok"]
    <3> HIDE DEF r, m
    <3> QED
      BY <1>3, <2>12
  <2> HIDE DEF r, m, h, g
  <2>14. /\ Used(g) = Used(h) \cup {a}
         /\ Reachable(g, l.head) = Used(g)
         /\ a \in LastNode(g, l.head)
    <3>1. a \in Unused(h)
      BY DEF h
    <3>2. g[a] # Free /\ g[a].next = NULL
      BY <1>5, <1>6, <2>11
    <3>3. \A x \in Addr \ {a, last} : g[x] = h[x]
      BY <2>11
    <3>4. g \in Heaps /\ g[last] # Free /\ g[last].next = a
      BY <2>9, <2>10
    <3>5. h \in Heaps /\ l.head \in Addr /\ Reachable(h, l.head) = Used(h)
          /\ last \in Used(h) /\ h[last].next = NULL
      BY <1>1, <2>1, <2>6, <2>7
    <3> QED
      BY <3>1, <3>2, <3>3, <3>4, <3>5, LinkedNodeIsReached
  <2>15. r \in List
    BY <1>1, <1>4, <2>1, <2>9, <2>13 DEF List, ListState, Pointer, Heaps
  <2>16. Whole(r)
    BY <1>1, <1>4, <1>8, <2>13, <2>14, <2>15 DEF Whole
  <2>17. \A x \in Used(h) : g[x].data = h[x].data
    BY <1>2, <2>10, <2>11 DEF Used
  <2>18. Used(r.heap) = Used(h) \cup {a} /\ r.heap[a].data = e
    BY <1>5, <2>11, <2>13, <2>14
  <2> QED
    BY <2>13, <2>16, <2>17, <2>18 DEF r, h
<1> QED
  BY <1>7, <1>8

\* A list that may be broken stays well-typed, and stays broken.
LEMMA AddEntryTyped ==
  ASSUME NEW l \in List, NEW e \in WaitEntry, NEW a \in Unused(l.heap)
  PROVE  /\ AddEntry(l, e, a) \in List
         /\ AddEntry(l, e, a).state = "ok" => l.state = "ok"
<1> DEFINE m == [l.heap EXCEPT ![a] = [next |-> NULL, data |-> e]]
           lm == [l EXCEPT !.heap[a] = [next |-> NULL, data |-> e]]
           last == CHOOSE b \in LastNode(m, l.head) : TRUE
           g == [m EXCEPT ![last].next = a]
           r == AddEntry(l, e, a)
<1>1. l.head \in Pointer /\ l.entries \in Int /\ l.heap \in Heaps /\ l.state \in ListState
  BY DEF List, Heaps
<1>2. a \in Addr
  BY DEF Unused
<1>3. lm = [head |-> l.head, entries |-> l.entries, heap |-> m, state |-> l.state]
  BY DEF List
<1>4. m \in Heaps
  BY <1>1, <1>2 DEF Heaps, ListNode, Pointer
<1>5. LastNode(m, l.head) # {} => g \in Heaps
  <2> SUFFICES ASSUME LastNode(m, l.head) # {} PROVE g \in Heaps
    OBVIOUS
  <2>1. last \in LastNode(m, l.head)
    OBVIOUS
  <2> HIDE DEF last, m
  <2>2. last \in Addr /\ m[last] \in ListNode
    BY <1>4, <2>1 DEF LastNode, Allocated, Reachable, Heaps
  <2>3. [m[last] EXCEPT !.next = a] \in ListNode
    BY <1>2, <2>2 DEF ListNode, Pointer
  <2> QED
    BY <1>4, <2>2, <2>3 DEF Heaps
<1>6. r = IF l.head = NULL THEN [lm EXCEPT !.head = a, !.entries = @ + 1]
          ELSE IF ReachesFreed(lm.heap, l.head) THEN [lm EXCEPT !.state = "undefined"]
          ELSE IF LastNode(lm.heap, l.head) = {} THEN [lm EXCEPT !.state = "hung"]
          ELSE [lm EXCEPT !.heap[last].next = a, !.entries = @ + 1]
  <2>1. lm.heap = m
    BY <1>3
  <2> HIDE DEF lm, m
  <2>2. AddEntry(l, e, a) =
          IF l.head = NULL THEN [lm EXCEPT !.head = a, !.entries = @ + 1]
          ELSE IF ReachesFreed(lm.heap, l.head) THEN [lm EXCEPT !.state = "undefined"]
          ELSE IF LastNode(lm.heap, l.head) = {} THEN [lm EXCEPT !.state = "hung"]
          ELSE LET b == CHOOSE b \in LastNode(lm.heap, l.head) : TRUE
               IN  [lm EXCEPT !.heap[b].next = a, !.entries = @ + 1]
    BY DEF AddEntry, lm
  <2> QED
    BY <2>1, <2>2 DEF last
<1> HIDE DEF r, lm, m, last, g
<1>7. \/ r = [head |-> a, entries |-> l.entries + 1, heap |-> m, state |-> l.state]
      \/ r = [head |-> l.head, entries |-> l.entries, heap |-> m, state |-> "undefined"]
      \/ r = [head |-> l.head, entries |-> l.entries, heap |-> m, state |-> "hung"]
      \/ /\ LastNode(m, l.head) # {}
         /\ r = [head |-> l.head, entries |-> l.entries + 1, heap |-> g, state |-> l.state]
  BY <1>3, <1>6 DEF g
<1> QED
  BY <1>1, <1>2, <1>4, <1>5, <1>7 DEF List, Pointer, ListState, Heaps, r

-----------------------------------------------------------------------------
(* sendWaitingMsgs.                                                        *)

\* A list that its walk can follow.
Followed(l) == l \in List /\ l.head # NULL /\ ~ReachesFreed(l.heap, l.head)

\* What its walk meets.
LEMMA NodesOfList ==
  ASSUME NEW l, Followed(l)
  PROVE  /\ l.head \in Addr /\ l.heap \in Heaps
         /\ Length(l) \in Nat \ {0}
         /\ DOMAIN Nodes(l) = 1 .. Length(l) /\ Nodes(l)[1] = l.head
         /\ \A i \in 1 .. Length(l) : Nodes(l)[i] \in Used(l.heap)
         /\ \A i \in 2 .. Length(l) : Nodes(l)[i] = l.heap[Nodes(l)[i - 1]].next
         /\ \A i, j \in 1 .. Length(l) : i < j => Nodes(l)[i] # Nodes(l)[j]
         /\ Reachable(l.heap, l.head) = {Nodes(l)[i] : i \in 1 .. Length(l)}
         /\ DOMAIN Entries(l) = 1 .. Length(l)
         /\ \A i \in 1 .. Length(l) : /\ Entries(l)[i] = l.heap[Nodes(l)[i]].data
                                      /\ Entries(l)[i] \in WaitEntry
<1>1. l.head \in Addr /\ l.heap \in Heaps
  BY DEF Followed, List, Pointer, Heaps
<1> DEFINE n == Length(l)
           w == Nodes(l)
           R == Reachable(l.heap, l.head)
<1>2. n = Cardinality(R) /\ w = Walk(l.heap, l.head, n)
  BY DEF Length, Nodes
<1>3. /\ n \in Nat \ {0} /\ DOMAIN w = 1 .. n /\ w[1] = l.head
      /\ \A i \in 1 .. n : w[i] \in R
      /\ \A i \in 2 .. n : Allocated(l.heap, w[i - 1]) /\ w[i] = l.heap[w[i - 1]].next
      /\ \A i, j \in 1 .. n : i < j => w[i] # w[j]
      /\ R = {w[i] : i \in 1 .. n}
  <2> HIDE DEF n, w
  <2> QED
    BY <1>1, <1>2, WalkOnce
<1>4. R \subseteq Used(l.heap)
  BY DEF Followed, ReachesFreed, Allocated, Used
<1>5. DOMAIN Entries(l) = 1 .. n
      /\ \A i \in 1 .. n : Entries(l)[i] = l.heap[w[i]].data
  BY <1>3 DEF Entries
<1>6. ASSUME NEW i \in 1 .. n PROVE w[i] \in Used(l.heap) /\ l.heap[w[i]].data \in WaitEntry
  <2>1. w[i] \in Used(l.heap)
    BY <1>3, <1>4
  <2>2. l.heap[w[i]] \in ListNode
    BY <1>1, <2>1 DEF Heaps, Used
  <2> QED
    BY <2>1, <2>2 DEF ListNode
<1> HIDE DEF n, w, R
<1>7. \A i \in 2 .. n : w[i] = l.heap[w[i - 1]].next
  BY <1>3
<1> QED
  BY <1>1, <1>3, <1>5, <1>6, <1>7 DEF n, w, R

\* A list without a fault is one of them.
LEMMA WholeIsFollowed ==
  ASSUME NEW l, Whole(l), l.head # NULL
  PROVE  /\ Followed(l) /\ Reachable(l.heap, l.head) = Used(l.heap)
         /\ LastNode(l.heap, l.head) # {} /\ l.entries > 0
<1>1. l \in List /\ Reachable(l.heap, l.head) = Used(l.heap) /\ LastNode(l.heap, l.head) # {}
  BY DEF Whole
<1>2. ~ReachesFreed(l.heap, l.head)
  BY <1>1 DEF ReachesFreed, Used, Allocated
<1>3. Followed(l)
  BY <1>1, <1>2 DEF Followed
<1>4. Length(l) \in Nat \ {0}
  BY <1>3, NodesOfList
<1>5. l.entries = Length(l)
  BY <1>1 DEF Whole, Length
<1> QED
  BY <1>1, <1>3, <1>4, <1>5

\* The function that Waiting defines by recursion is what its equation says.
LEMMA WaitingSteps ==
  ASSUME NEW l, Followed(l), NEW mip
  PROVE  LET n == Length(l)
             w == Waiting(l, mip)
         IN  /\ w \in [0 .. n -> Seq(WaitEntry)]
             /\ w[0] = <<>>
             /\ \A k \in 1 .. n :
                  w[k] = IF Entries(l)[k].dst = mip
                         THEN Append(w[k - 1], Entries(l)[k]) ELSE w[k - 1]
<1> DEFINE n == Length(l)
           E == Entries(l)
           V == Seq(WaitEntry)
           g == [x \in Nat \X V |->
                   IF x[1] \in 1 .. n /\ E[x[1]].dst = mip THEN Append(x[2], E[x[1]])
                   ELSE x[2]]
           IsWaiting(f) == f = [k \in 0 .. n |->
                                  IF k = 0 THEN <<>>
                                  ELSE IF E[k].dst = mip THEN Append(f[k - 1], E[k])
                                  ELSE f[k - 1]]
           w == Waiting(l, mip)
<1>1. n \in Nat /\ \A i \in 1 .. n : E[i] \in WaitEntry
  BY NodesOfList
<1>2. w = CHOOSE f : IsWaiting(f)
  BY DEF Waiting
<1> HIDE DEF n, E, w
<1>3. <<>> \in V /\ g \in [Nat \X V -> V]
  BY <1>1
<1>4. ASSUME NEW k \in 1 .. n, NEW v \in V
      PROVE  g[<<k, v>>] = IF E[k].dst = mip THEN Append(v, E[k]) ELSE v
  BY <1>1
<1> HIDE DEF V, g
<1>5. PICK f : Follows(f, n, V, <<>>, g)
  BY <1>1, <1>3, FollowsExists
<1>6. IsWaiting(f)
  <2>1. ASSUME NEW k \in 1 .. n
        PROVE  f[k] = IF E[k].dst = mip THEN Append(f[k - 1], E[k]) ELSE f[k - 1]
    <3>1. k - 1 \in 0 .. n
      BY <1>1
    <3> QED
      BY <1>4, <1>5, <3>1 DEF Follows
  <2>2. f = [k \in 0 .. n |-> f[k]] /\ f[0] = <<>>
    BY <1>5 DEF Follows
  <2>3. ASSUME NEW k \in 0 .. n
        PROVE  f[k] = IF k = 0 THEN <<>>
                      ELSE IF E[k].dst = mip THEN Append(f[k - 1], E[k]) ELSE f[k - 1]
    BY <1>1, <2>1, <2>2
  <2> QED
    BY <2>2, <2>3
<1>7. IsWaiting(w)
  <2> HIDE DEF IsWaiting
  <2> QED
    BY <1>2, <1>6
<1>8. DOMAIN w = 0 .. n /\ w[0] = <<>>
  BY <1>1, <1>7
<1>9. ASSUME NEW k \in 1 .. n
      PROVE  w[k] = IF E[k].dst = mip THEN Append(w[k - 1], E[k]) ELSE w[k - 1]
  <2>1. k \in 0 .. n /\ k # 0
    BY <1>1
  <2> QED
    BY <1>7, <2>1
<1>10. w \in [0 .. n -> V]
  <2> DEFINE S == {k \in 0 .. n : w[k] \in V}
  <2>1. 0 \in S
    BY <1>1, <1>3, <1>8
  <2>2. ASSUME NEW k \in 1 .. n, k - 1 \in S PROVE k \in S
    <3>1. w[k - 1] \in V
      BY <2>2
    <3>2. w[k] \in V
      BY <1>1, <1>9, <3>1, AppendProperties DEF V
    <3> QED
      BY <1>1, <3>2
  <2> HIDE DEF S
  <2>3. 0 .. n \subseteq S
    BY <1>1, <2>1, <2>2, UpTo
  <2>4. \A k \in 0 .. n : w[k] \in V
    BY <2>3 DEF S
  <2>5. w = [k \in 0 .. n |-> w[k]]
    BY <1>7, <1>8
  <2> QED
    BY <2>4, <2>5
<1> QED
  BY <1>8, <1>9, <1>10 DEF n, E, w, V

\* The nodes of a list that wait for mip.
NodesFor(l, mip) == {a \in Reachable(l.heap, l.head) : l.heap[a].data.dst = mip}

\* Each of them gives one entry.
LEMMA EntriesForCount ==
  ASSUME NEW l, Followed(l), NEW mip
  PROVE  /\ EntriesFor(l, mip) \in Seq(WaitEntry)
         /\ IsFiniteSet(NodesFor(l, mip))
         /\ Len(EntriesFor(l, mip)) = Cardinality(NodesFor(l, mip))
<1> DEFINE n == Length(l)
           at == Nodes(l)
           E == Entries(l)
           w == Waiting(l, mip)
           Met(k) == {a \in {at[i] : i \in 1 .. k} : l.heap[a].data.dst = mip}
           S == {k \in 0 .. n : IsFiniteSet(Met(k)) /\ Len(w[k]) = Cardinality(Met(k))}
<1>1. /\ n \in Nat \ {0}
      /\ \A i \in 1 .. n : E[i] = l.heap[at[i]].data /\ E[i] \in WaitEntry
      /\ \A i, j \in 1 .. n : i < j => at[i] # at[j]
      /\ Reachable(l.heap, l.head) = {at[i] : i \in 1 .. n}
  BY NodesOfList
<1>2. /\ w \in [0 .. n -> Seq(WaitEntry)]
      /\ w[0] = <<>>
      /\ \A k \in 1 .. n : w[k] = IF E[k].dst = mip THEN Append(w[k - 1], E[k])
                               ELSE w[k - 1]
  BY WaitingSteps
<1>3. NodesFor(l, mip) = Met(n)
  BY <1>1 DEF NodesFor
<1>4. EntriesFor(l, mip) = w[n]
  BY DEF EntriesFor
<1> HIDE DEF n, at, E, w
<1>5. 0 \in S
  <2>1. Met(0) = {}
    OBVIOUS
  <2>2. Len(w[0]) = 0
    BY <1>2, EmptySeq
  <2>3. 0 \in 0 .. n
    BY <1>1
  <2> HIDE DEF Met
  <2>4. IsFiniteSet(Met(0)) /\ Cardinality(Met(0)) = 0
    BY <2>1, FS_EmptySet
  <2> QED
    BY <2>2, <2>3, <2>4
<1>6. ASSUME NEW k \in 1 .. n, k - 1 \in S PROVE k \in S
  <2>1. IsFiniteSet(Met(k - 1)) /\ Len(w[k - 1]) = Cardinality(Met(k - 1))
    BY <1>6
  <2>2. \A i \in 1 .. k : i = k \/ i \in 1 .. (k - 1)
    BY <1>1
  <2>3. k - 1 \in 0 .. n /\ k \in 0 .. n /\ k \in 1 .. k /\ \A i \in 1 .. (k - 1) : i \in 1 .. k
    BY <1>1
  <2>4. CASE E[k].dst = mip
    <3>1. Met(k) = Met(k - 1) \cup {at[k]}
      BY <1>1, <2>2, <2>3, <2>4
    <3>2. at[k] \notin Met(k - 1)
      <4>1. ASSUME NEW i \in 1 .. (k - 1) PROVE at[i] # at[k]
        <5>1. i \in 1 .. n /\ i < k
          BY <1>1
        <5> QED
          BY <1>1, <5>1
      <4> QED
        BY <4>1
    <3>3. Len(w[k]) = Len(w[k - 1]) + 1
      <4>1. w[k] = Append(w[k - 1], E[k])
        BY <1>2, <2>4
      <4>2. w[k - 1] \in Seq(WaitEntry) /\ E[k] \in WaitEntry
        BY <1>1, <1>2, <2>3
      <4> QED
        BY <4>1, <4>2, AppendProperties
    <3> HIDE DEF Met
    <3> QED
      BY <2>1, <2>3, <3>1, <3>2, <3>3, FS_AddElement
  <2>5. CASE E[k].dst # mip
    <3>1. Met(k) = Met(k - 1)
      BY <1>1, <2>2, <2>3, <2>5
    <3>2. w[k] = w[k - 1]
      BY <1>2, <2>5
    <3> HIDE DEF Met
    <3> QED
      BY <2>1, <2>3, <3>1, <3>2
  <2> QED
    BY <2>4, <2>5
<1> HIDE DEF Met, S
<1>7. n \in S
  <2>1. 0 .. n \subseteq S
    BY <1>1, <1>5, <1>6, UpTo
  <2> QED
    BY <1>1, <2>1
<1> QED
  BY <1>1, <1>2, <1>3, <1>4, <1>7 DEF S

\* The front of the list that waits for mip ends at the first other node.
LEMMA HeadWithoutIs ==
  ASSUME NEW l, Followed(l), NEW mip
  PROVE  \/ /\ HeadWithout(l, mip) = NULL
            /\ \A i \in 1 .. Length(l) : Entries(l)[i].dst = mip
         \/ \E m \in 1 .. Length(l) :
              /\ HeadWithout(l, mip) = Nodes(l)[m] /\ Entries(l)[m].dst # mip
              /\ \A i \in 1 .. Length(l) : i < m => Entries(l)[i].dst = mip
<1> DEFINE n == Length(l)
           stays == {i \in DOMAIN Nodes(l) : Entries(l)[i].dst # mip}
           m == CHOOSE i \in stays : \A j \in stays : i <= j
<1>1. n \in Nat /\ DOMAIN Nodes(l) = 1 .. n
  BY NodesOfList
<1>2. HeadWithout(l, mip) = IF stays = {} THEN NULL ELSE Nodes(l)[m]
  BY DEF HeadWithout
<1> HIDE DEF n
<1>3. CASE stays = {}
  BY <1>1, <1>2, <1>3 DEF n
<1>4. CASE stays # {}
  <2>1. stays \subseteq 1 .. n /\ stays \subseteq Nat
    BY <1>1
  <2>2. \E i \in stays : \A j \in stays : i <= j
    <3> HIDE DEF stays
    <3> QED
      BY <1>4, <2>1, LeastNatural
  <2>3. m \in stays /\ \A j \in stays : m <= j
    BY <2>2
  <2> HIDE DEF m
  <2>4. ASSUME NEW i \in 1 .. n, i < m PROVE Entries(l)[i].dst = mip
    BY <1>1, <2>1, <2>3, <2>4
  <2>5. m \in 1 .. n /\ Entries(l)[m].dst # mip
    BY <2>1, <2>3
  <2>6. HeadWithout(l, mip) = Nodes(l)[m]
    BY <1>2, <1>4
  <2> QED
    BY <2>4, <2>5, <2>6 DEF n
<1> QED
  BY <1>3, <1>4

\* The record that RemoveTo makes.
LEMMA RemoveToIs ==
  ASSUME NEW l \in List, NEW mip, NEW p
  PROVE  RemoveTo(l, mip, p) =
           [head |-> p, entries |-> l.entries - Len(EntriesFor(l, mip)),
            heap |-> HeapWithout(l, mip),
            state |-> StateOf(l.state, HeapWithout(l, mip), p)]
<1> DEFINE h == HeapWithout(l, mip)
           k == Len(EntriesFor(l, mip))
           x == StateOf(l.state, h, p)
<1>1. l = [head |-> l.head, entries |-> l.entries, heap |-> l.heap, state |-> l.state]
  BY DEF List
<1>2. RemoveTo(l, mip, p) =
        [l EXCEPT !.head = p, !.entries = l.entries - k, !.heap = h, !.state = x]
  BY DEF RemoveTo
<1> HIDE DEF h, k, x
<1>3. RemoveTo(l, mip, p) = [head |-> p, entries |-> l.entries - k, heap |-> h, state |-> x]
  BY <1>1, <1>2
<1> QED
  BY <1>3 DEF h, k, x

LEMMA HeapWithoutTyped ==
  ASSUME NEW l, l.heap \in Heaps, NEW mip
  PROVE  /\ HeapWithout(l, mip) \in Heaps
         /\ \A a \in Addr : HeapWithout(l, mip)[a] =
              IF a \in NodesFor(l, mip) THEN Free ELSE l.heap[a]
BY DEF HeapWithout, NodesFor, Heaps

\* A list that may be broken stays well-typed, and stays broken.
LEMMA RemoveTyped ==
  ASSUME NEW l \in List, NEW mip
  PROVE  /\ Remove(l, mip) \in List
         /\ Remove(l, mip).state = "ok" => l.state = "ok"
         /\ Working(Remove(l, mip)) /\ l.head # NULL
              => EntriesFor(l, mip) \in Seq(WaitEntry)
<1> DEFINE r == Remove(l, mip)
<1>1. /\ l.head \in Pointer /\ l.entries \in Int /\ l.heap \in Heaps /\ l.state \in ListState
      /\ l = [head |-> l.head, entries |-> l.entries, heap |-> l.heap, state |-> l.state]
  BY DEF List, Heaps
<1>2. CASE l.head = NULL
  BY <1>2 DEF Remove
<1>3. ASSUME NEW x \in {"undefined", "hung"}, r = [l EXCEPT !.state = x]
      PROVE  r \in List /\ ~Working(r) /\ r.state # "ok"
  <2> HIDE DEF r
  <2>1. r = [head |-> l.head, entries |-> l.entries, heap |-> l.heap, state |-> x]
    BY <1>1, <1>3
  <2> QED
    BY <1>1, <2>1 DEF List, ListState, Working, Heaps
<1>4. CASE l.head # NULL /\ ReachesFreed(l.heap, l.head)
  <2>1. r = [l EXCEPT !.state = "undefined"]
    BY <1>4 DEF Remove
  <2> QED
    BY <1>3, <2>1
<1>5. CASE l.head # NULL /\ ~ReachesFreed(l.heap, l.head) /\ LastNode(l.heap, l.head) = {}
  <2>1. r = [l EXCEPT !.state = "undefined"] \/ r = [l EXCEPT !.state = "hung"]
    BY <1>5 DEF Remove
  <2> QED
    BY <1>3, <2>1
<1>6. CASE l.head # NULL /\ ~ReachesFreed(l.heap, l.head) /\ LastNode(l.heap, l.head) # {}
  <2> DEFINE p == HeadWithout(l, mip)
  <2>1. Followed(l)
    BY <1>6 DEF Followed
  <2>2. EntriesFor(l, mip) \in Seq(WaitEntry) /\ Len(EntriesFor(l, mip)) \in Nat
    BY <2>1, EntriesForCount, LenProperties
  <2>3. p \in Pointer
    <3>1. \A i \in 1 .. Length(l) : Nodes(l)[i] \in Addr
      BY <2>1, NodesOfList DEF Used
    <3> QED
      BY <2>1, <3>1, HeadWithoutIs DEF Pointer
  <2>4. HeapWithout(l, mip) \in Heaps
    BY <1>1, HeapWithoutTyped
  <2>5. r = RemoveTo(l, mip, p)
    BY <1>6 DEF Remove
  <2> HIDE DEF r, p
  <2>6. r = [head |-> p, entries |-> l.entries - Len(EntriesFor(l, mip)),
             heap |-> HeapWithout(l, mip),
             state |-> StateOf(l.state, HeapWithout(l, mip), p)]
    BY <2>5, RemoveToIs
  <2>7. /\ StateOf(l.state, HeapWithout(l, mip), p) \in ListState
        /\ StateOf(l.state, HeapWithout(l, mip), p) = "ok" => l.state = "ok"
    BY <1>1 DEF StateOf, ListState
  <2>8. l.entries - Len(EntriesFor(l, mip)) \in Int
    BY <1>1, <2>2
  <2> QED
    BY <2>2, <2>3, <2>4, <2>6, <2>7, <2>8 DEF List, Heaps, r
<1> QED
  BY <1>2, <1>4, <1>5, <1>6

\* Removing the nodes for mip leaves a list without a fault, unless one of them
\* stands behind a node for another neighbour.
LEMMA RemoveWhole ==
  ASSUME NEW l, Whole(l), l.head # NULL, NEW mip, NEW r, r = Remove(l, mip)
  PROVE  /\ r.state = "ok" =>
              /\ Whole(r)
              /\ \A a \in Used(r.heap) : /\ a \in Used(l.heap) /\ r.heap[a] = l.heap[a]
                                        /\ r.heap[a].data.dst # mip
         /\ r.state # "ok" => OutOfOrder(l, mip)
<1> DEFINE h == l.heap
           g == HeapWithout(l, mip)
           n == Length(l)
           at == Nodes(l)
           E == Entries(l)
           G == NodesFor(l, mip)
           q == HeadWithout(l, mip)
<1>1. /\ Followed(l) /\ l \in List /\ l.state = "ok" /\ l.entries = Cardinality(Used(h))
      /\ Reachable(h, l.head) = Used(h) /\ LastNode(h, l.head) # {}
  BY WholeIsFollowed DEF Whole
<1>2. /\ l.head \in Addr /\ h \in Heaps
      /\ n \in Nat \ {0}
      /\ \A i \in 1 .. n : at[i] \in Used(h) /\ E[i] = h[at[i]].data
      /\ \A i \in 2 .. n : at[i] = h[at[i - 1]].next
      /\ \A i, j \in 1 .. n : i < j => at[i] # at[j]
      /\ Used(h) = {at[i] : i \in 1 .. n}
      /\ DOMAIN E = 1 .. n
  BY <1>1, NodesOfList
<1>3. g \in Heaps /\ \A a \in Addr : g[a] = IF a \in G THEN Free ELSE h[a]
  BY <1>2, HeapWithoutTyped
<1>4. \A i \in 1 .. n : at[i] \in G <=> E[i].dst = mip
  BY <1>1, <1>2 DEF NodesFor
<1>5. Used(g) = Used(h) \ G
  BY <1>2, <1>3 DEF Used
<1>6. r = [head |-> q, entries |-> l.entries - Len(EntriesFor(l, mip)), heap |-> g,
           state |-> StateOf("ok", g, q)]
  <2>1. ~ReachesFreed(h, l.head)
    BY <1>1 DEF Followed
  <2>2. r = RemoveTo(l, mip, q)
    BY <1>1, <2>1 DEF Remove
  <2> HIDE DEF q, g
  <2>3. r = [head |-> q, entries |-> l.entries - Len(EntriesFor(l, mip)), heap |-> g,
             state |-> StateOf(l.state, g, q)]
    BY <1>1, <2>2, RemoveToIs DEF g
  <2> QED
    BY <1>1, <2>3
<1>7. l.entries - Len(EntriesFor(l, mip)) = Cardinality(Used(g))
  <2>1. IsFiniteSet(G) /\ Len(EntriesFor(l, mip)) = Cardinality(G)
    BY <1>1, EntriesForCount
  <2>2. IsFiniteSet(Used(h)) /\ IsFiniteSet(Used(g))
    <3>1. Used(h) \in SUBSET Addr /\ Used(g) \in SUBSET Addr
      BY DEF Used
    <3> QED
      BY <3>1, MemoryAssumption, FS_Subset
  <2>3. G \subseteq Used(h)
    BY <1>1 DEF NodesFor
  <2>4. Used(g) \cup G = Used(h) /\ Used(g) \cap G = {}
    BY <1>5, <2>3
  <2> HIDE DEF G, g, h
  <2>5. Cardinality(Used(h)) = Cardinality(Used(g)) + Cardinality(G) - 0
    BY <2>1, <2>2, <2>4, FS_Union, FS_EmptySet
  <2>6. Cardinality(Used(g)) \in Nat /\ Cardinality(G) \in Nat
    BY <2>1, <2>2, FS_CardinalityType
  <2> QED
    BY <1>1, <2>1, <2>5, <2>6
<1>8. r \in List
  BY <1>1, RemoveTyped
<1>9. \A a \in Used(g) : a \in Used(h) /\ g[a] = h[a] /\ g[a].data.dst # mip
  <2> SUFFICES ASSUME NEW a \in Used(g)
               PROVE  a \in Used(h) /\ g[a] = h[a] /\ g[a].data.dst # mip
    OBVIOUS
  <2>1. a \in Used(h) /\ a \notin G /\ a \in Addr
    BY <1>5 DEF Used
  <2>2. h[a].data.dst # mip
    BY <1>1, <2>1 DEF NodesFor
  <2> QED
    BY <1>3, <2>1, <2>2
<1> HIDE DEF g, n, at, E, G, q
<1>10. r.head = q /\ r.heap = g /\ r.entries = Cardinality(Used(g))
       /\ r.state = StateOf("ok", g, q)
  BY <1>6, <1>7
<1>11. CASE q = NULL /\ \A i \in 1 .. n : E[i].dst = mip
  <2>1. Used(g) = {}
    BY <1>2, <1>4, <1>5, <1>11
  <2>2. r.state = "ok"
    BY <1>10, <1>11, MemoryAssumption DEF StateOf, ReachesFreed, Reachable
  <2>3. Whole(r)
    BY <1>8, <1>10, <1>11, <2>1, <2>2 DEF Whole
  <2> QED
    BY <1>9, <1>10, <2>2, <2>3 DEF h
<1>12. CASE \E m \in 1 .. n : /\ q = at[m] /\ E[m].dst # mip
                            /\ \A i \in 1 .. n : i < m => E[i].dst = mip
  <2>1. PICK m \in 1 .. n : /\ q = at[m] /\ E[m].dst # mip
                            /\ \A i \in 1 .. n : i < m => E[i].dst = mip
    BY <1>12
  <2> DEFINE T == {at[i] : i \in m .. n}
  <2>2. q \in Addr /\ q \in T /\ q # NULL
    <3>1. m \in m .. n
      BY <1>2
    <3> QED
      BY <1>2, <2>1, <3>1, MemoryAssumption DEF Used
  <2>3. Used(g) \subseteq T
    <3> SUFFICES ASSUME NEW i \in 1 .. n, at[i] \in Used(g) PROVE at[i] \in T
      BY <1>2, <1>5
    <3>1. E[i].dst # mip
      BY <1>4, <1>5
    <3>2. i \in m .. n
      BY <1>2, <2>1, <3>1
    <3> QED
      BY <3>2
  <2>4. h[at[n]].next = NULL
    <3>1. PICK i \in 1 .. n : h[at[i]].next = NULL
      BY <1>1, <1>2 DEF LastNode
    <3>2. CASE i = n
      BY <3>1, <3>2
    <3>3. CASE i # n
      <4>1. i + 1 \in 2 .. n /\ i + 1 \in 1 .. n /\ (i + 1) - 1 = i
        BY <1>2, <3>3
      <4>2. at[i + 1] = NULL /\ at[i + 1] \in Addr
        BY <1>2, <3>1, <4>1 DEF Used
      <4> QED
        BY <4>2, MemoryAssumption
    <3> QED
      BY <3>2, <3>3
  <2> DEFINE R == Reachable(g, q)
  <2>5. R \subseteq Addr /\ q \in R /\ ClosedUnderNext(g, R)
    BY <1>3, <2>2, ReachableClosed
  <2> HIDE DEF R
  <2>6. ASSUME r.state = "ok" PROVE Whole(r)
    <3>1. ~ReachesFreed(g, q)
      BY <1>10, <2>6 DEF StateOf
    <3>2. R \subseteq Used(g) /\ \A a \in R : Allocated(g, a)
      BY <2>5, <3>1 DEF ReachesFreed, Allocated, Used, R
    <3> DEFINE S == {k \in 0 .. (n - m) : at[m + k] \in R}
    <3>3. 0 \in S
      BY <1>2, <2>1, <2>5
    <3>4. ASSUME NEW k \in 1 .. (n - m), k - 1 \in S PROVE k \in S
      <4>1. /\ m + k \in 2 .. n /\ (m + k) - 1 = m + (k - 1) /\ k \in 0 .. (n - m)
            /\ m + k \in 1 .. n
        BY <1>2
      <4>2. at[m + (k - 1)] \in R
        BY <3>4
      <4>3. at[m + k] = h[at[m + (k - 1)]].next
        BY <1>2, <4>1
      <4>4. at[m + k] # NULL
        BY <1>2, <4>1, MemoryAssumption DEF Used
      <4>5. Allocated(g, at[m + (k - 1)]) /\ g[at[m + (k - 1)]] = h[at[m + (k - 1)]]
        BY <1>9, <3>2, <4>2
      <4>6. at[m + k] \in R
        BY <2>5, <4>2, <4>3, <4>4, <4>5 DEF ClosedUnderNext
      <4> QED
        BY <4>1, <4>6
    <3> HIDE DEF S
    <3>5. n - m \in Nat
      BY <1>2
    <3>6. 0 .. (n - m) \subseteq S
      BY <3>3, <3>4, <3>5, UpTo
    <3>7. \A i \in m .. n : at[i] \in R
      <4> SUFFICES ASSUME NEW i \in m .. n PROVE at[i] \in R
        OBVIOUS
      <4>1. i - m \in 0 .. (n - m) /\ m + (i - m) = i
        BY <1>2
      <4>2. at[m + (i - m)] \in R
        BY <3>6, <4>1 DEF S
      <4> QED
        BY <4>1, <4>2
    <3>8. R = Used(g)
      BY <2>3, <3>2, <3>7
    <3>9. at[n] \in LastNode(g, q)
      <4>1. n \in m .. n
        BY <1>2
      <4>2. at[n] \in R /\ Allocated(g, at[n]) /\ g[at[n]] = h[at[n]]
        BY <1>9, <3>2, <3>7, <4>1
      <4> QED
        BY <2>4, <4>2 DEF LastNode, R
    <3> QED
      BY <1>8, <1>10, <2>2, <2>6, <3>8, <3>9 DEF Whole, R
  <2>7. ASSUME ~OutOfOrder(l, mip) PROVE r.state = "ok"
    <3>1. \A i \in m .. n : i \in 1 .. n /\ E[i].dst # mip
      <4> SUFFICES ASSUME NEW i \in m .. n PROVE i \in 1 .. n /\ E[i].dst # mip
        OBVIOUS
      <4>1. i \in 1 .. n /\ (i = m \/ m < i)
        BY <1>2
      <4> QED
        BY <1>2, <2>1, <2>7, <4>1 DEF OutOfOrder, E
    <3>2. \A a \in T : Allocated(g, a) /\ g[a] = h[a]
      <4> SUFFICES ASSUME NEW i \in m .. n PROVE Allocated(g, at[i]) /\ g[at[i]] = h[at[i]]
        OBVIOUS
      <4>1. at[i] \in Used(g)
        BY <1>2, <1>4, <1>5, <3>1
      <4> QED
        BY <1>9, <4>1 DEF Allocated, Used
    <3>3. ClosedUnderNext(g, T)
      <4> SUFFICES ASSUME NEW i \in m .. n, g[at[i]].next # NULL
                   PROVE  g[at[i]].next \in T
        BY DEF ClosedUnderNext
      <4>1. g[at[i]] = h[at[i]]
        BY <3>2
      <4>2. i # n
        BY <2>4, <4>1
      <4>3. i + 1 \in 2 .. n /\ i + 1 \in m .. n /\ (i + 1) - 1 = i
        BY <1>2, <4>2
      <4>4. at[i + 1] = g[at[i]].next
        BY <1>2, <4>1, <4>3
      <4> QED
        BY <4>3, <4>4
    <3>4. T \in SUBSET Addr
      BY <1>2, <3>1 DEF Used
    <3> HIDE DEF T
    <3>5. R \subseteq T
      BY <2>2, <3>3, <3>4, ReachableLeast DEF R
    <3>6. ~ReachesFreed(g, q)
      BY <3>2, <3>5 DEF ReachesFreed, R
    <3> QED
      BY <1>10, <3>6 DEF StateOf
  <2> QED
    BY <1>9, <1>10, <2>6, <2>7 DEF h
<1> QED
  BY <1>1, <1>11, <1>12, HeadWithoutIs DEF n, at, E, q

-----------------------------------------------------------------------------
(* Channels.                                                               *)

LEMMA ElemsTail ==
  ASSUME NEW S, NEW c \in Seq(S), c # <<>>
  PROVE  \A f \in Elems(c) : f \in Elems(Tail(c)) \/ f = Head(c)
<1> SUFFICES ASSUME NEW i \in DOMAIN c, c[i] # Head(c) PROVE c[i] \in Elems(Tail(c))
  BY DEF Elems
<1> DEFINE n == Len(c)
<1>1. n \in Nat /\ DOMAIN c = 1 .. n /\ Head(c) = c[1]
  BY HeadTailProperties, LenProperties
<1>2. Len(Tail(c)) = n - 1 /\ \A j \in 1 .. (n - 1) : Tail(c)[j] = c[j + 1]
  BY HeadTailProperties
<1>3. Tail(c) \in Seq(S)
  BY HeadTailProperties
<1>4. DOMAIN Tail(c) = 1 .. (n - 1)
  BY <1>2, <1>3, LenProperties
<1> HIDE DEF n
<1>5. i \in 1 .. n /\ i # 1
  BY <1>1
<1>6. i - 1 \in 1 .. (n - 1) /\ (i - 1) + 1 = i
  BY <1>1, <1>5
<1> QED
  BY <1>2, <1>4, <1>6 DEF Elems

LEMMA ElemsConcat ==
  ASSUME NEW S, NEW c \in Seq(S), NEW w \in Seq(S)
  PROVE  c \o w \in Seq(S) /\ Elems(c) \subseteq Elems(c \o w)
<1>1. /\ c \o w \in Seq(S) /\ Len(c \o w) = Len(c) + Len(w)
      /\ \A i \in 1 .. Len(c) : (c \o w)[i] = c[i]
  BY ConcatProperties
<1>2. DOMAIN c = 1 .. Len(c) /\ DOMAIN (c \o w) = 1 .. (Len(c) + Len(w))
      /\ Len(c) \in Nat /\ Len(w) \in Nat
  BY <1>1, LenProperties
<1>3. \A i \in DOMAIN c : i \in DOMAIN (c \o w) /\ (c \o w)[i] = c[i]
  BY <1>1, <1>2
<1> QED
  BY <1>1, <1>3 DEF Elems

LEMMA ElemsAppend ==
  ASSUME NEW S, NEW c \in Seq(S), NEW e \in S
  PROVE  Append(c, e) \in Seq(S) /\ Elems(c) \cup {e} \subseteq Elems(Append(c, e))
<1> DEFINE a == Append(c, e)
           n == Len(c)
<1>1. /\ a \in Seq(S) /\ Len(a) = n + 1 /\ a[n + 1] = e
      /\ \A i \in 1 .. n : a[i] = c[i]
  BY AppendProperties
<1>2. DOMAIN c = 1 .. n /\ n \in Nat
  BY LenProperties
<1> HIDE DEF a, n
<1>3. DOMAIN a = 1 .. (n + 1)
  BY <1>1, LenProperties
<1>4. \A i \in DOMAIN c : i \in DOMAIN a /\ a[i] = c[i]
  BY <1>1, <1>2, <1>3
<1>5. n + 1 \in DOMAIN a
  BY <1>2, <1>3
<1> QED
  BY <1>1, <1>4, <1>5 DEF Elems, a

\* n takes a frame of s, and v is on its way to s then.
LEMMA FrameTaken ==
  ASSUME IInv, NEW n \in Node, NEW s \in Node, chan[s][n] # <<>>,
         NEW v \in Seq(Frame), Elems(chan[n][s]) \subseteq Elems(v),
         s # n => chan' = [chan EXCEPT ![s][n] = Tail(chan[s][n]), ![n][s] = v]
  PROVE  /\ s # n
         /\ chan' \in [Node -> [Node -> Seq(Frame)]]
         /\ \A x \in Node : chan'[x][x] = <<>>
         /\ chan'[n][s] = v
         /\ \A x, y \in Node : \A f \in Under(x, y) :
              f \in Under(x, y)' \/ (x = s /\ y = n /\ f = Head(chan[s][n]))
<1>1. chan \in [Node -> [Node -> Seq(Frame)]] /\ \A x \in Node : chan[x][x] = <<>>
  BY DEF IInv, TypeOK
<1>2. s # n
  BY <1>1
<1>3. Tail(chan[s][n]) \in Seq(Frame)
  BY <1>1, HeadTailProperties
<1>4. /\ chan' \in [Node -> [Node -> Seq(Frame)]]
      /\ chan'[s][n] = Tail(chan[s][n]) /\ chan'[n][s] = v
      /\ \A x, y \in Node : (x # s \/ y # n) /\ (x # n \/ y # s) => chan'[x][y] = chan[x][y]
  <2>1. chan' = [chan EXCEPT ![s][n] = Tail(chan[s][n]), ![n][s] = v]
    BY <1>2
  <2> QED
    BY <1>1, <1>2, <1>3, <2>1
<1>5. \A x \in Node : chan'[x][x] = <<>>
  BY <1>1, <1>2, <1>4
<1>6. ASSUME NEW x \in Node, NEW y \in Node, NEW f \in Under(x, y),
             ~(x = s /\ y = n /\ f = Head(chan[s][n]))
      PROVE  f \in Under(x, y)'
  <2>1. CASE x = s /\ y = n
    BY <1>1, <1>4, <1>6, <2>1, ElemsTail DEF Under
  <2>2. CASE x = n /\ y = s
    BY <1>4, <1>6, <2>2 DEF Under
  <2>3. CASE (x # s \/ y # n) /\ (x # n \/ y # s)
    <3>1. chan'[x][y] = chan[x][y]
      BY <1>4, <2>3
    <3> QED
      BY <1>6, <3>1 DEF Under
  <2> QED
    BY <2>1, <2>2, <2>3
<1> QED
  BY <1>2, <1>4, <1>5, <1>6

\* A request or a response that is still there.
LEMMA AskedKept ==
  ASSUME NEW n \in Node, NEW m \in Node, Asked(n, m), mac'[n] = mac[n],
         \A f \in Under(n, m) :
           f.type = "ARP_BROADCAST" /\ f.to = EveryMac /\ f.lookup = m => f \in Under(n, m)',
         \A f \in Under(m, n) :
           f.type = "ARP_RESPONSE" /\ f.to = mac[n] => f \in Under(m, n)'
  PROVE  Asked(n, m)'
<1>1. ArpBroadcast(n, m)' = ArpBroadcast(n, m)
  BY DEF ArpBroadcast
<1>2. /\ ArpBroadcast(n, m).type = "ARP_BROADCAST"
      /\ ArpBroadcast(n, m).to = EveryMac /\ ArpBroadcast(n, m).lookup = m
  BY DEF ArpBroadcast
<1>3. CASE ArpBroadcast(n, m) \in Under(n, m)
  <2>1. ArpBroadcast(n, m) \in Under(n, m)'
    BY <1>2, <1>3
  <2> QED
    BY <1>1, <2>1 DEF Asked
<1>4. CASE \E f \in Under(m, n) : f.type = "ARP_RESPONSE" /\ f.to = mac[n]
  BY <1>4 DEF Asked
<1> QED
  BY <1>3, <1>4 DEF Asked

-----------------------------------------------------------------------------
(* The cache and the frames.                                               *)

LEMMA FirstIsIndex ==
  ASSUME NEW S, NEW c \in Seq(S), NEW m, InCache(c, m)
  PROVE  First(c, m) \in DOMAIN c
<1> DEFINE T == IndicesOf(c, m)
<1>1. T \subseteq DOMAIN c /\ T # {}
  BY DEF IndicesOf, InCache
<1>2. DOMAIN c \subseteq Nat
  BY LenProperties
<1>3. First(c, m) = CHOOSE i \in T : \A j \in T : i <= j
  BY DEF First
<1> HIDE DEF T
<1>4. \E i \in T : \A j \in T : i <= j
  BY <1>1, <1>2, LeastNatural
<1> QED
  BY <1>1, <1>3, <1>4

LEMMA CacheTyped ==
  ASSUME NEW c \in Seq(ArpEntry), NEW m \in Node, NEW a \in Mac
  PROVE  /\ AddArpEntry(c, m, a) \in Seq(ArpEntry)
         /\ InCache(AddArpEntry(c, m, a), m)
         /\ InCache(c, m) => /\ UpdateArpEntry(c, m, a) \in Seq(ArpEntry)
                             /\ GetCacheEntry(c, m).mac \in Mac
<1> DEFINE e == [mip |-> m, mac |-> a]
<1>1. e \in ArpEntry /\ e.mip = m
  BY DEF ArpEntry
<1>2. /\ AddArpEntry(c, m, a) \in Seq(ArpEntry)
      /\ Len(c) + 1 \in DOMAIN AddArpEntry(c, m, a)
      /\ AddArpEntry(c, m, a)[Len(c) + 1] = e
  <2> HIDE DEF e
  <2>1. /\ Append(c, e) \in Seq(ArpEntry) /\ Len(Append(c, e)) = Len(c) + 1
        /\ Append(c, e)[Len(c) + 1] = e
    BY <1>1, AppendProperties
  <2>2. DOMAIN Append(c, e) = 1 .. (Len(c) + 1) /\ Len(c) \in Nat
    BY <2>1, LenProperties
  <2>3. Len(c) + 1 \in DOMAIN Append(c, e)
    BY <2>2
  <2> QED
    BY <2>1, <2>3 DEF AddArpEntry, e
<1>3. InCache(AddArpEntry(c, m, a), m)
  BY <1>1, <1>2 DEF InCache, IndicesOf
<1>4. ASSUME InCache(c, m)
      PROVE  UpdateArpEntry(c, m, a) \in Seq(ArpEntry) /\ GetCacheEntry(c, m).mac \in Mac
  <2> DEFINE i == First(c, m)
  <2>1. i \in DOMAIN c
    BY <1>4, FirstIsIndex
  <2>2. c[i] \in ArpEntry
    BY <2>1, ElementOfSeq, LenProperties
  <2>3. [c[i] EXCEPT !.mac = a] \in ArpEntry
    BY <2>2 DEF ArpEntry
  <2>4. c \in [1 .. Len(c) -> ArpEntry] /\ Len(c) \in Nat /\ DOMAIN c = 1 .. Len(c)
    BY LenProperties
  <2> HIDE DEF i
  <2>5. [c EXCEPT ![i].mac = a] \in [1 .. Len(c) -> ArpEntry]
    BY <2>1, <2>3, <2>4
  <2>6. [c EXCEPT ![i].mac = a] \in Seq(ArpEntry)
    BY <2>4, <2>5
  <2> QED
    BY <2>2, <2>6 DEF UpdateArpEntry, GetCacheEntry, ArpEntry, i
<1> QED
  BY <1>2, <1>3, <1>4

LEMMA FramesTyped ==
  ASSUME TypeOK, NEW n \in Node
  PROVE  /\ \A d \in Node : ArpBroadcast(n, d) \in Frame
         /\ \A m \in Mac : ArpResponse(n, m) \in Frame
         /\ \A m \in Mac, id \in Id : Datagram(id, m) \in Frame
BY DEF TypeOK, ArpBroadcast, ArpResponse, Datagram, Frame

\* The frame that arrives.
LEMMA ArrivesTyped ==
  ASSUME TypeOK, NEW n \in Node, NEW s \in Node, NEW t, Arrives(n, s, t)
  PROVE  /\ chan[s][n] # <<>> /\ Head(chan[s][n]) \in Frame /\ Head(chan[s][n]).type = t
         /\ t = "ARP_BROADCAST" => /\ Head(chan[s][n]).from \in Mac
                                   /\ Head(chan[s][n]).lookup \in Node
         /\ t = "ARP_RESPONSE" => Head(chan[s][n]).from \in Mac
         /\ t = "DATA" => Head(chan[s][n]).id \in Id
<1> DEFINE f == Head(chan[s][n])
<1>1. chan[s][n] # <<>> /\ f.type = t /\ chan[s][n] \in Seq(Frame)
  BY DEF Arrives, TypeOK
<1>2. f \in Frame
  BY <1>1, HeadTailProperties
<1> HIDE DEF f
<1>3. /\ f.type = "ARP_BROADCAST" => f.from \in Mac /\ f.lookup \in Node
      /\ f.type = "ARP_RESPONSE" => f.from \in Mac
      /\ f.type = "DATA" => f.id \in Id
  BY <1>2 DEF Frame
<1> QED
  BY <1>1, <1>2, <1>3 DEF f

LEMMA DestinationsTyped ==
  ASSUME IInv, NEW n \in Node, NEW a \in Waits(n)
  PROVE  arpWaitingList[n].heap[a].data \in WaitEntry
         /\ arpWaitingList[n].heap[a].data.dst \in Node
<1>1. a \in Addr /\ arpWaitingList[n].heap[a] \in ListNode
  BY DEF IInv, TypeOK, List, Used, Waits
<1> QED
  BY <1>1 DEF ListNode, WaitEntry

\* Steps that take no request for the node they reach, nor a response for it.
LEMMA AskedForKept ==
  ASSUME IInv, UNCHANGED <<arpWaitingList, mac>>, losses = 0,
         \A x, y \in Node : \A f \in Under(x, y) :
           \/ f \in Under(x, y)'
           \/ /\ ~(f.type = "ARP_BROADCAST" /\ f.to = EveryMac /\ f.lookup = y)
              /\ ~(f.type = "ARP_RESPONSE" /\ f.to = mac[y])
  PROVE  \A n \in Node : AskedFor(n)'
<1> SUFFICES ASSUME NEW n \in Node, NEW a \in Waits(n),
                    NEW m \in Node, m = arpWaitingList[n].heap[a].data.dst
             PROVE  Asked(n, m)'
  BY DestinationsTyped DEF AskedFor, Waits
<1>1. Asked(n, m)
  BY DEF IInv, AskedFor
<1>2. \A f \in Under(n, m) :
        f.type = "ARP_BROADCAST" /\ f.to = EveryMac /\ f.lookup = m => f \in Under(n, m)'
  OBVIOUS
<1>3. \A f \in Under(m, n) :
        f.type = "ARP_RESPONSE" /\ f.to = mac[n] => f \in Under(m, n)'
  OBVIOUS
<1> QED
  BY <1>1, <1>2, <1>3, AskedKept

\* The list at the start.
LEMMA EmptyWhole == Whole(CreateLinkedList) /\ Used(CreateLinkedList.heap) = {}
<1>1. Used(EmptyHeap) = {}
  BY DEF Used, EmptyHeap
<1>2. CreateLinkedList \in List
  BY DEF CreateLinkedList, List, EmptyHeap, Pointer, ListState
<1> QED
  BY <1>1, <1>2, FS_EmptySet DEF CreateLinkedList, Whole

LEMMA InitSound == Init => IInv
<1> SUFFICES ASSUME Init PROVE IInv
  OBVIOUS
<1>1. TypeOK
  BY EmptyWhole, BoundsAssumption DEF Init, TypeOK, Whole, Mac
<1>2. \A n \in Node : arpWaitingList[n] = CreateLinkedList /\ chan[n][n] = <<>>
  BY DEF Init
<1>3. \A n \in Node : Sound(n) /\ AskedFor(n)
  BY <1>2, EmptyWhole DEF Sound, AskedFor, Waits
<1> QED
  BY <1>1, <1>2, <1>3 DEF IInv

-----------------------------------------------------------------------------
(* The actions.                                                            *)

\* Steps that leave the lists alone.
LEMMA SameLists ==
  ASSUME IInv, UNCHANGED arpWaitingList
  PROVE  \A n \in Node : Sound(n)'
BY DEF IInv, Sound

LEMMA SendDataSound ==
  ASSUME IInv, NEW n \in Node, NEW d \in Node, SendData(n, d) PROVE IInv'
<1>1. /\ sent' \in Id /\ sent' \in 0 .. MaxData
      /\ UNCHANGED <<arpCache, mac, delivered, losses>>
      /\ <<n, d>> \in Traffic /\ Ready(n)
  BY BoundsAssumption DEF SendData, IInv, TypeOK, Id
<1>2. n # d /\ d \in LinkedTo(n) /\ n \notin LinkedTo(n)
  BY <1>1, TrafficAssumption DEF LinkedTo
<1>3. /\ TypeOK /\ chan \in [Node -> [Node -> Seq(Frame)]]
      /\ arpCache[n] \in Seq(ArpEntry)
      /\ \A x \in Node : chan[x][x] = <<>>
      /\ arpWaitingList \in [Node -> List]
  BY DEF IInv, TypeOK
<1>4. CASE SendCached(n, d)
  <2> DEFINE m == GetCacheEntry(arpCache[n], d).mac
             f == Datagram(sent', m)
             v == Append(chan[n][d], f)
  <2>1. InCache(arpCache[n], d) /\ UNCHANGED arpWaitingList
        /\ chan' = [chan EXCEPT ![n][d] = v]
    BY <1>4 DEF SendCached
  <2>2. f \in Frame
    <3>1. m \in Mac
      BY <1>3, <2>1, CacheTyped DEF Mac
    <3> HIDE DEF m
    <3> QED
      BY <1>1, <1>3, <3>1, FramesTyped
  <2> HIDE DEF f
  <2>3. v \in Seq(Frame) /\ Elems(chan[n][d]) \subseteq Elems(v)
    BY <1>3, <2>2, ElemsAppend
  <2> HIDE DEF v
  <2>4. /\ chan' \in [Node -> [Node -> Seq(Frame)]] /\ chan'[n][d] = v
        /\ \A x, y \in Node : x # n \/ y # d => chan'[x][y] = chan[x][y]
    BY <1>3, <2>1, <2>3
  <2>5. \A x, y \in Node : \A g \in Under(x, y) : g \in Under(x, y)'
    <3> SUFFICES ASSUME NEW x \in Node, NEW y \in Node, NEW g \in Under(x, y)
                 PROVE  g \in Under(x, y)'
      OBVIOUS
    <3>1. CASE x = n /\ y = d
      BY <2>3, <2>4, <3>1 DEF Under
    <3>2. CASE x # n \/ y # d
      BY <2>4, <3>2 DEF Under
    <3> QED
      BY <3>1, <3>2
  <2>6. \A x \in Node : chan'[x][x] = <<>>
    BY <1>2, <1>3, <2>4
  <2>7. TypeOK'
    BY <1>1, <1>3, <2>1, <2>4 DEF TypeOK
  <2>8. losses' = 0 => \A x \in Node : AskedFor(x)'
    BY <1>1, <2>1, <2>5, AskedForKept
  <2>9. \A x \in Node : Sound(x)'
    BY <2>1, SameLists
  <2> QED
    BY <2>6, <2>7, <2>8, <2>9 DEF IInv
<1>5. CASE SendUncached(n, d)
  <2> DEFINE e == [dst |-> d, id |-> sent']
             b == ArpBroadcast(n, d)
  <2>1. PICK a \in Unused(arpWaitingList[n].heap) :
          arpWaitingList' = [arpWaitingList EXCEPT ![n] = AddEntry(arpWaitingList[n], e, a)]
    BY <1>5 DEF SendUncached
  <2>2. e \in WaitEntry /\ e.dst = d /\ Sound(n)
    BY <1>1 DEF WaitEntry, IInv
  <2> HIDE DEF e
  <2> DEFINE l == arpWaitingList[n]
             r == AddEntry(arpWaitingList[n], e, a)
  <2>3. /\ r \in List
        /\ r.state = "ok" => l.state = "ok"
        /\ l.state = "ok" =>
             /\ Whole(r) /\ Used(r.heap) = Used(l.heap) \cup {a} /\ r.heap[a].data = e
             /\ \A x \in Used(l.heap) : r.heap[x].data = l.heap[x].data
    <3>1. l \in List /\ (l.state = "ok" => Whole(l))
      BY <1>3, <2>2 DEF Sound
    <3>2. r = AddEntry(l, e, a) /\ a \in Unused(l.heap) /\ e \in WaitEntry
      BY <2>1, <2>2
    <3> HIDE DEF l, r
    <3>3. r \in List /\ (r.state = "ok" => l.state = "ok")
      BY <3>1, <3>2, AddEntryTyped
    <3>4. ASSUME l.state = "ok"
          PROVE  /\ Whole(r) /\ Used(r.heap) = Used(l.heap) \cup {a} /\ r.heap[a].data = e
                 /\ \A x \in Used(l.heap) : r.heap[x].data = l.heap[x].data
      BY <3>1, <3>2, <3>4, AddEntryWhole
    <3> QED
      BY <3>3, <3>4
  <2>4. arpWaitingList'[n] = r /\ \A x \in Node \ {n} : arpWaitingList'[x] = arpWaitingList[x]
    BY <1>3, <2>1
  <2> HIDE DEF r
  <2>5. arpWaitingList' \in [Node -> List]
    BY <1>3, <2>1, <2>3, <2>4 DEF r
  <2>6. IF Working(r)
        THEN chan' = [chan EXCEPT ![n] = [x \in Node |->
                        IF x \in LinkedTo(n) THEN Append(chan[n][x], b) ELSE chan[n][x]]]
        ELSE chan' = chan
    BY <1>5, <2>4 DEF SendUncached
  <2>7. b \in Frame
    BY <1>3, FramesTyped
  <2>8. \A x \in Node : /\ Append(chan[n][x], b) \in Seq(Frame)
                        /\ Elems(chan[n][x]) \cup {b} \subseteq Elems(Append(chan[n][x], b))
    <3> HIDE DEF b
    <3> QED
      BY <1>3, <2>7, ElemsAppend
  <2> HIDE DEF b
  <2>9. /\ chan' \in [Node -> [Node -> Seq(Frame)]]
        /\ \A x, y \in Node : x # n => chan'[x][y] = chan[x][y]
        /\ \A y \in LinkedTo(n) : \/ chan'[n][y] = Append(chan[n][y], b)
                                 \/ (~Working(r) /\ chan'[n][y] = chan[n][y])
        /\ \A y \in Node \ LinkedTo(n) : chan'[n][y] = chan[n][y]
    <3> DEFINE o == [x \in Node |-> IF x \in LinkedTo(n) THEN Append(chan[n][x], b)
                                    ELSE chan[n][x]]
    <3>1. o \in [Node -> Seq(Frame)]
      BY <1>3, <2>8
    <3>2. \A y \in Node : o[y] = IF y \in LinkedTo(n) THEN Append(chan[n][y], b)
                                 ELSE chan[n][y]
      OBVIOUS
    <3>3. LinkedTo(n) \subseteq Node
      BY DEF LinkedTo
    <3> HIDE DEF o
    <3>4. IF Working(r) THEN chan' = [chan EXCEPT ![n] = o] ELSE chan' = chan
      BY <2>6 DEF o
    <3>5. CASE Working(r)
      BY <1>3, <3>1, <3>2, <3>3, <3>4, <3>5
    <3>6. CASE ~Working(r)
      BY <1>3, <3>3, <3>4, <3>6
    <3> QED
      BY <3>5, <3>6
  <2>10. \A x, y \in Node : \A g \in Under(x, y) : g \in Under(x, y)'
    <3> SUFFICES ASSUME NEW x \in Node, NEW y \in Node, NEW g \in Under(x, y)
                 PROVE  g \in Under(x, y)'
      OBVIOUS
    <3>1. CASE x = n /\ y \in LinkedTo(n)
      BY <2>8, <2>9, <3>1 DEF Under
    <3>2. CASE x # n \/ y \notin LinkedTo(n)
      BY <2>9, <3>2 DEF Under
    <3> QED
      BY <3>1, <3>2
  <2>11. \A x \in Node : chan'[x][x] = <<>>
    BY <1>2, <1>3, <2>9
  <2>12. TypeOK'
    BY <1>1, <1>3, <2>5, <2>9 DEF TypeOK
  <2>13. \A x \in Node : Sound(x)'
    BY <2>3, <2>4 DEF IInv, Sound
  <2>15. ASSUME NEW x \in Node, NEW y \in Node, Asked(x, y) PROVE Asked(x, y)'
    BY <1>1, <2>10, <2>15, AskedKept
  <2>16. ASSUME r.state = "ok" PROVE Asked(n, d)'
    <3>1. Working(r)
      BY <2>16 DEF Working
    <3>2. b \in Under(n, d)'
      BY <1>2, <2>8, <2>9, <3>1 DEF Under
    <3>3. ArpBroadcast(n, d)' = b
      BY <1>1 DEF ArpBroadcast, b
    <3> QED
      BY <3>2, <3>3 DEF Asked
  <2>17. ASSUME losses = 0, NEW x \in Node PROVE AskedFor(x)'
    <3> SUFFICES ASSUME NEW z \in Waits(x)', NEW y, y = arpWaitingList'[x].heap[z].data.dst
                 PROVE  Asked(x, y)'
      BY DEF AskedFor
    <3>1. CASE x = n /\ z = a
      <4>1. r.state = "ok" /\ y = d
        BY <2>2, <2>3, <2>4, <3>1 DEF Waits
      <4> QED
        BY <2>16, <3>1, <4>1
    <3>2. CASE ~(x = n /\ z = a)
      <4>1. z \in Waits(x) /\ y = arpWaitingList[x].heap[z].data.dst
        BY <2>3, <2>4, <3>2 DEF Waits
      <4>2. y \in Node /\ Asked(x, y)
        BY <2>17, <4>1, DestinationsTyped DEF IInv, AskedFor
      <4> QED
        BY <2>15, <4>2
    <3> QED
      BY <3>1, <3>2
  <2> QED
    BY <1>1, <2>11, <2>12, <2>13, <2>17 DEF IInv
<1> QED
  BY <1>4, <1>5 DEF SendData

\* A step that takes the frame f of s and leaves the lists and the hosts alone.
LEMMA TakeSound ==
  ASSUME IInv, NEW n \in Node, NEW s \in Node, chan[s][n] # <<>>,
         NEW v \in Seq(Frame), Elems(chan[n][s]) \subseteq Elems(v),
         s # n => chan' = [chan EXCEPT ![s][n] = Tail(chan[s][n]), ![n][s] = v],
         UNCHANGED <<arpWaitingList, mac, sent>>,
         arpCache' \in [Node -> Seq(ArpEntry)], delivered' \subseteq Id,
         losses' \in 0 .. MaxLosses,
         NEW f, f = Head(chan[s][n]),
         losses' = 0 =>
           /\ losses = 0
           /\ \/ ~(f.type = "ARP_BROADCAST" /\ f.to = EveryMac /\ f.lookup = n)
              \/ \A x \in Node : AskedFor(x)'
           /\ ~(f.type = "ARP_RESPONSE" /\ f.to = mac[n])
  PROVE  IInv'
<1>1. /\ s # n
      /\ chan' \in [Node -> [Node -> Seq(Frame)]]
      /\ \A x \in Node : chan'[x][x] = <<>>
      /\ \A x, y \in Node : \A g \in Under(x, y) :
              g \in Under(x, y)' \/ (x = s /\ y = n /\ g = f)
  BY FrameTaken
<1>2. TypeOK'
  BY <1>1 DEF IInv, TypeOK
<1>3. \A x \in Node : Sound(x)'
  BY SameLists
<1>4. ASSUME losses' = 0 PROVE \A x \in Node : AskedFor(x)'
  <2>1. CASE \A x \in Node : AskedFor(x)'
    BY <2>1
  <2>2. CASE ~(f.type = "ARP_BROADCAST" /\ f.to = EveryMac /\ f.lookup = n)
    <3>1. \A x, y \in Node : \A g \in Under(x, y) :
            \/ g \in Under(x, y)'
            \/ /\ ~(g.type = "ARP_BROADCAST" /\ g.to = EveryMac /\ g.lookup = y)
               /\ ~(g.type = "ARP_RESPONSE" /\ g.to = mac[y])
      BY <1>1, <1>4, <2>2
    <3> QED
      BY <1>4, <3>1, AskedForKept
  <2> QED
    BY <1>4, <2>1, <2>2
<1> QED
  BY <1>1, <1>2, <1>3, <1>4 DEF IInv

LEMMA HandleArpBroadcastSound ==
  ASSUME IInv, NEW n \in Node, NEW s \in Node, HandleArpBroadcast(n, s) PROVE IInv'
<1> DEFINE f == Head(chan[s][n])
           a == f.from
           r == ArpResponse(n, a)
           v == Append(chan[n][s], r)
<1>1. /\ Arrives(n, s, "ARP_BROADCAST") /\ f.lookup = n
      /\ UNCHANGED <<arpWaitingList, mac, delivered, sent, losses>>
      /\ arpCache' = [arpCache EXCEPT ![n] =
                        IF InCache(arpCache[n], s) THEN UpdateArpEntry(arpCache[n], s, a)
                                                   ELSE AddArpEntry(arpCache[n], s, a)]
      /\ s # n => chan' = [chan EXCEPT ![s][n] = Tail(chan[s][n]), ![n][s] = v]
  <2>1. chan \in [Node -> [Node -> Seq(Frame)]]
    BY DEF IInv, TypeOK
  <2> QED
    BY <2>1 DEF HandleArpBroadcast, Responds
<1>2. TypeOK /\ arpCache \in [Node -> Seq(ArpEntry)] /\ chan \in [Node -> [Node -> Seq(Frame)]]
  BY DEF IInv, TypeOK
<1>3. /\ chan[s][n] # <<>> /\ f \in Frame /\ f.type = "ARP_BROADCAST" /\ a \in Mac
  BY <1>1, <1>2, ArrivesTyped
<1>4. arpCache' \in [Node -> Seq(ArpEntry)]
  <2> DEFINE c == IF InCache(arpCache[n], s) THEN UpdateArpEntry(arpCache[n], s, a)
                                             ELSE AddArpEntry(arpCache[n], s, a)
  <2>1. c \in Seq(ArpEntry)
    BY <1>2, <1>3, CacheTyped
  <2>2. arpCache' = [arpCache EXCEPT ![n] = c]
    BY <1>1
  <2> HIDE DEF c
  <2> QED
    BY <1>2, <2>1, <2>2
<1>5. r \in Frame
  BY <1>2, <1>3, FramesTyped
<1>6. r.type = "ARP_RESPONSE" /\ r.to = a
  BY DEF ArpResponse
<1> HIDE DEF r
<1>7. v \in Seq(Frame) /\ Elems(chan[n][s]) \subseteq Elems(v) /\ r \in Elems(v)
  BY <1>2, <1>5, ElemsAppend
<1> HIDE DEF v
<1>8. /\ s # n /\ chan'[n][s] = v
      /\ \A x, y \in Node : \A g \in Under(x, y) :
           g \in Under(x, y)' \/ (x = s /\ y = n /\ g = f)
  <2>1. /\ s # n => chan' = [chan EXCEPT ![s][n] = Tail(chan[s][n]), ![n][s] = v]
        /\ chan[s][n] # <<>> /\ v \in Seq(Frame) /\ Elems(chan[n][s]) \subseteq Elems(v)
    BY <1>1, <1>3, <1>7
  <2>2. /\ s # n /\ chan'[n][s] = v
        /\ \A x, y \in Node : \A g \in Under(x, y) :
             g \in Under(x, y)' \/ (x = s /\ y = n /\ g = Head(chan[s][n]))
    BY <2>1, FrameTaken
  <2> QED
    BY <2>2
<1>9. ASSUME losses = 0, NEW x \in Node PROVE AskedFor(x)'
  <2> SUFFICES ASSUME NEW b \in Waits(x),
                      NEW y \in Node, y = arpWaitingList[x].heap[b].data.dst
               PROVE  Asked(x, y)'
    BY <1>1, DestinationsTyped DEF AskedFor, Waits
  <2>1. Asked(x, y)
    BY <1>9 DEF IInv, AskedFor
  <2>2. CASE x = s /\ y = n /\ a = mac[s]
    <3>1. r \in Under(n, s)'
      BY <1>7, <1>8 DEF Under
    <3> QED
      BY <1>1, <1>6, <2>2, <3>1 DEF Asked
  <2>3. CASE ~(x = s /\ y = n /\ a = mac[s])
    <3>1. CASE ArpBroadcast(x, y) \in Under(x, y)
      <4>1. ArpBroadcast(x, y).from = mac[x] /\ ArpBroadcast(x, y)' = ArpBroadcast(x, y)
        BY <1>1 DEF ArpBroadcast
      <4>2. ArpBroadcast(x, y) \in Under(x, y)'
        BY <1>8, <2>3, <3>1, <4>1
      <4> QED
        BY <4>1, <4>2 DEF Asked
    <3>2. CASE \E g \in Under(y, x) : g.type = "ARP_RESPONSE" /\ g.to = mac[x]
      BY <1>1, <1>3, <1>8, <3>2 DEF Asked
    <3> QED
      BY <2>1, <3>1, <3>2 DEF Asked
  <2> QED
    BY <2>2, <2>3
<1>10. delivered' \subseteq Id /\ losses' \in 0 .. MaxLosses
  BY <1>1, <1>2 DEF TypeOK
<1> HIDE DEF f
<1> QED
  BY <1>1, <1>3, <1>4, <1>7, <1>9, <1>10, TakeSound DEF f

LEMMA InterceptArpBroadcastSound ==
  ASSUME IInv, NEW n \in Node, NEW s \in Node, InterceptArpBroadcast(n, s) PROVE IInv'
<1>1. TypeOK /\ arpCache \in [Node -> Seq(ArpEntry)] /\ chan \in [Node -> [Node -> Seq(Frame)]]
  BY DEF IInv, TypeOK
<1> DEFINE f == Head(chan[s][n])
           c == AddArpEntry(arpCache[n], s, f.from)
<1>2. /\ Arrives(n, s, "ARP_BROADCAST") /\ f.lookup # n
      /\ arpCache' = arpCache \/ arpCache' = [arpCache EXCEPT ![n] = c]
      /\ chan' = [chan EXCEPT ![s][n] = Tail(chan[s][n])]
      /\ UNCHANGED <<arpWaitingList, mac, delivered, sent, losses>>
  BY DEF InterceptArpBroadcast
<1>3. chan[s][n] # <<>> /\ f.type = "ARP_BROADCAST" /\ f.from \in Mac
  BY <1>1, <1>2, ArrivesTyped
<1>4. c \in Seq(ArpEntry)
  BY <1>1, <1>3, CacheTyped
<1> HIDE DEF c
<1>5. arpCache' \in [Node -> Seq(ArpEntry)]
  BY <1>1, <1>2, <1>4
<1>6. s # n => chan' = [chan EXCEPT ![s][n] = Tail(chan[s][n]), ![n][s] = chan[n][s]]
  BY <1>1, <1>2
<1>7. delivered' \subseteq Id /\ losses' \in 0 .. MaxLosses /\ chan[n][s] \in Seq(Frame)
  BY <1>1, <1>2 DEF TypeOK
<1> HIDE DEF f
<1> QED
  BY <1>2, <1>3, <1>5, <1>6, <1>7, TakeSound DEF f

LEMMA HandleDatagramSound ==
  ASSUME IInv, NEW n \in Node, NEW s \in Node, HandleDatagram(n, s) PROVE IInv'
<1>1. TypeOK /\ chan \in [Node -> [Node -> Seq(Frame)]]
  BY DEF IInv, TypeOK
<1> DEFINE f == Head(chan[s][n])
<1>2. /\ Arrives(n, s, "DATA") /\ delivered' = delivered \cup {f.id}
      /\ chan' = [chan EXCEPT ![s][n] = Tail(chan[s][n])]
      /\ UNCHANGED <<arpCache, arpWaitingList, mac, sent, losses>>
  BY DEF HandleDatagram
<1>3. chan[s][n] # <<>> /\ f.type = "DATA" /\ f.id \in Id
  BY <1>1, <1>2, ArrivesTyped
<1>4. s # n => chan' = [chan EXCEPT ![s][n] = Tail(chan[s][n]), ![n][s] = chan[n][s]]
  BY <1>1, <1>2
<1>5. /\ delivered' \subseteq Id /\ losses' \in 0 .. MaxLosses /\ chan[n][s] \in Seq(Frame)
      /\ arpCache' \in [Node -> Seq(ArpEntry)]
  BY <1>1, <1>2, <1>3 DEF TypeOK
<1> HIDE DEF f
<1> QED
  BY <1>2, <1>3, <1>4, <1>5, TakeSound DEF f

LEMMA PassOverSound ==
  ASSUME IInv, NEW n \in Node, NEW s \in Node, PassOver(n, s) PROVE IInv'
<1>1. TypeOK /\ chan \in [Node -> [Node -> Seq(Frame)]]
  BY DEF IInv, TypeOK
<1> DEFINE f == Head(chan[s][n])
<1>2. /\ chan[s][n] # <<>> /\ f.to # mac[n] /\ f.to # EveryMac
      /\ chan' = [chan EXCEPT ![s][n] = Tail(chan[s][n])]
      /\ UNCHANGED <<arpCache, arpWaitingList, mac, delivered, sent, losses>>
  BY DEF PassOver
<1>3. s # n => chan' = [chan EXCEPT ![s][n] = Tail(chan[s][n]), ![n][s] = chan[n][s]]
  BY <1>1, <1>2
<1>4. /\ delivered' \subseteq Id /\ losses' \in 0 .. MaxLosses /\ chan[n][s] \in Seq(Frame)
      /\ arpCache' \in [Node -> Seq(ArpEntry)]
  BY <1>1, <1>2 DEF TypeOK
<1> HIDE DEF f
<1> QED
  BY <1>2, <1>3, <1>4, TakeSound DEF f

LEMMA LoseSound ==
  ASSUME IInv, NEW n \in Node, NEW s \in Node, Lose(n, s) PROVE IInv'
<1>1. TypeOK /\ chan \in [Node -> [Node -> Seq(Frame)]]
  BY DEF IInv, TypeOK
<1>2. /\ chan[s][n] # <<>> /\ losses < MaxLosses /\ losses' = losses + 1
      /\ chan' = [chan EXCEPT ![s][n] = Tail(chan[s][n])]
      /\ UNCHANGED <<arpCache, arpWaitingList, mac, delivered, sent>>
  BY DEF Lose
<1>3. s # n => chan' = [chan EXCEPT ![s][n] = Tail(chan[s][n]), ![n][s] = chan[n][s]]
  BY <1>1, <1>2
<1>4. /\ delivered' \subseteq Id /\ chan[n][s] \in Seq(Frame)
      /\ arpCache' \in [Node -> Seq(ArpEntry)]
      /\ losses \in 0 .. MaxLosses
  BY <1>1, <1>2 DEF TypeOK
<1>5. losses' \in 0 .. MaxLosses /\ losses' # 0
  BY <1>2, <1>4, BoundsAssumption
<1> QED
  BY <1>2, <1>3, <1>4, <1>5, TakeSound

LEMMA MoveSound ==
  ASSUME IInv, NEW n \in Node, Move(n) PROVE IInv'
<1>1. /\ TypeOK /\ chan \in [Node -> [Node -> Seq(Frame)]] /\ mac \in [Node -> Mac]
      /\ arpCache \in [Node -> Seq(ArpEntry)] /\ arpWaitingList \in [Node -> List]
  BY DEF IInv, TypeOK
<1>2. /\ mac' = [mac EXCEPT ![n] = 2]
      /\ arpCache' = [arpCache EXCEPT ![n] = <<>>]
      /\ arpWaitingList' = [arpWaitingList EXCEPT ![n] = CreateLinkedList]
      /\ UNCHANGED <<chan, delivered, sent, losses>>
  BY DEF Move
<1>3. Whole(CreateLinkedList) /\ Used(CreateLinkedList.heap) = {}
  BY EmptyWhole
<1>4. CreateLinkedList \in List
  BY <1>3 DEF Whole
<1>5. /\ arpWaitingList' \in [Node -> List] /\ arpWaitingList'[n] = CreateLinkedList
      /\ \A x \in Node \ {n} : arpWaitingList'[x] = arpWaitingList[x] /\ mac'[x] = mac[x]
      /\ mac' \in [Node -> Mac]
  BY <1>1, <1>2, <1>4 DEF Mac
<1>6. TypeOK'
  BY <1>1, <1>2, <1>5 DEF TypeOK
<1>7. ASSUME NEW x \in Node PROVE Sound(x)'
  BY <1>3, <1>5 DEF IInv, Sound
<1>8. ASSUME losses = 0, NEW x \in Node PROVE AskedFor(x)'
  <2>1. CASE x = n
    BY <1>3, <1>5, <2>1 DEF AskedFor, Waits
  <2>2. CASE x # n
    <3> SUFFICES ASSUME NEW b \in Waits(x),
                        NEW y \in Node, y = arpWaitingList[x].heap[b].data.dst
                 PROVE  Asked(x, y)'
      BY <1>5, <2>2, DestinationsTyped DEF AskedFor, Waits
    <3>1. Asked(x, y)
      BY <1>8 DEF IInv, AskedFor
    <3>2. Under(x, y)' = Under(x, y) /\ Under(y, x)' = Under(y, x)
      BY <1>2 DEF Under
    <3> QED
      BY <1>5, <2>2, <3>1, <3>2, AskedKept
  <2> QED
    BY <2>1, <2>2
<1>9. \A x \in Node : chan'[x][x] = <<>>
  BY <1>2 DEF IInv
<1> QED
  BY <1>2, <1>6, <1>7, <1>8, <1>9 DEF IInv

\* What a response of mip does to a list.
LEMMA Responded ==
  ASSUME NEW l \in List, l.state = "ok" => Whole(l), NEW mip,
         NEW r, r = IF l.entries > 0 THEN Remove(l, mip) ELSE l,
         NEW w, w = IF Working(Remove(l, mip)) /\ l.head # NULL
                    THEN EntriesFor(l, mip) ELSE <<>>
  PROVE  /\ r \in List /\ w \in Seq(WaitEntry)
         /\ r.state = "ok" =>
              /\ l.state = "ok" /\ Whole(r)
              /\ \A a \in Used(r.heap) : /\ a \in Used(l.heap) /\ r.heap[a] = l.heap[a]
                                        /\ r.heap[a].data.dst # mip
         /\ l.state = "ok" /\ r.state # "ok" => OutOfOrder(l, mip) /\ r = Remove(l, mip)
<1>1. r \in List /\ (r.state = "ok" => l.state = "ok")
  BY RemoveTyped
<1>2. w \in Seq(WaitEntry)
  BY RemoveTyped, EmptySeq
<1>3. CASE l.state = "ok" /\ l.head = NULL
  <2>1. Used(l.heap) = {}
    BY <1>3 DEF Whole
  <2>2. r = l
    BY <1>3 DEF Remove
  <2> QED
    BY <1>1, <1>2, <1>3, <2>1, <2>2
<1>4. CASE l.state = "ok" /\ l.head # NULL
  <2>1. r = Remove(l, mip)
    BY <1>4, WholeIsFollowed
  <2> QED
    BY <1>1, <1>2, <1>4, <2>1, RemoveWhole
<1> QED
  BY <1>1, <1>2, <1>3, <1>4

LEMMA HandleArpResponseSound ==
  ASSUME IInv, NEW n \in Node, NEW s \in Node, HandleArpResponse(n, s)
  PROVE  IInv'
<1> DEFINE f == Head(chan[s][n])
           c == AddArpEntry(arpCache[n], s, f.from)
           m == GetCacheEntry(c, s).mac
           l == arpWaitingList[n]
           r == IF l.entries > 0 THEN Remove(l, s) ELSE l
           w == IF Working(Remove(l, s)) /\ l.head # NULL THEN EntriesFor(l, s) ELSE <<>>
           g == [i \in DOMAIN w |-> Datagram(w[i].id, m)]
           v == chan[n][s] \o g
<1>1. /\ TypeOK /\ chan \in [Node -> [Node -> Seq(Frame)]]
      /\ arpCache \in [Node -> Seq(ArpEntry)] /\ arpWaitingList \in [Node -> List]
      /\ l \in List
      /\ l.state = "ok" => Whole(l)
  BY DEF IInv, TypeOK, Sound
<1>2. Arrives(n, s, "ARP_RESPONSE") /\ UNCHANGED <<mac, delivered, sent, losses>>
  BY DEF HandleArpResponse
<1>3. arpCache' = [arpCache EXCEPT ![n] = c]
  BY DEF HandleArpResponse
<1>5. s # n => chan' = [chan EXCEPT ![s][n] = Tail(chan[s][n]), ![n][s] = v]
  BY <1>1 DEF HandleArpResponse
<1>6. chan[s][n] # <<>> /\ f.type = "ARP_RESPONSE" /\ f.from \in Mac
  BY <1>1, <1>2, ArrivesTyped
<1>7. c \in Seq(ArpEntry) /\ m \in Mac
  <2>1. c \in Seq(ArpEntry) /\ InCache(c, s)
    BY <1>1, <1>6, CacheTyped
  <2> HIDE DEF c
  <2> QED
    BY <1>6, <2>1, CacheTyped
<1>8. arpCache' \in [Node -> Seq(ArpEntry)]
  <2> HIDE DEF c
  <2> QED
    BY <1>1, <1>3, <1>7
<1>10. /\ r \in List /\ w \in Seq(WaitEntry)
       /\ r.state = "ok" =>
            /\ l.state = "ok" /\ Whole(r)
            /\ \A a \in Used(r.heap) : /\ a \in Used(l.heap) /\ r.heap[a] = l.heap[a]
                                      /\ r.heap[a].data.dst # s
  <2>1. /\ r = IF l.entries > 0 THEN Remove(l, s) ELSE l
        /\ w = IF Working(Remove(l, s)) /\ l.head # NULL THEN EntriesFor(l, s) ELSE <<>>
    OBVIOUS
  <2>2. l \in List /\ (l.state = "ok" => Whole(l))
    BY <1>1
  <2> HIDE DEF l, r, w
  <2> QED
    BY <2>1, <2>2, Responded
<1>11. arpWaitingList' = [arpWaitingList EXCEPT ![n] = r]
  <2>1. CASE l.entries > 0
    BY <2>1 DEF HandleArpResponse
  <2>2. CASE ~(l.entries > 0)
    <3>1. arpWaitingList' = arpWaitingList
      BY <2>2 DEF HandleArpResponse
    <3> QED
      BY <1>1, <2>2, <3>1
  <2> QED
    BY <2>1, <2>2
<1> HIDE DEF c, m, r, w
<1>12. g \in Seq(Frame)
  <2>1. ASSUME NEW i \in DOMAIN w PROVE Datagram(w[i].id, m) \in Frame
    <3>1. w[i] \in WaitEntry
      BY <1>10, <2>1, ElementOfSeq, LenProperties
    <3>2. w[i].id \in Id
      BY <3>1 DEF WaitEntry
    <3> QED
      BY <1>1, <1>7, <3>2, FramesTyped
  <2>2. DOMAIN w = 1 .. Len(w) /\ Len(w) \in Nat
    BY <1>10, LenProperties
  <2> QED
    BY <2>1, <2>2
<1> HIDE DEF g
<1>13. v \in Seq(Frame) /\ Elems(chan[n][s]) \subseteq Elems(v)
  BY <1>1, <1>12, ElemsConcat
<1> HIDE DEF v
<1>14. /\ s # n /\ chan' \in [Node -> [Node -> Seq(Frame)]]
       /\ \A x \in Node : chan'[x][x] = <<>>
       /\ \A x, y \in Node : \A h \in Under(x, y) :
            h \in Under(x, y)' \/ (x = s /\ y = n /\ h = Head(chan[s][n]))
  BY <1>5, <1>6, <1>13, FrameTaken
<1>15. /\ arpWaitingList' \in [Node -> List] /\ arpWaitingList'[n] = r
       /\ \A x \in Node \ {n} : arpWaitingList'[x] = arpWaitingList[x]
  BY <1>1, <1>10, <1>11
<1>16. TypeOK'
  BY <1>1, <1>2, <1>8, <1>14, <1>15 DEF TypeOK
<1>17. ASSUME NEW x \in Node PROVE Sound(x)'
  BY <1>10, <1>15 DEF IInv, Sound
<1>18. ASSUME losses = 0, NEW x \in Node PROVE AskedFor(x)'
  <2> SUFFICES ASSUME NEW b \in Waits(x)', NEW y, y = arpWaitingList'[x].heap[b].data.dst
               PROVE  Asked(x, y)'
    BY DEF AskedFor
  <2>1. /\ b \in Waits(x) /\ y = arpWaitingList[x].heap[b].data.dst
        /\ x = n => y # s
    BY <1>10, <1>15 DEF Waits
  <2>2. y \in Node /\ Asked(x, y)
    BY <1>18, <2>1, DestinationsTyped DEF IInv, AskedFor
  <2>3. \A h \in Under(x, y) :
          h.type = "ARP_BROADCAST" /\ h.to = EveryMac /\ h.lookup = y => h \in Under(x, y)'
    BY <1>6, <1>14, <2>2
  <2>4. \A h \in Under(y, x) :
          h.type = "ARP_RESPONSE" /\ h.to = mac[x] => h \in Under(y, x)'
    BY <1>14, <2>1, <2>2
  <2> QED
    BY <1>2, <2>2, <2>3, <2>4, AskedKept
<1> QED
  BY <1>2, <1>14, <1>16, <1>17, <1>18 DEF IInv

LEMMA NextSound == ASSUME IInv, [Next]_vars PROVE IInv'
<1>1. CASE Next
  <2>1. ASSUME NEW n \in Node, NEW s \in Node, SendData(n, s) PROVE IInv'
    BY <2>1, SendDataSound
  <2>2. ASSUME NEW n \in Node, NEW s \in Node, HandleArpBroadcast(n, s) PROVE IInv'
    BY <2>2, HandleArpBroadcastSound
  <2>3. ASSUME NEW n \in Node, NEW s \in Node, InterceptArpBroadcast(n, s) PROVE IInv'
    BY <2>3, InterceptArpBroadcastSound
  <2>4. ASSUME NEW n \in Node, NEW s \in Node, HandleArpResponse(n, s) PROVE IInv'
    BY <2>4, HandleArpResponseSound
  <2>5. ASSUME NEW n \in Node, NEW s \in Node, HandleDatagram(n, s) PROVE IInv'
    BY <2>5, HandleDatagramSound
  <2>6. ASSUME NEW n \in Node, NEW s \in Node, PassOver(n, s) PROVE IInv'
    BY <2>6, PassOverSound
  <2>7. ASSUME NEW n \in Node, NEW s \in Node, Lose(n, s) PROVE IInv'
    BY <2>7, LoseSound
  <2>8. ASSUME NEW n \in Node, Move(n) PROVE IInv'
    BY <2>8, MoveSound
  <2> QED
    BY <1>1, <2>1, <2>2, <2>3, <2>4, <2>5, <2>6, <2>7, <2>8 DEF Next, Receive
<1>2. CASE UNCHANGED vars
  <2>1. UNCHANGED <<arpCache, arpWaitingList, mac, chan, delivered, sent, losses>>
    BY <1>2 DEF vars
  <2>2. TypeOK' /\ \A n \in Node : chan'[n][n] = <<>>
    BY <2>1 DEF IInv, TypeOK
  <2>3. losses' = 0 => \A n \in Node : AskedFor(n)'
    BY <2>1, AskedForKept DEF Under
  <2>4. \A x \in Node : Sound(x)'
    BY <2>1, SameLists
  <2> QED
    BY <2>2, <2>3, <2>4 DEF IInv
<1> QED
  BY <1>1, <1>2

\* A list breaks by a response out of order.
LEMMA StepBreaksOutOfOrder ==
  ASSUME IInv, Next, NEW n \in Node,
         arpWaitingList[n].state = "ok", arpWaitingList'[n].state # "ok"
  PROVE  \E s \in Node : /\ OutOfOrder(arpWaitingList[n], s)
                         /\ arpWaitingList'[n] = Remove(arpWaitingList[n], s)
<1> DEFINE l == arpWaitingList[n]
<1>1. arpWaitingList \in [Node -> List] /\ l \in List /\ Whole(l)
  BY DEF IInv, TypeOK, Sound
<1>2. ASSUME NEW x \in Node, NEW d \in Node, SendData(x, d) PROVE FALSE
  <2>1. SendUncached(x, d) /\ sent' \in Id
    <3>1. sent' \in Id
      BY <1>2, BoundsAssumption DEF SendData, IInv, TypeOK, Id
    <3>2. ~SendCached(x, d)
      BY DEF SendCached
    <3> QED
      BY <1>2, <3>1, <3>2 DEF SendData
  <2> DEFINE e == [dst |-> d, id |-> sent']
  <2>2. PICK a \in Unused(arpWaitingList[x].heap) :
          arpWaitingList' = [arpWaitingList EXCEPT ![x] = AddEntry(arpWaitingList[x], e, a)]
    BY <2>1 DEF SendUncached
  <2>3. e \in WaitEntry
    BY <2>1 DEF WaitEntry
  <2> HIDE DEF e
  <2>4. x = n /\ arpWaitingList'[n] = AddEntry(l, e, a)
    BY <1>1, <2>2
  <2>5. Whole(AddEntry(l, e, a))
    BY <1>1, <2>2, <2>3, <2>4, AddEntryWhole
  <2> QED
    BY <2>4, <2>5 DEF Whole
<1>3. ASSUME NEW x \in Node, Move(x) PROVE FALSE
  <2>1. CreateLinkedList.state = "ok"
    BY DEF CreateLinkedList
  <2> QED
    BY <1>1, <1>3, <2>1 DEF Move
<1>4. ASSUME NEW x \in Node, NEW s \in Node, HandleArpResponse(x, s)
      PROVE  OutOfOrder(l, s) /\ arpWaitingList'[n] = Remove(l, s)
  <2> DEFINE r == IF l.entries > 0 THEN Remove(l, s) ELSE l
  <2>1. x = n /\ arpWaitingList'[n] = r
    <3>1. arpWaitingList' = IF arpWaitingList[x].entries > 0
                            THEN [arpWaitingList EXCEPT ![x] = Remove(arpWaitingList[x], s)]
                            ELSE arpWaitingList
      BY <1>4 DEF HandleArpResponse
    <3> QED
      BY <1>1, <3>1
  <2>2. r.state # "ok"
    BY <2>1
  <2> DEFINE w == IF Working(Remove(l, s)) /\ l.head # NULL
                  THEN EntriesFor(l, s) ELSE <<>>
  <2>3. /\ r = IF l.entries > 0 THEN Remove(l, s) ELSE l
        /\ w = IF Working(Remove(l, s)) /\ l.head # NULL THEN EntriesFor(l, s) ELSE <<>>
        /\ l.state = "ok"
    BY <1>1 DEF Whole
  <2> HIDE DEF l, r, w
  <2>4. OutOfOrder(l, s) /\ r = Remove(l, s)
    BY <1>1, <2>2, <2>3, Responded
  <2> QED
    BY <2>1, <2>4 DEF l
<1>5. ASSUME NEW x \in Node, NEW s \in Node,
             \/ HandleArpBroadcast(x, s) \/ InterceptArpBroadcast(x, s)
             \/ HandleDatagram(x, s) \/ PassOver(x, s) \/ Lose(x, s)
      PROVE  FALSE
  BY <1>5 DEF HandleArpBroadcast, InterceptArpBroadcast, HandleDatagram, PassOver, Lose
<1> QED
  BY <1>2, <1>3, <1>4, <1>5 DEF Next, Receive

LEMMA IInvAnswered == IInv => WaitingIsAnswered
<1> SUFFICES ASSUME IInv, losses = 0, NEW n \in Node, arpWaitingList[n].state = "ok",
                    NEW a \in Reachable(arpWaitingList[n].heap, arpWaitingList[n].head),
                    NEW m, m = arpWaitingList[n].heap[a].data.dst
             PROVE  \/ \E j \in DOMAIN chan[n][m] :
                         /\ chan[n][m][j].type = "ARP_BROADCAST"
                         /\ chan[n][m][j].lookup = m
                    \/ \E j \in DOMAIN chan[m][n] : chan[m][n][j].type = "ARP_RESPONSE"
  BY DEF WaitingIsAnswered
<1>1. a \in Waits(n)
  <2>1. Whole(arpWaitingList[n])
    BY DEF IInv, Sound
  <2>2. arpWaitingList[n].head # NULL
    BY MemoryAssumption DEF Reachable
  <2> QED
    BY <2>1, <2>2 DEF Whole, Waits
<1>2. Asked(n, m)
  BY <1>1 DEF IInv, AskedFor
<1>3. CASE ArpBroadcast(n, m) \in Under(n, m)
  <2>1. ArpBroadcast(n, m).type = "ARP_BROADCAST" /\ ArpBroadcast(n, m).lookup = m
    BY DEF ArpBroadcast
  <2> QED
    BY <1>3, <2>1 DEF Under, Elems
<1>4. CASE \E f \in Under(m, n) : f.type = "ARP_RESPONSE" /\ f.to = mac[n]
  BY <1>4 DEF Under, Elems
<1> QED
  BY <1>2, <1>3, <1>4 DEF Asked

-----------------------------------------------------------------------------
(* The theorems.                                                           *)

LEMMA SpecIsSound == Spec => []IInv
<1>1. IInv /\ [Next]_vars => IInv'
  BY NextSound
<1> QED
  BY <1>1, InitSound, PTL DEF Spec

\* The caches, the lists of waiting datagrams (linkedList.c), broken ones
\* included, and the frames on the wire have the form that sendData and
\* handleRawPacket expect.
THEOREM TypeCorrect == Spec => []TypeOK
<1>1. IInv => TypeOK
  BY DEF IInv
<1> QED
  BY <1>1, SpecIsSound, PTL

\* Whoever has datagrams for whom, and whatever the order of requests,
\* responses, losses and moves: addEntry never breaks a list, and
\* sendWaitingMsgs (arpFunctions.c) only if a datagram for the neighbour that
\* has answered stands behind one for another.
THEOREM BreaksCorrect == Spec => ListBreaksOutOfOrder
<1>1. IInv /\ [Next]_vars
        => [\A n \in Node : LET l == arpWaitingList[n] IN
              l.state = "ok" /\ arpWaitingList'[n].state # "ok" =>
                \E s \in Node : OutOfOrder(l, s) /\ arpWaitingList'[n] = Remove(l, s)
           ]_arpWaitingList
  <2> SUFFICES ASSUME IInv, [Next]_vars, arpWaitingList' # arpWaitingList, NEW n \in Node,
                      arpWaitingList[n].state = "ok", arpWaitingList'[n].state # "ok"
               PROVE  \E s \in Node : /\ OutOfOrder(arpWaitingList[n], s)
                                      /\ arpWaitingList'[n] = Remove(arpWaitingList[n], s)
    OBVIOUS
  <2>1. Next
    BY DEF vars
  <2> QED
    BY <2>1, StepBreaksOutOfOrder
<1> QED
  BY <1>1, SpecIsSound, PTL DEF Spec, ListBreaksOutOfOrder

\* While no frame is lost, a datagram that waits in a list that is not broken
\* has the request of its node or a response under way (sendData,
\* handleArpBroadcast), also when hosts ask for one another or are replaced.
THEOREM AnsweredCorrect == Spec => []WaitingIsAnswered
BY IInvAnswered, SpecIsSound, PTL
=============================================================================
