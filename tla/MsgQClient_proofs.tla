-------------------------- MODULE MsgQClient_proofs --------------------------
(***************************************************************************)
(* What can go wrong with the queue of msgQ.c, and what cannot, whatever   *)
(* is pushed and popped and whatever malloc returns.                       *)
(***************************************************************************)
EXTENDS MsgQClient, MsgQ_proofs

IInv == q \in Queue /\ Shaped(q)

LEMMA InitSound == Init => IInv
BY CreateShaped DEF Init, IInv, Shaped

LEMMA NextSound ==
  ASSUME IInv, [Next]_q
  PROVE  IInv' /\ (q.state = "ok" /\ q'.state # "ok" => q.amountOfEntries = 2)
<1>1. ASSUME NEW d \in Data, DoPush(d)
      PROVE  IInv' /\ (q.state = "ok" /\ q'.state # "ok" => q.amountOfEntries = 2)
  <2>1. PICK a \in Unused(q.heap) : q' = Push(q, d, a)
    BY <1>1 DEF DoPush
  <2>2. q \in Queue /\ Shaped(q) /\ Working(q)
    BY <1>1 DEF DoPush, IInv
  <2> QED
    BY <2>1, <2>2, PushShaped DEF IInv
<1>2. ASSUME DoPop
      PROVE  IInv' /\ (q.state = "ok" /\ q'.state # "ok" => q.amountOfEntries = 2)
  <2>1. q \in Queue /\ Shaped(q) /\ Working(q) /\ q.amountOfEntries > 0 /\ q' = Pop(q)
    BY <1>2 DEF DoPop, IInv
  <2> QED
    BY <2>1, PopShaped DEF IInv
<1>3. CASE UNCHANGED q
  BY <1>3 DEF IInv
<1> QED
  BY <1>1, <1>2, <1>3 DEF Next

-----------------------------------------------------------------------------
\* For every capacity, every set of addresses and every order of pushes and
\* pops of msgQ.c (msgQ.c:33-80): as long as the queue is sound, an operation
\* on it returns and leads to no freed memory, unless two entries are counted.
THEOREM BreaksOnlyAtTwoCorrect == Spec => BreaksOnlyAtTwo
<1>1. IInv /\ [Next]_q => IInv'
  BY NextSound
<1>2. IInv /\ [Next]_q => [q.state = "ok" /\ q'.state # "ok" => q.amountOfEntries = 2]_q
  BY NextSound
<1> QED
  BY InitSound, <1>1, <1>2, PTL DEF Spec, BreaksOnlyAtTwo
=============================================================================
