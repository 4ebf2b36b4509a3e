----------------------------- MODULE MsgQClient -----------------------------
(***************************************************************************)
(* msgQ.c under the calls the MIP daemon makes, against the queue it is    *)
(* meant to be (Fifo): any pushes, and a pop for each entry still waiting. *)
(***************************************************************************)
EXTENDS MsgQ

VARIABLE q   \* the msgQ

Init == q = CreateQ

DoPush(d) ==
  /\ Working(q)
  /\ \E a \in Unused(q.heap) : q' = Push(q, d, a)

DoPop ==
  /\ Working(q)
  /\ q.amountOfEntries > 0
  /\ q' = Pop(q)

Next == DoPop \/ \E d \in Data : DoPush(d)

Spec == Init /\ [][Next]_q

-----------------------------------------------------------------------------

Promised == INSTANCE Fifo WITH
  Entry <- Data, Capacity <- MAX_ELEMENTS, queue <- Contents(q)

\* msgQ.c:29 "This function pushes (adds to the tail) of the Q.": whatever is
\* pushed comes out once, in the order it went in, however malloc reuses the
\* memory of the nodes.
ImplementsFifo == Promised!Spec

\* A sound queue is only ever broken by an operation on two entries: up to
\* then every push and pop returns and follows no pointer to freed memory,
\* however often the queue has been filled and emptied.
BreaksOnlyAtTwo ==
  [][q.state = "ok" /\ q'.state # "ok" => q.amountOfEntries = 2]_q
=============================================================================
