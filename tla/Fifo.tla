-------------------------------- MODULE Fifo --------------------------------
(***************************************************************************)
(* What msgQ.c promises: a queue.  push "adds to the tail", pop "fetches   *)
(* the head" (the comments at msgQ.c:29 and msgQ.c:67), and a full queue   *)
(* takes nothing more.                                                     *)
(***************************************************************************)
EXTENDS Integers, Sequences

CONSTANTS Entry, Capacity

VARIABLE queue   \* the entries, oldest first

Init == queue = <<>>

Put(e) == queue' = IF Len(queue) < Capacity THEN Append(queue, e) ELSE queue

Take == queue # <<>> /\ queue' = Tail(queue)

Next == Take \/ \E e \in Entry : Put(e)

Spec == Init /\ [][Next]_queue
=============================================================================
