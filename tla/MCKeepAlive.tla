----------------------------- MODULE MCKeepAlive -----------------------------
(***************************************************************************)
(* Two neighbours with the times of the code.                              *)
(***************************************************************************)
EXTENDS KeepAlive

CONSTANTS A, B

Wire == {<<A, B>>, <<B, A>>}
OneHop == [a \in Node |-> [b \in Node |-> IF a = b THEN 0 ELSE 1]]
=============================================================================
