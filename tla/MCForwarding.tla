---------------------------- MODULE MCForwarding ----------------------------
(***************************************************************************)
(* The line A - B - C for Forwarding, with right and with wrong answers.   *)
(***************************************************************************)
EXTENDS Forwarding

CONSTANTS A, B, C

Neighbours(n) == IF n = B THEN {A, C} ELSE {B}

\* What the routing daemons answer once their tables have converged.
RightAnswers ==
  [n \in Node |-> [d \in Node |->
     IF n = B THEN {d} ELSE {B}]]

\* What they may answer while the tables are in motion.
AnyAnswer == [n \in Node |-> [d \in Node |-> Neighbours(n) \cup {NoRoute}]]

\* Right answers for C, any for the others.
MixedAnswers ==
  [n \in Node |-> [d \in Node |->
     IF d = C THEN RightAnswers[n][d] ELSE AnyAnswer[n][d]]]
=============================================================================
