------------------------------ MODULE MCMipArp ------------------------------
(***************************************************************************)
(* The line A - B - C for MipArp.                                          *)
(***************************************************************************)
EXTENDS MipArp

CONSTANTS A, B, C

Line == {<<A, B>>, <<B, A>>, <<B, C>>, <<C, B>>}

\* B has datagrams for both its neighbours.
TwoDestinations == {<<B, A>>, <<B, C>>}
=============================================================================
