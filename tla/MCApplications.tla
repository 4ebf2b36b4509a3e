--------------------------- MODULE MCApplications ---------------------------
(***************************************************************************)
(* The programs of a small host for Applications: clients that ping        *)
(* another host and their own, a ping server, a routing daemon and the one *)
(* that follows it, and a client of another host.                          *)
(***************************************************************************)
EXTENDS Applications

CONSTANTS clientA, clientB, server, routerA, routerB, elsewhere
=============================================================================
