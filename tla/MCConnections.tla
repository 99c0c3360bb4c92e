---------------------------- MODULE MCConnections ----------------------------
(***************************************************************************)
(* The constants of the run of Connections: four attempts that may overlap *)
(* and two callers.                                                        *)
(***************************************************************************)
EXTENDS Connections

CONSTANTS c1, c2, c3, c4, k1, k2
MCClients == {c1, c2, c3, c4}
MCCalls == {k1, k2}
=============================================================================
