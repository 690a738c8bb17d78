---------------------------- MODULE MCReplication ----------------------------
(* A small instance of Replication for TLC. *)
EXTENDS Replication, TLC

CONSTANTS c1, c2, r1, r2    \* model values

MCClients  == {c1, c2}
MCReplicas == {r1, r2}
MCMortal   == {r1}
=============================================================================
