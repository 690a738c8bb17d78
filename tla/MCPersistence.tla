---------------------------- MODULE MCPersistence ----------------------------
(* A small instance of Persistence for TLC. *)
EXTENDS Persistence

CONSTANTS c1, c2, k1    \* model values, as is OtherKey

MCClients == {c1, c2}
MCKeys    == {k1}
\* no deadline, or one of the next millisecond
MCTtls    == {NoTtl, 1}
\* its deadline passes during the run
MCRdbFile == [k \in MCKeys |-> Value(FromFile, 0, 0)]
=============================================================================
