--------------------------- MODULE MCTransactions ---------------------------
(* A small instance of Transactions for TLC. *)
EXTENDS Transactions, TLC

CONSTANTS c1, c2, key1, key2    \* model values

MCClients == {c1, c2}
MCKeys    == {key1, key2}
Symmetry  == Permutations(MCClients) \cup Permutations(MCKeys)
=============================================================================
