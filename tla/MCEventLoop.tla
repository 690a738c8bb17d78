----------------------------- MODULE MCEventLoop -----------------------------
(* A small instance of EventLoop for TLC. *)
EXTENDS EventLoop

CONSTANTS c1, c2, c3, r1    \* model values

MCClients  == {c1, c2, c3}
MCReplicas == {r1}
=============================================================================
