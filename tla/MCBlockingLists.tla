--------------------------- MODULE MCBlockingLists ---------------------------
(* A small instance of BlockingLists for TLC. *)
EXTENDS BlockingLists

CONSTANTS c1, c2, c3, a, b    \* model values

MCClients == {c1, c2, c3}
MCKeys    == {a, b}
MCLeavers == {c1}

(* Two waits that compete for b, one of which can also be served from a; a
   push that can serve both; ways to take the elements and to hide them.   *)
MCMenu ==
    {PushShape("rpush", b, 2), PushShape("lpush", a, 2),
     LpopCommand(b, 1), SetCommand(b),
     BlpopCommand(<<a, b>>, TRUE), BlpopCommand(<<b>>, FALSE)}
=============================================================================
