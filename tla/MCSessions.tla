------------------------------ MODULE MCSessions ------------------------------
(* A small instance of Sessions for TLC. *)
EXTENDS Sessions

CONSTANTS c1, c2, news, right, wrong    \* model values

MCClients   == {c1, c2}
MCChannels  == {news}
MCPasswords == {right}
MCGuesses   == {right, wrong}
MCLeavers   == {c2}
\* c1 sets the password and publishes; c2 connects before or after, and follows
MCOffered ==
    [c \in MCClients |->
        IF c = c1 THEN {"setuser", "publish"}
        ELSE {"auth", "subscribe", "unsubscribe", "publish", "multi", "exec"}]
MCMaxCalls == [c \in MCClients |-> IF c = c1 THEN 3 ELSE 4]
=============================================================================
