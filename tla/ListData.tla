------------------------------ MODULE ListData ------------------------------
(***************************************************************************)
(* The list values of the store and the list commands, as data.  Shared by *)
(* the detailed model BlockingLists and by the abstract LinearLists.       *)
(*                                                                         *)
(* An element is a number that no other element of a behaviour has: the    *)
(* properties are about which element went where, never about its bytes.   *)
(***************************************************************************)
EXTENDS Integers, Sequences

CONSTANTS
    Clients,      \* the connected peers
    Keys,         \* the keys the commands name
    NoClient,     \* stands for "no client" where a client is expected
    Menu,         \* the shapes of the commands the clients may send (see Shapes)
    MaxCmds       \* bound: commands the clients send altogether

ASSUME NoClientAssumption == NoClient \notin Clients
ASSUME MaxCmdsAssumption == MaxCmds \in Nat

-----------------------------------------------------------------------------
(* The value of a key.  `list` is empty unless the value is a list.        *)

Absent       == [type |-> "none",   list |-> << >>]
StrValue     == [type |-> "string", list |-> << >>]
ListValue(s) == [type |-> "list",   list |-> s]

Values == {Absent, StrValue} \cup [type : {"list"}, list : Seq(Nat)]

-----------------------------------------------------------------------------
(* The commands.  A push carries its elements; a BLPOP carries whether its *)
(* timeout is finite (the code turns a timeout of 0 into u64::MAX ms).     *)

PushCommand(op, k, els) == [op |-> op, key |-> k, els |-> els]
LpopCommand(k, n)       == [op |-> "lpop", key |-> k, count |-> n]
BlpopCommand(ks, fin)   == [op |-> "blpop", keys |-> ks, finite |-> fin]
SetCommand(k)           == [op |-> "set", key |-> k]
NoCommand               == [op |-> "none"]

IsPush(cmd) == cmd.op \in {"rpush", "lpush"}

Commands == [op : {"rpush", "lpush"}, key : Keys, els : Seq(Nat)]
            \cup [op : {"lpop"}, key : Keys, count : Nat]
            \cup [op : {"blpop"}, keys : Seq(Keys), finite : BOOLEAN]
            \cup [op : {"set"}, key : Keys]

(* n elements that nobody has used, when the first `used` numbers are taken *)
FreshElements(used, n) == [i \in 1..n |-> used + i]

(* The shape of a command: a push without its elements, with their number. *)
PushShape(op, k, n) == [op |-> op, key |-> k, size |-> n]

Shapes == [op : {"rpush", "lpush"}, key : Keys, size : Nat \ {0}]
          \cup [op : {"lpop"}, key : Keys, count : Nat]
          \cup [op : {"blpop"}, keys : Seq(Keys), finite : BOOLEAN]
          \cup [op : {"set"}, key : Keys]

ASSUME MenuAssumption == Menu \subseteq Shapes

(* the command of a shape, when `used` elements were sent before it *)
Filled(shape, used) ==
    IF IsPush(shape)
    THEN PushCommand(shape.op, shape.key, FreshElements(used, shape.size))
    ELSE shape

Requests(used) == {Filled(shape, used) : shape \in Menu}

Payload(cmd) == IF IsPush(cmd) THEN cmd.els ELSE << >>

-----------------------------------------------------------------------------
(* What the commands do to a list.                                         *)

Backwards(s) == [i \in 1..Len(s) |-> s[Len(s) + 1 - i]]

(* RPUSH appends the elements; LPUSH puts them in front one after another,
   so that they end up in reverse order.                                   *)
Pushed(cmd, s) ==
    IF cmd.op = "rpush" THEN s \o cmd.els ELSE Backwards(cmd.els) \o s

(* LPOP takes up to n elements from the front. *)
Popped(n, s)    == SubSeq(s, 1, IF n < Len(s) THEN n ELSE Len(s))
Remaining(n, s) == SubSeq(s, n + 1, Len(s))

(* BLPOP looks through its keys in order for the first list with an element. *)
NonEmpty(data, k)    == data[k].list # << >>
HasElement(data, ks) == \E i \in 1..Len(ks) : NonEmpty(data, ks[i])
FirstKey(data, ks) ==
    ks[CHOOSE i \in 1..Len(ks) :
          /\ NonEmpty(data, ks[i])
          /\ \A j \in 1..(i - 1) : ~NonEmpty(data, ks[j])]
PopHead(data, k) == [data EXCEPT ![k].list = Tail(@)]
=============================================================================
