----------------------------- MODULE LinearLists -----------------------------
(***************************************************************************)
(* What the list commands promise their callers, with no store task, no    *)
(* channels, no waiters and no timers: every call takes effect at one      *)
(* instant between the moment it is sent and the moment its reply arrives. *)
(* A BLPOP takes effect either by taking the head of the first of its      *)
(* lists that has one, or - only if its timeout is finite and only while   *)
(* all of its lists are empty - by giving up.                              *)
(***************************************************************************)
EXTENDS ListData

VARIABLES
    data,    \* the value of each key
    call,    \* what each client is doing: idle, called, or its reply decided
    used     \* how many elements were sent so far

vars == <<data, call, used>>

Idle        == [st |-> "idle"]
Called(cmd) == [st |-> "called", cmd |-> cmd]
Decided(r)  == [st |-> "decided", reply |-> r]

Init ==
    /\ data = [k \in Keys |-> Absent]
    /\ call = [c \in Clients |-> Idle]
    /\ used = 0

Invoke(c) ==
    /\ call[c] = Idle
    /\ \E cmd \in Requests(used) :
          /\ call' = [call EXCEPT ![c] = Called(cmd)]
          /\ used' = used + Len(Payload(cmd))
    /\ UNCHANGED data

Takes(c, op) == call[c].st = "called" /\ call[c].cmd.op \in op

Push(c) ==
    /\ Takes(c, {"rpush", "lpush"})
    /\ LET cmd == call[c].cmd IN
          data' = [data EXCEPT ![cmd.key] = ListValue(Pushed(cmd, @.list))]
    /\ call' = [call EXCEPT ![c] = Decided(<< >>)]
    /\ UNCHANGED used

Lpop(c) ==
    /\ Takes(c, {"lpop"})
    /\ LET cmd == call[c].cmd
           s   == data[cmd.key].list
       IN  /\ data' = [data EXCEPT ![cmd.key].list = Remaining(cmd.count, s)]
           /\ call' = [call EXCEPT ![c] = Decided(Popped(cmd.count, s))]
    /\ UNCHANGED used

Blpop(c) ==
    /\ Takes(c, {"blpop"})
    /\ HasElement(data, call[c].cmd.keys)
    /\ LET k == FirstKey(data, call[c].cmd.keys) IN
          /\ data' = PopHead(data, k)
          /\ call' = [call EXCEPT ![c] = Decided(<<Head(data[k].list)>>)]
    /\ UNCHANGED used

GiveUp(c) ==
    /\ Takes(c, {"blpop"})
    /\ call[c].cmd.finite
    /\ ~HasElement(data, call[c].cmd.keys)
    /\ call' = [call EXCEPT ![c] = Decided(<< >>)]
    /\ UNCHANGED <<data, used>>

Set(c) ==
    /\ Takes(c, {"set"})
    /\ data' = [data EXCEPT ![call[c].cmd.key] = StrValue]
    /\ call' = [call EXCEPT ![c] = Decided(<< >>)]
    /\ UNCHANGED used

Return(c) ==
    /\ call[c].st = "decided"
    /\ call' = [call EXCEPT ![c] = Idle]
    /\ UNCHANGED <<data, used>>

Next ==
    \E c \in Clients :
        Invoke(c) \/ Push(c) \/ Lpop(c) \/ Blpop(c) \/ GiveUp(c) \/ Set(c) \/ Return(c)

Spec == Init /\ [][Next]_vars
=============================================================================
