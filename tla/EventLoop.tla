------------------------------- MODULE EventLoop -------------------------------
(***************************************************************************)
(* The store task, the client tasks and the bounded channels between them.  *)
(*                                                                         *)
(* Everybody sends to the store's inbox and waits there for room.  The store *)
(* sends what it replicates to each replica's client task and waits, in the *)
(* middle of an envelope, for room in that task's channel.  That client task *)
(* empties its channel and forwards the replica's acknowledgements to the   *)
(* inbox, one thing at a time.                                             *)
(*                                                                         *)
(* Replication has what is counted and acknowledged, with channels that     *)
(* never fill; here the channels fill and the counts are left out: a WAIT of *)
(* this module asks for more replicas than there are, so its timeout alone   *)
(* answers it.  Both capacities are 1024 in the code.                       *)
(***************************************************************************)
EXTENDS Naturals, Sequences, FiniteSets

CONSTANTS
    Clients,     \* clients that write and WAIT
    Replicas,    \* replicas, connected from the start
    InboxCap,    \* capacity of the store's inbox
    PushCap,     \* capacity of the channel to a client task
    MaxCalls     \* bound: commands of each client

VARIABLES
    inbox,       \* the mpsc channel to the store
    pushing,     \* what the store is sending to the replicas, or Nothing
    owed,        \* the replicas it has yet to send it to, the next one first
    pending,     \* store.pending_write_commands_for_wait
    timers,      \* the clients whose WAIT has a sleeping timeout task
    task,        \* per client: "reading", or the command it awaits
    calls,       \* per client: how many commands it sent
    push,        \* per replica: the channel to its client task
    socket,      \* per replica: what is on its way to it
    acks,        \* per replica: how many acknowledgements are on their way back
    holding      \* per replica: its client task holds one, and waits for room

vars == <<inbox, pushing, owed, pending, timers, task, calls, push, socket, acks, holding>>

Nothing == "nothing"
Envelope(type, who) == [type |-> type, who |-> who]

Init ==
    /\ inbox = << >> /\ pushing = Nothing /\ owed = << >>
    /\ pending = FALSE /\ timers = {}
    /\ task = [c \in Clients |-> "reading"]
    /\ calls = [c \in Clients |-> 0]
    /\ push = [r \in Replicas |-> << >>]
    /\ socket = [r \in Replicas |-> << >>]
    /\ acks = [r \in Replicas |-> 0]
    /\ holding = [r \in Replicas |-> FALSE]

InboxHasRoom == Len(inbox) < InboxCap

-----------------------------------------------------------------------------
(* Clients and timeout tasks.                                              *)

Send(c) ==
    /\ task[c] = "reading"
    /\ calls[c] < MaxCalls
    /\ InboxHasRoom
    /\ \E op \in {"set", "wait"} :
          /\ inbox' = Append(inbox, Envelope(op, c))
          /\ task' = [task EXCEPT ![c] = op]
    /\ calls' = [calls EXCEPT ![c] = @ + 1]
    /\ UNCHANGED <<pushing, owed, pending, timers, push, socket, acks, holding>>

TimerFires(c) ==
    /\ c \in timers
    /\ InboxHasRoom
    /\ timers' = timers \ {c}
    /\ inbox' = Append(inbox, Envelope("timeout", c))
    /\ UNCHANGED <<pushing, owed, pending, task, calls, push, socket, acks, holding>>

-----------------------------------------------------------------------------
(* The client task of a replica: select! over the socket and the channel.   *)

WritePush(r) ==
    /\ ~holding[r]
    /\ push[r] # << >>
    /\ push' = [push EXCEPT ![r] = Tail(@)]
    /\ socket' = [socket EXCEPT ![r] = Append(@, Head(push[r]))]
    /\ UNCHANGED <<inbox, pushing, owed, pending, timers, task, calls, acks, holding>>

ReadAck(r) ==
    /\ ~holding[r]
    /\ acks[r] > 0
    /\ acks' = [acks EXCEPT ![r] = @ - 1]
    /\ holding' = [holding EXCEPT ![r] = TRUE]
    /\ UNCHANGED <<inbox, pushing, owed, pending, timers, task, calls, push, socket>>

ForwardAck(r) ==
    /\ holding[r]
    /\ InboxHasRoom
    /\ inbox' = Append(inbox, Envelope("ack", r))
    /\ holding' = [holding EXCEPT ![r] = FALSE]
    /\ UNCHANGED <<pushing, owed, pending, timers, task, calls, push, socket, acks>>

(* The replica reads what it is sent and answers each GETACK. *)
ReplicaReads(r) ==
    /\ socket[r] # << >>
    /\ socket' = [socket EXCEPT ![r] = Tail(@)]
    /\ acks' = IF Head(socket[r]) = "getack" THEN [acks EXCEPT ![r] = @ + 1] ELSE acks
    /\ UNCHANGED <<inbox, pushing, owed, pending, timers, task, calls, push, holding>>

-----------------------------------------------------------------------------
(* The store task.                                                         *)

Receive(type) ==
    /\ owed = << >> /\ pushing = Nothing
    /\ inbox # << >>
    /\ Head(inbox).type = type
    /\ inbox' = Tail(inbox)

Sender == Head(inbox).who

(* The replicas in the order in which the map of clients happens to be.     *)
Orders == {o \in [1..Cardinality(Replicas) -> Replicas] :
              \A i, j \in DOMAIN o : o[i] = o[j] => i = j}

(* A SET is executed and answered; then it is sent to every replica.        *)
ExecSet ==
    /\ Receive("set")
    /\ pending' = TRUE
    /\ task' = [task EXCEPT ![Sender] = "reading"]
    /\ pushing' = "set"
    /\ owed' \in Orders
    /\ UNCHANGED <<timers, calls, push, socket, acks, holding>>

(* A WAIT asks the replicas if there were writes since it last did, and its
   timeout task is spawned after that.                                      *)
AskReplicas ==
    /\ pending
    /\ owed = << >> /\ pushing = Nothing
    /\ inbox # << >> /\ Head(inbox).type = "wait"
    /\ pending' = FALSE
    /\ pushing' = "getack"
    /\ owed' \in Orders
    /\ UNCHANGED <<inbox, timers, task, calls, push, socket, acks, holding>>

BlockWait ==
    /\ Receive("wait")
    /\ ~pending
    /\ timers' = timers \cup {Sender}
    /\ UNCHANGED <<pushing, owed, pending, task, calls, push, socket, acks, holding>>

(* tx.send(..).await *)
PushNext ==
    /\ owed # << >>
    /\ Len(push[Head(owed)]) < PushCap
    /\ push' = [push EXCEPT ![Head(owed)] = Append(@, pushing)]
    /\ owed' = Tail(owed)
    /\ pushing' = IF Tail(owed) = << >> THEN Nothing ELSE pushing
    /\ UNCHANGED <<inbox, pending, timers, task, calls, socket, acks, holding>>

ExecAck ==
    /\ Receive("ack")
    /\ UNCHANGED <<pushing, owed, pending, timers, task, calls, push, socket, acks, holding>>

ExecWaitTimeout ==
    /\ Receive("timeout")
    /\ task' = [task EXCEPT ![Sender] = "reading"]
    /\ UNCHANGED <<pushing, owed, pending, timers, calls, push, socket, acks, holding>>

-----------------------------------------------------------------------------
StoreStep == ExecSet \/ AskReplicas \/ BlockWait \/ PushNext \/ ExecAck \/ ExecWaitTimeout

Next ==
    \/ StoreStep
    \/ \E c \in Clients : Send(c) \/ TimerFires(c)
    \/ \E r \in Replicas : WritePush(r) \/ ReadAck(r) \/ ForwardAck(r) \/ ReplicaReads(r)

(* Every task runs on when it can, every replica reads, and whoever waits for
   room gets it in turn if there is room again and again.                   *)
Fairness ==
    /\ WF_vars(StoreStep)
    /\ \A c \in Clients : SF_vars(TimerFires(c))
    /\ \A r \in Replicas :
          /\ WF_vars(WritePush(r)) /\ WF_vars(ReadAck(r)) /\ WF_vars(ReplicaReads(r))
          /\ SF_vars(ForwardAck(r))

FairSpec == Init /\ [][Next]_vars /\ Fairness

-----------------------------------------------------------------------------
(* "On timeout, reply with however many replicas are caught up by now": a WAIT
   with a timeout is answered, if nobody and nothing in the system fails.     *)
WaitTimesOut == \A c \in Clients : (task[c] = "wait") ~> (task[c] = "reading")
=============================================================================
