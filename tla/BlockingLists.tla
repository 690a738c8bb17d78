---------------------------- MODULE BlockingLists ----------------------------
(***************************************************************************)
(* The list commands of the store and everything they involve: the client  *)
(* tasks (handle_client), the store's bounded inbox, the store task        *)
(* (run_store / try_execute), the BLPOP waiters and their timer tasks.     *)
(*                                                                         *)
(* The store task is sequential and never awaits inside a list command.    *)
(* The loop that serves the waiters of a pushed key is still one step per  *)
(* waiter here: each reply it sends is visible to the client tasks, which  *)
(* run on other threads, before the loop goes on.                          *)
(***************************************************************************)
EXTENDS ListData, FiniteSets

CONSTANTS
    InboxCap,    \* capacity of the store's mpsc channel (1024 in the code)
    Leavers      \* bound: the peers that may disconnect

ASSUME InboxCapAssumption == InboxCap \in Nat \ {0}
ASSUME LeaversAssumption == Leavers \subseteq Clients

VARIABLES
    data,         \* store.data: the value of each key
    inbox,        \* the mpsc channel to the store, a FIFO of envelopes
    waiters,      \* store.list_blpop_waiters
    waiter_id,    \* store.waiter_id: the last waiter id given out
    todo,         \* ids the loop of notify_blpop_waiters has yet to visit
    pusher,       \* the client whose push runs that loop, or NoClient
    timers,       \* ids of the sleeping timeout tasks
    task,         \* the client task: at its select!, awaiting a reply, or ended
    connected,    \* whether the peer still holds its end of the connection
    oneshot,      \* the reply channel of the command a client task awaits
    request,      \* the command a client last sent
    \* history, read by no action
    used,         \* how many elements were sent
    sent,         \* how many commands were sent
    delivered,    \* the elements each client was sent
    lost,         \* elements answered to a peer that had gone
    overwritten   \* elements of the lists a SET replaced

store    == <<data, waiters, waiter_id, todo, pusher>>
channels == <<inbox, oneshot, timers>>
clients  == <<task, connected, request>>
history  == <<used, sent, delivered, lost, overwritten>>
vars     == <<store, channels, clients, history>>

NoReply  == [ready |-> FALSE, els |-> << >>]
Reply(s) == [ready |-> TRUE, els |-> s]

WithReply(c, cmd)    == [type |-> "WithReply", client |-> c, command |-> cmd]
TimeoutBlpop(id)     == [type |-> "TimeoutBlpop", waiter_id |-> id]
UnregisterClient(c)  == [type |-> "UnregisterClient", client |-> c]
Waiter(id, c, ks)    == [id |-> id, client |-> c, keys |-> ks]

Envelopes == [type : {"WithReply"}, client : Clients, command : Commands]
             \cup [type : {"TimeoutBlpop"}, waiter_id : Nat]
             \cup [type : {"UnregisterClient"}, client : Clients]

KeysOf(w) == {w.keys[i] : i \in 1..Len(w.keys)}

Init ==
    /\ data = [k \in Keys |-> Absent]
    /\ inbox = << >>
    /\ waiters = {}
    /\ waiter_id = 0
    /\ todo = {}
    /\ pusher = NoClient
    /\ timers = {}
    /\ task = [c \in Clients |-> "reading"]
    /\ connected = [c \in Clients |-> TRUE]
    /\ oneshot = [c \in Clients |-> NoReply]
    /\ request = [c \in Clients |-> NoCommand]
    /\ used = 0
    /\ sent = 0
    /\ delivered = [c \in Clients |-> {}]
    /\ lost = {}
    /\ overwritten = {}

-----------------------------------------------------------------------------
(* The client tasks and their peers.                                       *)

InboxHasRoom == Len(inbox) < InboxCap

(* A command arrives at the socket; the task puts it in the store's inbox
   and awaits the reply.                                                    *)
Send(c) ==
    /\ task[c] = "reading"
    /\ connected[c]
    /\ InboxHasRoom
    /\ sent < MaxCmds
    /\ \E cmd \in Requests(used) :
          /\ inbox' = Append(inbox, WithReply(c, cmd))
          /\ request' = [request EXCEPT ![c] = cmd]
          /\ used' = used + Len(Payload(cmd))
    /\ task' = [task EXCEPT ![c] = "awaiting"]
    /\ sent' = sent + 1
    /\ UNCHANGED <<store, oneshot, timers, connected, delivered, lost, overwritten>>

(* The reply is there.  Writing it to a peer that has gone fails, and the
   task ignores the error: what the reply carried is lost.                  *)
WriteReply(c) ==
    /\ task[c] = "awaiting"
    /\ oneshot[c].ready
    /\ LET els == {oneshot[c].els[i] : i \in 1..Len(oneshot[c].els)} IN
          IF connected[c]
          THEN /\ delivered' = [delivered EXCEPT ![c] = @ \cup els]
               /\ UNCHANGED lost
          ELSE /\ lost' = lost \cup els
               /\ UNCHANGED delivered
    /\ oneshot' = [oneshot EXCEPT ![c] = NoReply]
    /\ task' = [task EXCEPT ![c] = "reading"]
    /\ UNCHANGED <<store, inbox, timers, connected, request, used, sent, overwritten>>

Disconnect(c) ==
    /\ c \in Leavers
    /\ connected[c]
    /\ connected' = [connected EXCEPT ![c] = FALSE]
    /\ UNCHANGED <<store, channels, task, request, history>>

(* A task that awaits a reply does not read its socket, so it notices the
   end of the connection only back at its select!.                          *)
CloseTask(c) ==
    /\ task[c] = "reading"
    /\ ~connected[c]
    /\ InboxHasRoom
    /\ inbox' = Append(inbox, UnregisterClient(c))
    /\ task' = [task EXCEPT ![c] = "ended"]
    /\ UNCHANGED <<store, oneshot, timers, connected, request, history>>

TimerFires(id) ==
    /\ id \in timers
    /\ InboxHasRoom
    /\ timers' = timers \ {id}
    /\ inbox' = Append(inbox, TimeoutBlpop(id))
    /\ UNCHANGED <<store, oneshot, clients, history>>

-----------------------------------------------------------------------------
(* The store task.                                                         *)

(* The store takes its next envelope only when it has finished the last. *)
StoreIdle == pusher = NoClient

Receive(type) ==
    /\ StoreIdle
    /\ inbox # << >>
    /\ Head(inbox).type = type
    /\ inbox' = Tail(inbox)

ReceiveCommand(ops) ==
    /\ Receive("WithReply")
    /\ Head(inbox).command.op \in ops

Answer(c, els) == oneshot' = [oneshot EXCEPT ![c] = Reply(els)]

(* mutant: only the waiters whose first key it is are notified *)
NotifyFirstKey(k) == {w.id : w \in {v \in waiters : v.keys[1] = k}}
(* notify_blpop_waiters first collects the ids of the waiters of the key. *)
Notified(k) == {w.id : w \in {v \in waiters : k \in KeysOf(v)}}

(* mutant: a push onto a string leaves the type of the value as it was *)
PushKeepsType(c, cmd) == data' = [data EXCEPT ![cmd.key].list = Pushed(cmd, @)]
(* mutant: the pushed elements replace the list *)
PushReplaces(c, cmd) == data' = [data EXCEPT ![cmd.key] = ListValue(cmd.els)]
PushElements(c, cmd) ==
    data' = [data EXCEPT ![cmd.key] = ListValue(Pushed(cmd, @.list))]

(* RPUSH / LPUSH, up to the loop over the notified waiters.  A key that
   holds no list is overwritten by a new list.                              *)
StartPush ==
    /\ ReceiveCommand({"rpush", "lpush"})
    /\ LET c   == Head(inbox).client
           cmd == Head(inbox).command
       IN  /\ PushElements(c, cmd)
           /\ todo' = Notified(cmd.key)
           /\ pusher' = c
    /\ UNCHANGED <<waiters, waiter_id, oneshot, timers, clients, history>>

(* One turn of the loop: the waiters come in the order of a hash map, which
   is any order.                                                            *)
ServeWaiter(w) ==
    /\ w \in waiters
    /\ w.id \in todo
    /\ HasElement(data, w.keys)
    /\ LET k == FirstKey(data, w.keys) IN
          /\ data' = PopHead(data, k)
          /\ Answer(w.client, <<Head(data[k].list)>>)
    /\ waiters' = waiters \ {w}
    /\ todo' = todo \ {w.id}
    /\ UNCHANGED <<waiter_id, pusher, inbox, timers, clients, history>>

SkipWaiter(w) ==
    /\ w \in waiters
    /\ w.id \in todo
    /\ ~HasElement(data, w.keys)
    /\ todo' = todo \ {w.id}
    /\ UNCHANGED <<data, waiters, waiter_id, pusher, channels, clients, history>>

FinishPush ==
    /\ pusher # NoClient
    /\ todo = {}
    /\ Answer(pusher, << >>)
    /\ pusher' = NoClient
    /\ UNCHANGED <<data, waiters, waiter_id, todo, inbox, timers, clients, history>>

ExecLpop ==
    /\ ReceiveCommand({"lpop"})
    /\ LET cmd == Head(inbox).command
           s   == data[cmd.key].list
       IN  /\ data' = [data EXCEPT ![cmd.key].list = Remaining(cmd.count, s)]
           /\ Answer(Head(inbox).client, Popped(cmd.count, s))
    /\ UNCHANGED <<waiters, waiter_id, todo, pusher, timers, clients, history>>

ExecBlpop ==
    /\ ReceiveCommand({"blpop"})
    /\ LET cmd == Head(inbox).command
           k   == FirstKey(data, cmd.keys)
       IN  /\ HasElement(data, cmd.keys)
           /\ data' = PopHead(data, k)
           /\ Answer(Head(inbox).client, <<Head(data[k].list)>>)
    /\ UNCHANGED <<waiters, waiter_id, todo, pusher, timers, clients, history>>

(* mutant: no timer task is spawned *)
NoTimer(cmd, id) == timers
(* mutant: a timeout of 0 is taken literally *)
TimerAlways(cmd, id) == timers \cup {id}
(* A timeout of 0 becomes u64::MAX milliseconds: that timer never fires. *)
Timer(cmd, id) == IF cmd.finite THEN timers \cup {id} ELSE timers

BlockBlpop ==
    /\ ReceiveCommand({"blpop"})
    /\ LET c   == Head(inbox).client
           cmd == Head(inbox).command
           id  == waiter_id + 1
       IN  /\ ~HasElement(data, cmd.keys)
           /\ waiter_id' = id
           /\ waiters' = waiters \cup {Waiter(id, c, cmd.keys)}
           /\ timers' = Timer(cmd, id)
    /\ UNCHANGED <<data, todo, pusher, oneshot, clients, history>>

ExecSet ==
    /\ ReceiveCommand({"set"})
    /\ LET k == Head(inbox).command.key
           s == data[k].list
       IN  /\ data' = [data EXCEPT ![k] = StrValue]
           /\ overwritten' = overwritten \cup {s[i] : i \in 1..Len(s)}
           /\ Answer(Head(inbox).client, << >>)
    /\ UNCHANGED <<waiters, waiter_id, todo, pusher, timers, clients,
                   used, sent, delivered, lost>>

(* mutant: a timed-out waiter is answered and stays registered *)
TimeoutLeavesWaiter(w) ==
    /\ Answer(w.client, << >>)
    /\ UNCHANGED waiters
TimeoutAnswers(w) ==
    /\ Answer(w.client, << >>)
    /\ waiters' = waiters \ {w}

(* The waiter may have been served since its timer fired. *)
ExecTimeout ==
    /\ Receive("TimeoutBlpop")
    /\ LET due == {w \in waiters : w.id = Head(inbox).waiter_id} IN
          \/ \E w \in due : TimeoutAnswers(w)
          \/ due = {} /\ UNCHANGED <<waiters, oneshot>>
    /\ UNCHANGED <<data, waiter_id, todo, pusher, timers, clients, history>>

(* Drops the client's push channel; its waiters stay. *)
ExecUnregister ==
    /\ Receive("UnregisterClient")
    /\ UNCHANGED <<store, oneshot, timers, clients, history>>

-----------------------------------------------------------------------------
StoreStep ==
    \/ StartPush \/ FinishPush
    \/ \E w \in waiters : ServeWaiter(w) \/ SkipWaiter(w)
    \/ ExecLpop \/ ExecBlpop \/ BlockBlpop \/ ExecSet
    \/ ExecTimeout \/ ExecUnregister

Next ==
    \/ \E c \in Clients : Send(c) \/ WriteReply(c) \/ Disconnect(c) \/ CloseTask(c)
    \/ \E id \in timers : TimerFires(id)
    \/ StoreStep

(* The store task always takes the next envelope, a reply that is there is
   always written, and a sleeping task always wakes.  Peers owe nothing:
   they need neither send nor disconnect.                                   *)
Fairness ==
    /\ WF_vars(StoreStep)
    /\ \A c \in Clients : WF_vars(WriteReply(c))
    /\ \A id \in 1..MaxCmds : WF_vars(TimerFires(id))

Spec == Init /\ [][Next]_vars
FairSpec == Spec /\ Fairness

-----------------------------------------------------------------------------
(* Properties                                                              *)

Replies == [ready : BOOLEAN, els : Seq(Nat)]

TypeOK ==
    /\ data \in [Keys -> Values]
    /\ inbox \in Seq(Envelopes)
    /\ waiters \subseteq [id : Nat, client : Clients, keys : Seq(Keys)]
    /\ waiter_id \in Nat
    /\ todo \subseteq Nat
    /\ pusher \in Clients \cup {NoClient}
    /\ timers \subseteq Nat
    /\ task \in [Clients -> {"reading", "awaiting", "ended"}]
    /\ connected \in [Clients -> BOOLEAN]
    /\ oneshot \in [Clients -> Replies]
    /\ request \in [Clients -> Commands \cup {NoCommand}]
    /\ used \in Nat
    /\ sent \in Nat
    /\ delivered \in [Clients -> SUBSET Nat]
    /\ lost \subseteq Nat
    /\ overwritten \subseteq Nat

(* Between two envelopes no client is blocked on a list that has an element:
   whatever way elements came to be there - a push that carried more than its
   first waiter took, a waiter that could choose among several keys - every
   waiter that could have been served was (notify_blpop_waiters).           *)
NoStrandedWaiter ==
    StoreIdle => \A w \in waiters : ~HasElement(data, w.keys)

(* Every client task that awaits a reply is owed exactly one, by exactly one
   of: its envelope in the inbox, its waiter, the push that is running, or a
   reply on its channel; a task that awaits nothing is owed nothing.  Else
   the task panics, hangs, or takes one command's reply for another's.      *)
Debts(c) ==
    {<<"inbox", i>> : i \in {j \in 1..Len(inbox) :
                                /\ inbox[j].type = "WithReply"
                                /\ inbox[j].client = c}}
    \cup {<<"waiter", w.id>> : w \in {v \in waiters : v.client = c}}
    \cup {<<"push", 0>> : d \in {pusher} \cap {c}}
    \cup {<<"oneshot", 0>> : d \in {r \in {oneshot[c]} : r.ready}}

OwedExactlyOnce ==
    \A c \in Clients :
        Cardinality(Debts(c)) = IF task[c] = "awaiting" THEN 1 ELSE 0

(* No element is lost or handed out twice: each one that was ever sent is in
   exactly one place - under way to the store, in one list, in one reply under
   way, with one peer, or lost in a way the code allows (answered to a peer
   that had gone, or in a list that a SET replaced).                        *)
In(s, e) == {i \in 1..Len(s) : s[i] = e}

Places(e) ==
    (UNION {{<<"inbox", i, j>> : j \in In(Payload(inbox[i].command), e)} :
               i \in {m \in 1..Len(inbox) : inbox[m].type = "WithReply"}})
    \cup (UNION {{<<"list", k, j>> : j \in In(data[k].list, e)} : k \in Keys})
    \cup (UNION {{<<"reply", c, j>> : j \in In(oneshot[c].els, e)} : c \in Clients})
    \cup {<<"peer", c, 0>> : c \in {d \in Clients : e \in delivered[d]}}
    \cup {<<"lost", 0, 0>> : d \in {e} \cap lost}
    \cup {<<"overwritten", 0, 0>> : d \in {e} \cap overwritten}

ElementsConserved == \A e \in 1..used : Cardinality(Places(e)) = 1

(* A client that asked with a bound on its wait gets an answer, whatever the
   others do: also when its timer races the push that serves it.            *)
BoundedWait(cmd) == cmd.op # "blpop" \/ cmd.finite

AnsweredInTime ==
    \A c \in Clients :
        (task[c] = "awaiting" /\ BoundedWait(request[c])) ~> (task[c] # "awaiting")

(* The commands behave as if each took effect at one instant between its
   call and its reply; a BLPOP that gives up does so at an instant at which
   all of its lists are empty.                                              *)
call ==
    [c \in Clients |->
        IF task[c] # "awaiting" THEN [st |-> "idle"]
        ELSE IF oneshot[c].ready THEN [st |-> "decided", reply |-> oneshot[c].els]
        ELSE IF pusher = c THEN [st |-> "decided", reply |-> << >>]
        ELSE [st |-> "called", cmd |-> request[c]]]

Linear == INSTANCE LinearLists WITH data <- data, call <- call, used <- used
Linearizable == Linear!Spec
=============================================================================
